------------------------------ MODULE HttpRetry ------------------------------
(***************************************************************************)
(* One HTTP client of azure-init against a server that may answer with any *)
(* status, late, or never: libazureinit's http::request and the two loops  *)
(* around it, imds::query and health::_report.  Time is a clock in ticks   *)
(* and timers fire on time.                                                *)
(*                                                                         *)
(* request retries one request every Interval until an answer with a good  *)
(* or a fatal status, under a timeout of its own for each attempt and      *)
(* under `left` for all of them.  query goes on with what is left when the *)
(* body that follows a good status is not what it wants.                   *)
(***************************************************************************)
EXTENDS Naturals

CONSTANTS
    RequestTimeout,  \* [Call -> Nat]: for one attempt, its body included
    Interval,        \* [Call -> Nat]: between two attempts
    Total            \* [Call -> Nat]: total_retry_timeout_secs

(* imds::query is a GET, health::_report a POST. *)
Call == {"query", "report"}

ASSUME TimesAssumption ==
    /\ RequestTimeout \in [Call -> Nat]
    /\ Interval \in [Call -> Nat]
    /\ Total \in [Call -> Nat]

VARIABLES
    now,
    call,       \* what is being called
    http,       \* where it is: "idle", "sent", "sleep", "body", "done"
    left,       \* retry_for of the current request
    began,      \* when that request began
    sentAt,     \* when its last attempt was sent
    tookAt,     \* when its last attempt ended: answered or given up
    result,
    route,      \* what the answer to its last attempt will be an answer to
    \* history
    start,      \* when the call began
    reading,    \* ticks spent reading bodies in this call
    refused,    \* good answers of this call whose body was no good
    attempts,   \* attempts made in this call
    posted      \* a POST is on its way, and may still be when it was given up

(* A redirect is followed within an attempt: the report goes elsewhere     *)
(* ("moved"), or a GET in its place.                                       *)
Route == {"direct", "moved", "get"}

callVars == <<call, start, began, left>>
httpVars == <<now, callVars, http, sentAt, tookAt, result, reading, refused, attempts, posted, route>>

Minus(m, n) == IF n < m THEN m - n ELSE 0

(* The status classes request tells apart: those error_for_status lets     *)
(* through, RETRY_CODES, and the rest.  A 3xx comes up to request if it is *)
(* not followed: one without Location, 300 and 304.                        *)
Success  == {"2xx", "3xx"}
RetryCodes == {"400", "404", "410", "429", "500", "503"}
Fatal    == {"401", "403", "405", "other"}
Status   == Success \cup RetryCodes \cup Fatal

HttpInit ==
    /\ now = 0 /\ call = "query" /\ http = "idle" /\ result = "none"
    /\ left = 0 /\ began = 0 /\ sentAt = 0 /\ tookAt = 0
    /\ start = 0 /\ reading = 0 /\ refused = 0 /\ attempts = 0 /\ posted = FALSE
    /\ route = "direct"

-----------------------------------------------------------------------------
(* An attempt: the clone of the request is executed. *)
Send ==
    /\ http' = "sent" /\ sentAt' = now /\ attempts' = attempts + 1 /\ route' = "direct"
    /\ posted' = (posted \/ call = "report")

Finish(r) == http' = "done" /\ result' = r

(* query and _report up to their loop, which is not entered without time. *)
Begin(c) ==
    /\ http \in {"idle", "done"}
    /\ call' = c /\ start' = now /\ began' = now /\ left' = Total[c]
    /\ reading' = 0 /\ refused' = 0 /\ route' = "direct"
    /\ \/ /\ Total[c] > 0 /\ http' = "sent" /\ sentAt' = now /\ attempts' = 1
          /\ posted' = (c = "report") /\ result' = "none"
       \/ /\ Total[c] = 0 /\ Finish("Timeout")
          /\ sentAt' = now /\ attempts' = 0 /\ posted' = FALSE
    /\ UNCHANGED <<now, tookAt>>

(* Mutation: the whole of retry_for is handed back. *)
Remaining_All == left

(* What request returns of retry_for beside the response. *)
Remaining == Minus(left, (now - began) + Interval[call])

(* Mutation: a retryable status is tried again at once. *)
Retry_AtOnce ==
    /\ Send /\ tookAt' = now
    /\ UNCHANGED <<now, callVars, result, reading, refused>>

(* request sleeps after an attempt that may be repeated. *)
Retry ==
    /\ http' = "sleep" /\ tookAt' = now
    /\ UNCHANGED <<now, callVars, sentAt, result, reading, refused, attempts, posted, route>>

(* Mutation: any answer that is no error means that the report was taken. *)
Answer_Redirect(status) ==
    /\ http = "sent" /\ call = "report" /\ status \in Success
    /\ Finish("Ok") /\ left' = Remaining /\ tookAt' = now
    /\ UNCHANGED <<now, call, start, began, sentAt, reading, refused, attempts, posted, route>>

(* An answer comes.  A good one is returned with the time remaining; query *)
(* then reads its body, _report takes 2xx only.  Its own branch for 429,   *)
(* 500 and 503 is never reached: request retries those itself.             *)
Answer(status) ==
    /\ http = "sent"
    /\ \/ /\ status \in Success
          /\ \/ call = "query" /\ http' = "body" /\ UNCHANGED result
             \/ call = "report" /\ Finish(IF status = "2xx" THEN "Ok" ELSE "HttpStatus")
          /\ left' = Remaining /\ tookAt' = now
          /\ UNCHANGED <<now, call, start, began, sentAt, reading, refused, attempts, posted, route>>
       \/ status \in RetryCodes /\ Retry
       \/ /\ status \in Fatal /\ Finish("Http") /\ tookAt' = now
          /\ UNCHANGED <<now, callVars, sentAt, reading, refused, attempts, posted, route>>

(* The client of reqwest follows a redirect (its default policy): 307 and  *)
(* 308 send the request to another place, 301, 302 and 303 make a GET of   *)
(* the POST.  After ten, execute fails (NoAnswer).  For a query, which is a *)
(* GET and whose body decides, nothing changes.                            *)
Redirect ==
    /\ http = "sent" /\ call = "report"
    /\ route' \in (IF route = "get" THEN {"get"} ELSE {"moved", "get"})
    /\ UNCHANGED <<now, callVars, http, sentAt, tookAt, result, reading, refused, attempts, posted>>

(* The connection fails, or the time of the attempt is over. *)
NoAnswer == http = "sent" /\ Retry

Wake ==
    /\ http = "sleep" /\ now = tookAt + Interval[call]
    /\ Send
    /\ UNCHANGED <<now, callVars, tookAt, result, reading, refused>>

(* Mutation: nothing ends a request but an answer. *)
OuterTimeout_Never == FALSE /\ UNCHANGED httpVars

(* The timeout around the loop drops it, a request in flight with it.  It  *)
(* looks at the loop first: a sleep that is over goes on.                  *)
OuterTimeout ==
    /\ http \in {"sent", "sleep"} /\ now = began + left
    /\ http = "sleep" => now # tookAt + Interval[call]
    /\ Finish("Timeout")
    /\ UNCHANGED <<now, callVars, sentAt, tookAt, reading, refused, attempts, posted, route>>

(* Mutation: a body that is no good ends the query. *)
BadBody_GivesUp ==
    /\ http = "body" /\ Finish("Timeout")
    /\ reading' = reading + (now - tookAt) /\ refused' = refused + 1
    /\ UNCHANGED <<now, callVars, sentAt, tookAt, attempts, posted, route>>

GoodBody ==
    /\ http = "body" /\ Finish("Ok")
    /\ reading' = reading + (now - tookAt)
    /\ UNCHANGED <<now, callVars, sentAt, tookAt, refused, attempts, posted, route>>

(* The body cannot be read in time or is not the JSON that is expected:    *)
(* the loop goes on, without a pause, as long as time remains.             *)
BadBody ==
    /\ http = "body"
    /\ reading' = reading + (now - tookAt) /\ refused' = refused + 1
    /\ \/ left > 0 /\ Send /\ began' = now /\ UNCHANGED result
       \/ left = 0 /\ Finish("Timeout") /\ UNCHANGED <<began, sentAt, attempts, posted, route>>
    /\ UNCHANGED <<now, call, start, left, tookAt>>

(* A timer that is due fires before time goes on. *)
Tick ==
    /\ http \in {"sent", "body"} => now < sentAt + RequestTimeout[call]
    /\ http \in {"sent", "sleep"} => now < began + left
    /\ http = "sleep" => now < tookAt + Interval[call]
    /\ http \in {"sent", "sleep", "body"}
    /\ now' = now + 1
    /\ UNCHANGED <<callVars, http, sentAt, tookAt, result, reading, refused, attempts, posted, route>>

(* What the client does by itself, whatever the server does. *)
ClientStep == NoAnswer \/ Wake \/ OuterTimeout \/ BadBody \/ Tick

HttpStep == ClientStep \/ Redirect \/ GoodBody \/ \E s \in Status : Answer(s)

-----------------------------------------------------------------------------
(* Properties *)

(* The time this call has spent on bodies. *)
InBodies == reading + (IF http = "body" THEN now - tookAt ELSE 0)

HttpTypeOK ==
    /\ now \in Nat /\ call \in Call /\ http \in {"idle", "sent", "sleep", "body", "done"}
    /\ left \in Nat /\ began \in Nat /\ sentAt \in Nat /\ tookAt \in Nat
    /\ result \in {"none", "Ok", "Timeout", "Http", "HttpStatus"}
    /\ start \in Nat /\ reading \in Nat /\ refused \in Nat /\ attempts \in Nat
    /\ posted \in BOOLEAN /\ route \in Route

(* However the server answers, and in however many rounds, a call waits no *)
(* longer than total_retry_timeout_secs, the reading of bodies apart: what *)
(* one request used is gone for the next, and no body is read for longer   *)
(* than the time of an attempt.                                            *)
WithinBudget ==
    http # "idle" =>
        /\ now <= start + Total[call] + InBodies
        /\ InBodies <= (refused + 1) * RequestTimeout[call]

(* It does not give up sooner either, but for one Interval that each body  *)
(* it refused has cost.                                                    *)
GivesUpLate ==
    http = "done" /\ result = "Timeout" =>
        start + Total[call] <= now + refused * Interval[call]

(* The server is asked at most once per Interval, and once more for each   *)
(* body refused; and it can have only so many bodies refused.  Redirects   *)
(* followed belong to the attempt that met them.                           *)
RateLimited ==
    http # "idle" =>
        /\ attempts * Interval[call] <= (now - start) + (refused + 1) * Interval[call]
        /\ refused * Interval[call] <= Total[call] + Interval[call]
=============================================================================
