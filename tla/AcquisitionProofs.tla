-------------------------- MODULE AcquisitionProofs --------------------------
(***************************************************************************)
(* Proofs about Acquisition for any devices and any times and timeouts:    *)
(* the time and the number of requests a call takes, whatever the server   *)
(* does, what the exit code and the server's report stand for, and that    *)
(* every device that was tried is released.                                *)
(***************************************************************************)
EXTENDS Acquisition, TLAPS

(* What the call has and what its refused bodies and its attempts cost. *)
T == Total[call]
I == Interval[call]
RT == RequestTimeout[call]
RI == refused * I
RR == refused * RT
AI == attempts * I

-----------------------------------------------------------------------------
(* The inductive invariant of HttpRetry. *)

(* A request runs, with what is left of the total: what the rounds before  *)
(* used is gone, and so is an Interval for each body refused.              *)
Running ==
    /\ start <= began /\ began <= sentAt /\ sentAt <= now /\ now <= began + left
    /\ began + left <= start + T + reading /\ reading <= RR
    /\ start + T <= began + left + RI /\ left + RI <= T

(* A body is read: the same, with what request handed back. *)
Reading ==
    /\ start <= sentAt /\ sentAt <= tookAt /\ tookAt <= now /\ now <= sentAt + RT
    /\ tookAt + left <= start + T + reading /\ reading <= RR
    /\ start + T <= tookAt + left + RI + I /\ RI <= T
    /\ left > 0 => left + RI + I <= T
    /\ AI <= (sentAt - start) + RI + I

Over ==
    /\ start <= now /\ now <= start + T + reading /\ reading <= RR + RT
    /\ result = "Timeout" => start + T <= now + RI
    /\ RI <= T + I
    /\ AI <= (now - start) + RI + I

HttpInv ==
    /\ HttpTypeOK
    /\ http = "sent" => Running /\ now <= sentAt + RT /\ AI <= (sentAt - start) + RI + I
    /\ http = "sleep" => Running /\ sentAt <= tookAt /\ tookAt <= now
                         /\ AI <= (tookAt - start) + RI + I
    /\ http = "body" => Reading
    /\ http = "done" => Over

LEMMA Product ==
    ASSUME NEW m \in Nat, NEW n \in Nat
    PROVE  m * n \in Nat /\ (m + 1) * n = m * n + n /\ 0 * n = 0 /\ 1 * n = n
OBVIOUS

(* The numbers a call is about. *)
LEMMA Numbers ==
    ASSUME HttpTypeOK
    PROVE  /\ T \in Nat /\ I \in Nat /\ RT \in Nat
           /\ RI \in Nat /\ RR \in Nat /\ AI \in Nat
           /\ now \in Nat /\ left \in Nat /\ began \in Nat /\ sentAt \in Nat
           /\ tookAt \in Nat /\ start \in Nat /\ reading \in Nat
<1>1. T \in Nat /\ I \in Nat /\ RT \in Nat
  BY TimesAssumption DEF HttpTypeOK, T, I, RT
<1> QED BY <1>1, Product DEF HttpTypeOK, RI, RR, AI

(* The properties are those parts of the invariant that concern a caller. *)
LEMMA HttpInvSays ==
    ASSUME HttpInv
    PROVE  WithinBudget /\ GivesUpLate /\ RateLimited
<1>1. HttpTypeOK BY DEF HttpInv
<1>2. /\ http # "idle" => now <= start + T + InBodies /\ InBodies <= RR + RT
      /\ http = "done" /\ result = "Timeout" => start + T <= now + RI
      /\ http # "idle" => AI <= (now - start) + (RI + I) /\ RI <= T + I
  <2>1. CASE http = "idle" BY <2>1
  <2>2. CASE http \in {"sent", "sleep"}
    BY <1>1, <2>2, Numbers DEF HttpInv, Running, InBodies
  <2>3. CASE http = "body"
    BY <1>1, <2>3, Numbers DEF HttpInv, Reading, InBodies
  <2>4. CASE http = "done"
    BY <1>1, <2>4, Numbers DEF HttpInv, Over, InBodies
  <2> QED BY <1>1, <2>1, <2>2, <2>3, <2>4 DEF HttpTypeOK
<1>3. (refused + 1) * I = RI + I /\ (refused + 1) * RT = RR + RT
  BY <1>1, Numbers, Product DEF HttpTypeOK, RI, RR
<1> QED BY <1>2, <1>3 DEF WithinBudget, GivesUpLate, RateLimited, T, I, RT, RI, RR, AI

LEMMA HttpInitInv == HttpInit => HttpInv
<1> SUFFICES ASSUME HttpInit PROVE HttpInv OBVIOUS
<1>1. posted \in BOOLEAN /\ route \in Route BY DEF HttpInit, Route
<1>2. HttpTypeOK BY <1>1 DEF HttpInit, HttpTypeOK, Call
<1> QED BY <1>2 DEF HttpInit, HttpInv

(* A call begins: nothing is used, nothing refused. *)
LEMMA BeginInv ==
    ASSUME HttpInv, NEW c \in Call, Begin(c)
    PROVE  HttpInv'
<1>1. HttpTypeOK BY DEF HttpInv
<1>2. /\ Total[c] \in Nat /\ Interval[c] \in Nat /\ RequestTimeout[c] \in Nat
  BY TimesAssumption
<1>3. HttpTypeOK'
  <2>1. posted' \in BOOLEAN /\ route' \in Route BY DEF Begin, Route
  <2>2. result' \in {"none", "Timeout"} /\ http' \in {"sent", "done"} /\ attempts' \in Nat
    BY DEF Begin, Finish
  <2> QED BY <1>1, <1>2, <2>1, <2>2 DEF Begin, Finish, HttpTypeOK
<1>4. T' = Total[c] /\ I' = Interval[c] /\ RT' = RequestTimeout[c] /\ RI' = 0 /\ RR' = 0
  BY <1>2, Product DEF Begin, T, I, RT, RI, RR
<1>5. CASE Total[c] > 0 /\ http' = "sent"
  <2>1. AI' = I' BY <1>2, <1>5, Product DEF Begin, Finish, AI, I
  <2> QED BY <1>1, <1>2, <1>3, <1>4, <1>5, <2>1, Numbers
          DEF Begin, Finish, HttpInv, Running
<1>6. CASE Total[c] = 0 /\ http' = "done"
  <2>1. AI' = 0 BY <1>2, <1>6, Product DEF Begin, Finish, AI, I
  <2> QED BY <1>1, <1>2, <1>3, <1>4, <1>6, <2>1, Numbers
          DEF Begin, Finish, HttpInv, Over
<1> QED BY <1>5, <1>6 DEF Begin, Finish

(* While the call and its count of refused bodies stay, so do its numbers. *)
LEMMA SameNumbers ==
    /\ call' = call => T' = T /\ I' = I /\ RT' = RT
    /\ call' = call /\ refused' = refused => RI' = RI /\ RR' = RR
    /\ call' = call /\ attempts' = attempts => AI' = AI
BY DEF T, I, RT, RI, RR, AI

LEMMA RetryInv ==
    ASSUME HttpInv, http = "sent", Retry
    PROVE  HttpInv'
BY SameNumbers, Numbers DEF Retry, callVars, HttpInv, HttpTypeOK, Running

(* The answer takes its Interval from what is left. *)
LEMMA AnswerInv ==
    ASSUME HttpInv, NEW s \in Status, Answer(s)
    PROVE  HttpInv'
<1>1. HttpTypeOK /\ http = "sent" BY DEF HttpInv, Answer
<1>2. CASE Retry BY <1>1, <1>2, RetryInv
<1>3. CASE /\ s \in Fatal /\ Finish("Http") /\ tookAt' = now
           /\ UNCHANGED <<now, callVars, sentAt, reading, refused, attempts, posted, route>>
  <2>1. HttpTypeOK' BY <1>1, <1>3 DEF HttpTypeOK, Finish, callVars
  <2> QED BY <1>1, <1>3, <2>1, SameNumbers, Numbers DEF Finish, callVars, HttpInv, Running, Over
<1>4. CASE /\ s \in Success
           /\ \/ call = "query" /\ http' = "body" /\ UNCHANGED result
              \/ call = "report" /\ Finish(IF s = "2xx" THEN "Ok" ELSE "HttpStatus")
           /\ left' = Remaining /\ tookAt' = now
           /\ UNCHANGED <<now, call, start, began, sentAt, reading, refused, attempts, posted, route>>
  <2>1. /\ left' \in Nat
        /\ left' <= left
        /\ now + left' <= began + left
        /\ began + left <= now + left' + I
        /\ left' > 0 => left' + I <= left
    BY <1>1, <1>4, Numbers DEF Remaining, Minus, HttpInv, Running, I
  <2>2. /\ http' \in {"body", "done"}
        /\ result' \in {"none", "Ok", "Timeout", "Http", "HttpStatus"}
        /\ http' = "done" => result' # "Timeout"
    BY <1>1, <1>4 DEF Finish, HttpTypeOK
  <2>3. HttpTypeOK' BY <1>1, <1>4, <2>1, <2>2 DEF HttpTypeOK
  <2>4. CASE http' = "body"
    BY <1>1, <1>4, <2>1, <2>3, <2>4, SameNumbers, Numbers DEF HttpInv, Running, Reading
  <2>5. CASE http' = "done"
    BY <1>1, <1>4, <2>1, <2>2, <2>3, <2>5, SameNumbers, Numbers DEF HttpInv, Running, Over
  <2> QED BY <2>2, <2>4, <2>5
<1> QED BY <1>2, <1>3, <1>4 DEF Answer

LEMMA WakeInv ==
    ASSUME HttpInv, Wake
    PROVE  HttpInv'
<1>1. HttpTypeOK /\ http = "sleep" BY DEF HttpInv, Wake
<1>2. HttpTypeOK' BY <1>1 DEF HttpTypeOK, Wake, Send, callVars, Route
<1>3. AI' = AI + I
  BY <1>1, Numbers, Product DEF Wake, Send, callVars, HttpTypeOK, AI, I
<1> QED BY <1>1, <1>2, <1>3, SameNumbers, Numbers DEF Wake, Send, callVars, HttpInv, Running, I

LEMMA OuterTimeoutInv ==
    ASSUME HttpInv, OuterTimeout
    PROVE  HttpInv'
<1>1. HttpTypeOK BY DEF HttpInv
<1>2. HttpTypeOK' BY <1>1 DEF HttpTypeOK, OuterTimeout, Finish, callVars
<1> QED BY <1>1, <1>2, SameNumbers, Numbers
        DEF OuterTimeout, Finish, callVars, HttpInv, Running, Over

LEMMA GoodBodyInv ==
    ASSUME HttpInv, GoodBody
    PROVE  HttpInv'
<1>1. HttpTypeOK /\ http = "body" BY DEF HttpInv, GoodBody
<1>2. reading' \in Nat /\ reading' = reading + (now - tookAt)
  BY <1>1, Numbers DEF GoodBody, HttpInv, Reading
<1>3. HttpTypeOK' BY <1>1, <1>2 DEF HttpTypeOK, GoodBody, Finish, callVars
<1> QED BY <1>1, <1>2, <1>3, SameNumbers, Numbers
        DEF GoodBody, Finish, callVars, HttpInv, Reading, Over

(* A refused body costs an Interval and an attempt more. *)
LEMMA BadBodyInv ==
    ASSUME HttpInv, BadBody
    PROVE  HttpInv'
<1>1. HttpTypeOK /\ http = "body" BY DEF HttpInv, BadBody
<1>2. reading' \in Nat /\ reading' = reading + (now - tookAt)
  BY <1>1, Numbers DEF BadBody, HttpInv, Reading
<1>3. T' = T /\ I' = I /\ RT' = RT
  BY SameNumbers DEF BadBody
<1>4. RI' = RI + I /\ RR' = RR + RT
  BY <1>1, <1>3, Numbers, Product DEF BadBody, HttpTypeOK, RI, RR
<1>5. CASE left > 0
  <2>1. HttpTypeOK'
    <3>1. posted' \in BOOLEAN /\ route' \in Route
      BY <1>1, <1>5, Numbers DEF BadBody, Send, HttpTypeOK, Route
    <3>2. attempts' \in Nat /\ refused' \in Nat /\ http' = "sent" /\ UNCHANGED result
      BY <1>1, <1>5, Numbers DEF BadBody, Send, Finish, HttpTypeOK
    <3> QED BY <1>1, <1>2, <1>5, <3>1, <3>2, Numbers DEF HttpTypeOK, BadBody, Send
  <2>2. AI' = AI + I
    BY <1>1, <1>3, <1>5, Numbers, Product DEF BadBody, Send, HttpTypeOK, AI
  <2> QED BY <1>1, <1>2, <1>3, <1>4, <1>5, <2>1, <2>2, Numbers
          DEF BadBody, Send, HttpInv, Reading, Running
<1>6. CASE left = 0
  <2>1. HttpTypeOK' BY <1>1, <1>2, <1>6, Numbers DEF HttpTypeOK, BadBody, Finish
  <2>2. AI' = AI BY <1>1, <1>6, SameNumbers, Numbers DEF BadBody, Finish
  <2> QED BY <1>1, <1>2, <1>3, <1>4, <1>6, <2>1, <2>2, Numbers
          DEF BadBody, Finish, HttpInv, Reading, Over
<1> QED BY <1>1, <1>5, <1>6, Numbers

(* A redirect is followed within the time of its attempt. *)
LEMMA RedirectInv ==
    ASSUME HttpInv, Redirect
    PROVE  HttpInv'
<1>1. route' \in Route BY DEF Redirect, Route
<1>2. UNCHANGED <<now, callVars, http, sentAt, tookAt, result, reading, refused, attempts, posted>>
  BY DEF Redirect
<1>3. HttpTypeOK' BY <1>1, <1>2 DEF HttpInv, HttpTypeOK, callVars
<1> QED BY <1>2, <1>3, SameNumbers DEF HttpInv, callVars, Running, Reading, Over

LEMMA TickInv ==
    ASSUME HttpInv, Tick
    PROVE  HttpInv'
<1>1. HttpTypeOK BY DEF HttpInv
<1>2. HttpTypeOK' BY <1>1 DEF HttpTypeOK, Tick, callVars
<1>3. T' = T /\ I' = I /\ RT' = RT /\ RI' = RI /\ RR' = RR /\ AI' = AI
  BY SameNumbers DEF Tick, callVars
<1>4. CASE http = "sent"
  BY <1>1, <1>2, <1>3, <1>4, Numbers DEF Tick, callVars, HttpInv, Running, RT
<1>5. CASE http = "sleep"
  BY <1>1, <1>2, <1>3, <1>5, Numbers DEF Tick, callVars, HttpInv, Running, RT
<1>6. CASE http = "body"
  BY <1>1, <1>2, <1>3, <1>6, Numbers DEF Tick, callVars, HttpInv, Reading, RT
<1> QED BY <1>4, <1>5, <1>6 DEF Tick

LEMMA HttpStepInv ==
    ASSUME HttpInv, HttpStep \/ UNCHANGED httpVars
    PROVE  HttpInv'
<1>1. CASE ClientStep
  <2>1. CASE NoAnswer BY <2>1, RetryInv DEF NoAnswer
  <2> QED BY <1>1, <2>1, WakeInv, OuterTimeoutInv, BadBodyInv, TickInv DEF ClientStep
<1>2. CASE GoodBody BY <1>2, GoodBodyInv
<1>3. CASE \E s \in Status : Answer(s) BY <1>3, AnswerInv
<1>4. CASE UNCHANGED httpVars
  <2>1. HttpTypeOK' BY <1>4 DEF HttpInv, HttpTypeOK, httpVars, callVars
  <2> QED BY <1>4, <2>1, SameNumbers DEF HttpInv, httpVars, callVars, Running, Reading, Over
<1>5. CASE Redirect BY <1>5, RedirectInv
<1> QED BY <1>1, <1>2, <1>3, <1>4, <1>5 DEF HttpStep

-----------------------------------------------------------------------------
(* The inductive invariant of main. *)

Searching == {"query", "media", "provision"}

(* Where main is, what it has called and what it will say of the run. *)
MainInv ==
    /\ phase \in {"start", "report", "exit"} \cup Searching
    /\ phase \in {"start"} \cup Searching => outcome = "none" /\ error = "none"
    /\ phase = "start" => http = "idle"
    /\ phase = "query" => call = "query"
    /\ phase \in {"media", "provision"} => http = "done"
    /\ phase = "report" => call = "report" /\ outcome \in {"ready", "failed"}
                           /\ (outcome = "ready" <=> done /\ error = "none")
    /\ phase = "exit" => http \in {"idle", "done"}
                         /\ (exitCode = "SUCCESS" <=> done /\ error = "none")
    /\ http = "body" => call = "query"
    /\ phase \in {"report", "exit"} /\ outcome # "none" /\ result = "Ok" /\ route = "direct" =>
            server = outcome
    /\ phase = "report" /\ http # "done" => result = "none"

IInv == HttpInv /\ MainInv

LEMMA InitInv == Init => IInv
BY HttpInitInv DEF Init, IInv, MainInv, HttpInit, Searching

(* Nothing that happens to a request changes what main knows, and a report *)
(* is only taken as delivered when the server has it.                      *)
LEMMA NetworkInv ==
    ASSUME IInv, Network
    PROVE  IInv'
<1> USE DEF Searching
<1>1. HttpInv' BY HttpStepInv DEF IInv, Network, AnswerComes, HttpStep
<1>2. UNCHANGED <<phase, outcome, error, done, exitCode, server>>
  BY DEF Network, mainVars
<1>3. MainInv BY DEF IInv
<1>4. CASE ClientStep
  <2>1. UNCHANGED call /\ http \notin {"idle", "done"} /\ http' # "idle"
        /\ (result' = result \/ (result' = "Timeout" /\ http' = "done"))
        /\ (http' = "body" => http = "body")
    BY <1>4 DEF ClientStep, NoAnswer, Retry, Wake, Send, OuterTimeout, BadBody, Finish, Tick,
                callVars
  <2> QED BY <1>1, <1>2, <1>3, <2>1 DEF IInv, MainInv
<1>5. CASE GoodBody
  <2>1. UNCHANGED call /\ http = "body" /\ http' = "done"
    BY <1>5 DEF GoodBody, Finish, callVars
  <2> QED BY <1>1, <1>2, <1>3, <2>1 DEF IInv, MainInv
<1>6. ASSUME NEW s \in Status, AnswerComes(s) PROVE IInv'
  <2>1. UNCHANGED call /\ http = "sent" /\ http' # "idle"
        /\ (http' = "body" => call = "query")
        /\ (phase = "report" /\ result' = "Ok" => result = "Ok" \/ s = "2xx" \/ call = "query")
        /\ (http' # "done" => result' = result) /\ route' = route
    BY <1>6 DEF AnswerComes, Answer, Retry, Finish, callVars
  <2>2. phase = "report" /\ s = "2xx" /\ route = "direct" => server = outcome
    BY <1>6 DEF AnswerComes
  <2> QED BY <1>1, <1>2, <1>3, <2>1, <2>2 DEF IInv, MainInv
<1>7. CASE Redirect
  <2>1. UNCHANGED <<call, http, result>> /\ http = "sent"
    BY <1>7 DEF Redirect, callVars
  <2> QED BY <1>1, <1>2, <1>3, <2>1 DEF IInv, MainInv
<1> QED BY <1>4, <1>5, <1>6, <1>7 DEF Network

(* A call that begins has no result but that it had no time. *)
LEMMA Begins ==
    ASSUME NEW c \in Call, Begin(c)
    PROVE  /\ call' = c /\ http' \in {"sent", "done"} /\ result' \in {"none", "Timeout"}
           /\ http' = "sent" => result' = "none"
BY DEF Begin, Finish

LEMMA MainStepInv ==
    ASSUME IInv, Main
    PROVE  IInv'
<1> USE DEF Searching
<1>1. MainInv /\ HttpInv BY DEF IInv
<1>2. "query" \in Call /\ "report" \in Call BY DEF Call
<1>3. ASSUME NEW o, SendReport(o) PROVE HttpInv' /\ http' # "body"
  BY <1>1, <1>2, <1>3, BeginInv, Begins DEF SendReport
<1>4. CASE Start
  <2>1. CASE error' = "LoadSshdConfig" /\ SendReport("failed") /\ UNCHANGED <<done, server>>
    BY <1>1, <1>2, <1>3, <2>1, Begins DEF SendReport, IInv, MainInv
  <2>2. CASE done /\ Exit("SUCCESS") /\ UNCHANGED <<httpVars, error, outcome, done, server>>
    <3>1. HttpInv' BY <1>1, <2>2, HttpStepInv
    <3> QED BY <1>1, <1>4, <2>2, <3>1 DEF Start, Exit, IInv, MainInv, httpVars, callVars
  <2>3. CASE phase' = "query" /\ Begin("query") /\ UNCHANGED <<error, outcome, done, server>>
    <3>1. HttpInv' BY <1>1, <1>2, <2>3, BeginInv
    <3> QED BY <1>1, <1>2, <1>4, <2>3, <3>1, Begins DEF Start, IInv, MainInv
  <2> QED BY <1>4, <2>1, <2>2, <2>3 DEF Start
<1>5. CASE query
  <2>1. HttpInv' BY <1>1, <1>5, HttpStepInv DEF query
  <2> QED BY <1>1, <1>5, <2>1 DEF query, IInv, MainInv, httpVars, callVars
<1>6. CASE get_username
  <2>1. CASE metadata /\ phase' = "provision" /\ UNCHANGED <<httpVars, error, outcome, exitCode>>
    <3>1. HttpInv' BY <1>1, <2>1, HttpStepInv
    <3> QED BY <1>1, <1>6, <2>1, <3>1 DEF get_username, IInv, MainInv, httpVars, callVars
  <2>2. CASE /\ error' \in {"InstanceMetadataFailure", "UsernameFailure"}
             /\ SendReport("failed") /\ UNCHANGED <<done, server>>
    BY <1>1, <1>2, <1>3, <2>2, Begins DEF SendReport, IInv, MainInv
  <2> QED BY <1>6, <2>1, <2>2 DEF get_username
<1>7. CASE provision
  <2>1. CASE done' = TRUE /\ SendReport("ready") /\ UNCHANGED error
    BY <1>1, <1>2, <1>3, <1>7, <2>1, Begins DEF provision, SendReport, IInv, MainInv
  <2>2. CASE error' \in {"UserMissing", "Io"} /\ SendReport("failed") /\ UNCHANGED done
    BY <1>1, <1>2, <1>3, <1>7, <2>2, Begins DEF provision, SendReport, IInv, MainInv
  <2> QED BY <1>7, <2>1, <2>2 DEF provision
<1>8. CASE reported
  <2>1. HttpInv' BY <1>1, <1>8, HttpStepInv DEF reported
  <2>2. exitCode' = "SUCCESS" <=> outcome = "ready"
    BY <1>8 DEF reported, Exit
  <2> QED BY <1>1, <1>8, <2>1, <2>2 DEF reported, Exit, IInv, MainInv, httpVars, callVars
<1> QED BY <1>4, <1>5, <1>6, <1>7, <1>8 DEF Main

(* IInv is inductive. *)
THEOREM InductiveInvariant == Spec => []IInv
<1>1. ASSUME IInv, [Next]_vars PROVE IInv'
  <2>1. CASE Network BY <1>1, <2>1, NetworkInv
  <2>2. CASE Main BY <1>1, <2>2, MainStepInv
  <2>3. CASE Media
    <3>1. HttpInv' BY <1>1, <2>3, HttpStepInv DEF Media, IInv
    <3> QED BY <1>1, <2>3, <3>1 DEF Media, IInv, MainInv, httpVars, callVars, mainVars
  <2>4. CASE Take
    <3>1. HttpInv' BY <1>1, <2>4, HttpStepInv DEF Take, IInv
    <3> QED BY <1>1, <2>4, <3>1 DEF Take, IInv, MainInv, httpVars, callVars, mainVars
  <2>5. CASE UNCHANGED vars
    <3>1. HttpInv' BY <1>1, <2>5, HttpStepInv DEF vars, IInv
    <3> QED BY <1>1, <2>5, <3>1 DEF vars, IInv, MainInv, httpVars, callVars, mainVars
  <2> QED BY <1>1, <2>1, <2>2, <2>3, <2>4, <2>5 DEF Next
<1> QED BY InitInv, <1>1, PTL DEF Spec

(* total_retry_timeout_secs bounds a call, the reading of bodies apart.    *)
THEOREM CallsWithinBudget == Spec => []WithinBudget
<1>1. IInv => WithinBudget BY HttpInvSays DEF IInv
<1> QED BY InductiveInvariant, <1>1, PTL

(* A call does not give up before its time, but for its refused bodies.    *)
THEOREM CallsGiveUpLate == Spec => []GivesUpLate
<1>1. IInv => GivesUpLate BY HttpInvSays DEF IInv
<1> QED BY InductiveInvariant, <1>1, PTL

(* The server is asked once per Interval and once more per refused body.   *)
THEOREM CallsAreLimited == Spec => []RateLimited
<1>1. IInv => RateLimited BY HttpInvSays DEF IInv
<1> QED BY InductiveInvariant, <1>1, PTL

(* The exit code is true of the host, however the report fared, and what   *)
(* _report calls delivered is what the server keeps, if the answer was to  *)
(* the report and not to the request a redirect had made of it.            *)
THEOREM TheOutcomeIsTrue == Spec => []OutcomeIsTrue
<1>1. IInv => ExitCodeIsTrue BY DEF IInv, MainInv, ExitCodeIsTrue
<1>2. IInv => DeliveredStays BY DEF IInv, MainInv, DeliveredStays
<1>3. IInv => OutcomeIsTrue BY <1>1, <1>2 DEF OutcomeIsTrue
<1> QED BY InductiveInvariant, <1>3, PTL

-----------------------------------------------------------------------------
(* The devices. *)

(* The search starts once, when nothing is mounted by the program. *)
SearchInv ==
    /\ MediaInv
    /\ phase \in {"start", "query"} => media = "idle"

LEMMA SearchInit == Init => SearchInv
<1> SUFFICES ASSUME Init PROVE SearchInv OBVIOUS
<1>1. /\ mtab \in Seq({m \in Mount : m.at = "elsewhere"}) /\ mounts = Len(mtab)
      /\ ejected = {} /\ media = "idle" /\ env = NoDevice
  BY MediaAssumption DEF Init, MediaInit
<1>2. /\ mounts \in Nat /\ DOMAIN mtab = 1..mounts
      /\ \A i \in DOMAIN mtab : mtab[i].at = "elsewhere"
  BY <1>1
<1> QED BY <1>1, <1>2 DEF SearchInv, MediaInv, EnvironmentReleased

LEMMA UmountTakesNewest ==
    ASSUME MediaInv, media = "parsed"
    PROVE  TopMount = mounts
<1>1. /\ mounts \in DOMAIN mtab /\ mtab[mounts].at = "media"
      /\ \A j \in DOMAIN mtab : j \in Nat /\ j <= mounts
  BY DEF MediaInv
<1>2. \A i \in DOMAIN mtab :
          (mtab[i].at = "media" /\ \A j \in DOMAIN mtab : mtab[j].at = "media" => j <= i) <=> i = mounts
  BY <1>1
<1> QED BY <1>1, <1>2 DEF TopMount

LEMMA MediaStepInv ==
    ASSUME MediaInv, MediaStep
    PROVE  MediaInv'
<1> USE DEF EnvironmentReleased, mountVars
<1>1. CASE get_mount_device BY <1>1 DEF get_mount_device, MediaInv
<1>2. CASE mount
  <2> DEFINE d == Head(pending)
             n == mounts + 1
  <2>1. CASE UNCHANGED <<mtab, mounts>> /\ Continue
    BY <1>2, <2>1 DEF mount, Continue, MediaInv
  <2>2. CASE /\ d \notin ejected /\ mounts' = n
             /\ mtab' = [i \in DOMAIN mtab \cup {n} |->
                            IF i = n THEN [dev |-> d, at |-> "media"] ELSE mtab[i]]
             /\ media' = "mounted" /\ UNCHANGED env
    <3>0. dev' = d /\ UNCHANGED <<ejected, stuck>> /\ media = "next" BY <1>2 DEF mount
    <3> HIDE DEF d
    <3>1. /\ n \in Nat /\ n \notin DOMAIN mtab /\ DOMAIN mtab' = DOMAIN mtab \cup {n}
          /\ mtab'[n] = [dev |-> d, at |-> "media"]
          /\ \A i \in DOMAIN mtab : mtab'[i] = mtab[i]
      BY <2>2 DEF MediaInv
    <3>2. DOMAIN mtab' \subseteq 1..mounts' BY <2>2, <3>1 DEF MediaInv
    <3>3. EnvironmentReleased' BY <2>2, <3>0, <3>1 DEF MediaInv
    <3>4. \A i \in DOMAIN mtab' : mtab'[i].at = "media" => mtab'[i].dev \in stuck' \/ i = mounts'
      BY <2>2, <3>0, <3>1 DEF MediaInv
    <3> QED BY <2>2, <3>0, <3>1, <3>2, <3>3, <3>4 DEF MediaInv
  <2> QED BY <1>2, <2>1, <2>2 DEF mount
<1>3. CASE read_and_parse BY <1>3 DEF read_and_parse, Continue, MediaInv
<1>4. CASE umount
  <2>1. CASE UNCHANGED mtab /\ Continue /\ stuck' = stuck \cup {dev}
    BY <1>4, <2>1 DEF umount, Continue, MediaInv
  <2>2. CASE /\ mtab' = [i \in DOMAIN mtab \ {TopMount} |-> mtab[i]]
             /\ media' = "umounted" /\ UNCHANGED <<env, stuck>>
    <3>1. media = "parsed" /\ UNCHANGED <<mounts, ejected, dev>> BY <1>4 DEF umount
    <3>2. mtab' = [i \in DOMAIN mtab \ {mounts} |-> mtab[i]]
      BY <2>2, <3>1, UmountTakesNewest
    <3>3. DOMAIN mtab' = DOMAIN mtab \ {mounts} /\ \A i \in DOMAIN mtab' : mtab'[i] = mtab[i]
      BY <3>2
    <3> QED BY <2>2, <3>1, <3>3 DEF MediaInv
  <2> QED BY <1>4, <2>1, <2>2 DEF umount
<1>5. CASE eject
  <2>1. CASE UNCHANGED <<mtab, ejected, env>>
    BY <1>5, <2>1 DEF eject, MediaInv
  <2>2. CASE /\ ejected' = ejected \cup {dev} /\ env' = dev
             /\ mtab' = [i \in {j \in DOMAIN mtab : mtab[j].dev # dev} |-> mtab[i]]
    <3>1. media = "umounted" /\ media' = "next" /\ UNCHANGED <<mounts, dev, stuck>>
      BY <1>5 DEF eject
    <3>2. /\ DOMAIN mtab' = {j \in DOMAIN mtab : mtab[j].dev # dev}
          /\ \A i \in DOMAIN mtab' : mtab'[i] = mtab[i]
      BY <2>2
    <3> QED BY <2>2, <3>1, <3>2 DEF MediaInv
  <2> QED BY <1>5, <2>1, <2>2 DEF eject
<1>6. CASE searched BY <1>6 DEF searched, MediaInv
<1> QED BY <1>1, <1>2, <1>3, <1>4, <1>5, <1>6 DEF MediaStep

LEMMA MediaUntouched ==
    ASSUME MediaInv, UNCHANGED mediaVars
    PROVE  MediaInv'
BY DEF MediaInv, EnvironmentReleased, mediaVars, mountVars

LEMMA SearchStep ==
    ASSUME SearchInv, [Next]_vars
    PROVE  SearchInv'
<1>1. CASE Media
  <2>1. MediaInv' BY <1>1, MediaStepInv DEF Media, SearchInv
  <2>2. media # "idle" /\ phase' = phase
    BY <1>1 DEF Media, MediaStep, get_mount_device, mount, read_and_parse, umount, eject,
                searched, mainVars
  <2> QED BY <2>1, <2>2 DEF SearchInv
<1>2. CASE query
  <2>1. media = "idle" /\ media' = "list" /\ phase' = "media"
        /\ UNCHANGED <<mountVars, dev, env, stuck>>
    BY <1>2 DEF query, SearchInv
  <2> QED BY <2>1 DEF SearchInv, MediaInv, EnvironmentReleased, mountVars
<1>3. CASE Start \/ get_username \/ provision \/ reported \/ Network \/ Take \/ UNCHANGED vars
  <2>1. UNCHANGED mediaVars
    BY <1>3 DEF Start, get_username, provision, reported, Network, Take, vars
  <2>2. phase' \in {"start", "query"} => phase \in {"start", "query"}
    BY <1>3 DEF Start, get_username, provision, reported, Network, Take, vars, SendReport, Exit,
                mainVars
  <2> QED BY <2>1, <2>2, MediaUntouched DEF SearchInv, mediaVars
<1> QED BY <1>1, <1>2, <1>3 DEF Next, Main

(* No device is left mounted but by an error of its own, the one umounted  *)
(* is the one that was parsed, and the one whose environment is used is    *)
(* ejected and mounted nowhere, for any devices, contents and mounts that  *)
(* were there before.                                                      *)
THEOREM DevicesAreReleased == Spec => []MountsReleased
<1>1. SearchInv => MountsReleased
  BY DEF SearchInv, MediaInv, MountsReleased, OnlyStuckStayMounted
<1> QED BY SearchInit, SearchStep, <1>1, PTL DEF Spec
=============================================================================
