----------------------------- MODULE Acquisition -----------------------------
(***************************************************************************)
(* One run of azure-init seen from the network and the devices: main asks  *)
(* IMDS (HttpRetry), searches the devices for an OVF environment           *)
(* (OvfMedia), chooses the user name, provisions, and reports to the       *)
(* wireserver (HttpRetry again), then exits.  Provisioning refines the     *)
(* step that is one here and takes as one step what is many here.          *)
(***************************************************************************)
EXTENDS HttpRetry, OvfMedia

VARIABLES
    phase,     \* of main
    metadata,  \* IMDS answered
    username,  \* where it comes from
    error,
    outcome,   \* the report: "none", "ready", "failed"
    server,    \* the last report the wireserver took from this VM
    exitCode,
    done       \* the host is provisioned

mainVars == <<phase, metadata, username, error, outcome, exitCode, done>>
vars == <<httpVars, mediaVars, mainVars, server>>

Report == {"none", "ready", "failed"}

Init ==
    /\ HttpInit /\ MediaInit
    /\ phase = "start" /\ metadata = FALSE /\ username = "none" /\ error = "none"
    /\ outcome = "none" /\ exitCode = "none" /\ done \in BOOLEAN
    /\ server \in Report

-----------------------------------------------------------------------------
Exit(code) == phase' = "exit" /\ exitCode' = code

(* report_ready and report_failure. *)
SendReport(o) ==
    /\ outcome' = o /\ phase' = "report" /\ Begin("report")
    /\ UNCHANGED <<exitCode>>

(* main: without a configuration a failure is reported, where the marker   *)
(* exists there is nothing to do; else provision asks IMDS.                *)
Start ==
    /\ phase = "start"
    /\ \/ /\ error' = "LoadSshdConfig" /\ SendReport("failed")
          /\ UNCHANGED <<mediaVars, metadata, username, done>>
       \/ /\ done /\ Exit("SUCCESS")
          /\ UNCHANGED <<httpVars, mediaVars, metadata, username, error, outcome, done>>
       \/ /\ ~done /\ phase' = "query" /\ Begin("query")
          /\ UNCHANGED <<mediaVars, metadata, username, error, outcome, exitCode, done>>
    /\ UNCHANGED server

(* The error of query is dropped. *)
query ==
    /\ phase = "query" /\ http = "done"
    /\ metadata' = (result = "Ok")
    /\ phase' = "media" /\ media' = "list"
    /\ UNCHANGED <<httpVars, mountVars, pending, dev, env, stuck,
                   username, error, outcome, exitCode, done, server>>

(* get_username, and the metadata it takes beside the name. *)
get_username ==
    /\ phase = "media" /\ media = "over"
    /\ \/ /\ metadata /\ username' = "imds" /\ phase' = "provision"
          /\ UNCHANGED <<httpVars, error, outcome, exitCode>>
       \/ /\ ~metadata /\ env # NoDevice
          /\ username' = "ovf" /\ error' = "InstanceMetadataFailure" /\ SendReport("failed")
       \/ /\ ~metadata /\ env = NoDevice
          /\ error' = "UsernameFailure" /\ SendReport("failed") /\ UNCHANGED username
    /\ UNCHANGED <<mediaVars, metadata, done, server>>

(* Provision::provision and mark_provisioning_complete. *)
provision ==
    /\ phase = "provision"
    /\ \/ done' = TRUE /\ SendReport("ready") /\ UNCHANGED error
       \/ /\ error' \in {"UserMissing", "Io"} /\ SendReport("failed") /\ UNCHANGED done
    /\ UNCHANGED <<mediaVars, metadata, username, server>>

(* The wireserver takes a POST, perhaps one that was given up. *)
Take ==
    /\ posted /\ server' = outcome
    /\ UNCHANGED <<httpVars, mediaVars, mainVars>>

(* A report that fails is only warned of; the exit code is that of the run.*)
reported ==
    /\ phase = "report" /\ http = "done"
    /\ Exit(IF outcome = "ready" THEN "SUCCESS"
            ELSE IF error \in {"UserMissing", "NonEmptyPassword"} THEN "CONFIG" ELSE "FAILURE")
    /\ UNCHANGED <<httpVars, mediaVars, metadata, username, error, outcome, done, server>>

(* A good status for the report itself comes from a wireserver that has    *)
(* taken it.  Where a redirect led, another server or a GET answers, and   *)
(* its 2xx says nothing of the report.                                     *)
AnswerComes(s) ==
    /\ phase = "report" /\ s = "2xx" /\ route = "direct" => server = outcome
    /\ Answer(s)

Network ==
    /\ ClientStep \/ Redirect \/ GoodBody \/ \E s \in Status : AnswerComes(s)
    /\ UNCHANGED <<mediaVars, mainVars, server>>

Media == MediaStep /\ UNCHANGED <<httpVars, mainVars, server>>

Main == Start \/ query \/ get_username \/ provision \/ reported

Next == Network \/ Media \/ Main \/ Take

Spec == Init /\ [][Next]_vars

(* The program goes on and time passes; no server has to answer. *)
Fairness ==
    /\ WF_vars(Main) /\ WF_vars(Media)
    /\ WF_vars(ClientStep /\ UNCHANGED <<mediaVars, mainVars, server>>)

FairSpec == Spec /\ Fairness

-----------------------------------------------------------------------------
(* Properties *)

(* The exit code tells whether the host is provisioned, also when the      *)
(* report is lost, the time for it is zero or the server refuses it.       *)
ExitCodeIsTrue ==
    phase = "exit" => (exitCode = "SUCCESS" <=> done /\ error = "none")

(* A report that _report calls delivered, on an answer to the report and   *)
(* not to what a redirect made of it, is what the server has, after        *)
(* attempts that were given up and answers that were lost or no success.   *)
(* Where a redirect was followed, delivered need not mean taken.           *)
DeliveredStays ==
    phase = "exit" /\ outcome # "none" /\ result = "Ok" /\ route = "direct" => server = outcome

(* What a run leaves behind is what happened: its exit code, and what a     *)
(* report it counts as delivered says to the platform (main, _report).     *)
OutcomeIsTrue == ExitCodeIsTrue /\ DeliveredStays

(* However servers and devices behave, the run comes to its end. *)
Exits == <>(phase = "exit")
=============================================================================
