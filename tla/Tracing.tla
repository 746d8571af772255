------------------------------ MODULE Tracing ------------------------------
(***************************************************************************)
(* DiagnosticsKvp, the layer that turns tracing's spans and events into    *)
(* diagnostics (src/tracing_layer.rs), driven by any program: spans open   *)
(* inside each other, are entered and exited by several threads in any     *)
(* order, record fields, see events, are dropped in any order and by       *)
(* threads that unwind, while writes to the pool fail.                     *)
(***************************************************************************)
EXTENDS Naturals, Sequences, FiniteSets, SequencesExt

CONSTANTS
    Span,       \* span ids; a span's event_id is its own
    NoSpan,
    Hidden,     \* spans the filter of the layer hides and other layers see
    Thread,
    MaxEvents,  \* bound: events in a run
    MaxSaid,    \* bound: times diagnostic.result is given in a run
    MaxDepth    \* bound: spans a thread is in at once

ASSUME SpanAssumption ==
    /\ NoSpan \notin Span /\ Hidden \subseteq Span
    /\ MaxEvents \in Nat /\ MaxSaid \in Nat /\ MaxDepth \in Nat

(* What a record of diagnostic.result can say. *)
Said == {"nothing", "success", "fail", "other"}

VARIABLES
    phase,    \* of each span: "none", "open", "closed"
    parent,
    held,     \* the program holds a handle on the span
    entered,  \* of each thread: the spans it has entered, oldest first
    state,    \* SpanState in the span's extensions: [fields, saw_error], or NoState
    emitted,  \* calls of the writer: [kind, span, result]
    given,    \* times diagnostic.result was given so far
    events,   \* events so far
    \* history
    override, \* the last diagnostic.result each span was given
    errors,   \* for each ERROR event the spans around it, oldest first
    unwound   \* spans that closed on a thread that was unwinding

history == <<override, errors, unwound>>
vars == <<phase, parent, held, entered, state, emitted, given, events, history>>

NoState == [fields |-> "nothing", saw_error |-> FALSE, present |-> FALSE]

Init ==
    /\ phase = [s \in Span |-> "none"]
    /\ parent = [s \in Span |-> NoSpan]
    /\ held = [s \in Span |-> FALSE]
    /\ entered = [t \in Thread |-> <<>>]
    /\ state = [s \in Span |-> NoState]
    /\ emitted = <<>> /\ given = 0 /\ events = 0
    /\ override = [s \in Span |-> "nothing"] /\ errors = {} /\ unwound = {}

(* emit_start, emit_event and emit_finish: Diagnostics has what they write. *)
(* An error of theirs is printed and changes nothing here.                 *)
emit(kind, s, result) ==
    emitted' = Append(emitted, [kind |-> kind, span |-> s, result |-> result])

(* Fields::outcome: "none" if there is no override, "invalid" for an error. *)
outcome(said) ==
    CASE said = "nothing" -> "none"
      [] said = "success" -> "ok"
      [] said = "fail" -> "error"
      [] OTHER -> "invalid"

Gives(said) ==
    IF said = "nothing" THEN UNCHANGED given ELSE given < MaxSaid /\ given' = given + 1
Says(s, said) ==
    /\ Gives(said)
    /\ override' = [override EXCEPT ![s] = IF said = "nothing" THEN @ ELSE said]

(***************************************************************************)
(* Callbacks of the layer                                                  *)
(***************************************************************************)
on_new_span(s, said) ==
    IF s \in Hidden THEN UNCHANGED <<state, emitted>>
    ELSE /\ state' = [state EXCEPT ![s] = [fields |-> said, saw_error |-> FALSE, present |-> TRUE]]
         /\ emit("start", s, "none")

(* A field recorded again replaces the former value. *)
on_record(s, said) ==
    state' = [state EXCEPT ![s].fields = IF said = "nothing" \/ ~state[s].present THEN @ ELSE said]

(* Mutation: an event with a bad outcome is dropped before it is looked at. *)
on_event_DropFirst(s, level, said) ==
    IF outcome(said) = "invalid" THEN UNCHANGED <<state, emitted>>
    ELSE /\ state' = IF level = "ERROR" /\ s # NoSpan
                     THEN [state EXCEPT ![s].saw_error = TRUE] ELSE state
         /\ emit("event", s, outcome(said))

on_event(s, level, said) ==
    /\ state' = IF level = "ERROR" /\ s # NoSpan
                THEN [state EXCEPT ![s].saw_error = TRUE] ELSE state
    /\ IF outcome(said) = "invalid" THEN UNCHANGED emitted
       ELSE emit("event", s, outcome(said))

finish_result(s, panicking) ==
    IF panicking THEN "error"
    ELSE IF outcome(state[s].fields) # "none" THEN outcome(state[s].fields)
    ELSE IF state[s].saw_error THEN "error" ELSE "ok"

on_close(s, panicking) ==
    /\ state' = [state EXCEPT ![s] = NoState]
    /\ IF ~state[s].present \/ finish_result(s, panicking) = "invalid" THEN UNCHANGED emitted
       ELSE emit("finish", s, finish_result(s, panicking))

(***************************************************************************)
(* The program and tracing's registry                                      *)
(***************************************************************************)
(* Context::event_span looks through the spans around the event for the    *)
(* newest that the layer sees: those of the thread's stack, or the one     *)
(* that the event names as its parent, or none.                            *)
event_span(around) ==
    LET seen == {i \in DOMAIN around : around[i] \notin Hidden}
    IN  IF seen = {} THEN NoSpan ELSE around[Max(seen)]

(* A new span is in the newest span of its thread, or in one it names; the *)
(* program holds both.                                                     *)
NewSpan(s, p, said) ==
    /\ phase[s] = "none" /\ p \in {x \in Span : held[x]} \cup {NoSpan}
    /\ phase' = [phase EXCEPT ![s] = "open"]
    /\ parent' = [parent EXCEPT ![s] = p]
    /\ held' = [held EXCEPT ![s] = TRUE]
    /\ on_new_span(s, said)
    /\ Says(s, said)
    /\ UNCHANGED <<entered, events, errors, unwound>>

(* To enter a span again that one is in changes nothing in the stack. *)
Enter(t, s) ==
    /\ held[s] /\ s \notin ToSet(entered[t]) /\ Len(entered[t]) < MaxDepth
    /\ entered' = [entered EXCEPT ![t] = Append(@, s)]
    /\ UNCHANGED <<phase, parent, held, state, emitted, given, events, history>>

(* Spans are exited in any order. *)
Exit(t, i) ==
    /\ i \in DOMAIN entered[t]
    /\ entered' = [entered EXCEPT ![t] = RemoveAt(@, i)]
    /\ UNCHANGED <<phase, parent, held, state, emitted, given, events, history>>

RecordField(s, said) ==
    /\ held[s]
    /\ on_record(s, said)
    /\ Says(s, said)
    /\ UNCHANGED <<phase, parent, held, entered, emitted, events, errors, unwound>>

Event(around, level, said) ==
    /\ events < MaxEvents /\ events' = events + 1
    /\ on_event(event_span(around), level, said)
    /\ errors' = IF level = "ERROR" THEN errors \cup {around} ELSE errors
    /\ Gives(said)
    /\ UNCHANGED <<phase, parent, held, entered, override, unwound>>

(* An event on a thread, one with a parent of its own, and one with none.  *)
EventOn(t, level, said)     == Event(entered[t], level, said)
EventWithin(s, level, said) == held[s] /\ Event(<<s>>, level, said)
RootEvent(level, said)      == Event(<<>>, level, said)

(* A thread that is in a span has borrowed a handle on it. *)
Drop(s) ==
    /\ held[s] /\ \A t \in Thread : s \notin ToSet(entered[t])
    /\ held' = [held EXCEPT ![s] = FALSE]
    /\ UNCHANGED <<phase, parent, entered, state, emitted, given, events, history>>

(* Mutation: a span closes with its handle. *)
Unreferenced_Handle(s) == ~held[s]

(* A span closes when the last handle and the last child are gone. *)
Unreferenced(s) ==
    /\ ~held[s]
    /\ \A c \in Span : parent[c] = s => phase[c] # "open"

(* On the thread that drops the last reference, which may be unwinding. *)
Close(s, panicking) ==
    /\ phase[s] = "open" /\ Unreferenced(s)
    /\ phase' = [phase EXCEPT ![s] = "closed"]
    /\ on_close(s, panicking)
    /\ unwound' = IF panicking THEN unwound \cup {s} ELSE unwound
    /\ UNCHANGED <<parent, held, entered, given, events, override, errors>>

Next ==
    \/ \E s \in Span, p \in Span \cup {NoSpan}, said \in Said : NewSpan(s, p, said)
    \/ \E s \in Span, said \in Said \ {"nothing"} : RecordField(s, said)
    \/ \E t \in Thread, s \in Span : Enter(t, s)
    \/ \E t \in Thread : \E i \in DOMAIN entered[t] : Exit(t, i)
    \/ \E level \in {"INFO", "ERROR"}, said \in Said :
            \/ \E t \in Thread : EventOn(t, level, said)
            \/ \E s \in Span : EventWithin(s, level, said)
            \/ RootEvent(level, said)
    \/ \E s \in Span : Drop(s)
    \/ \E s \in Span, panicking \in BOOLEAN : Close(s, panicking)

Spec == Init /\ [][Next]_vars

-----------------------------------------------------------------------------
Finish(i, s) == emitted[i].kind = "finish" /\ emitted[i].span = s
Started(i, s) == emitted[i].kind = "start" /\ emitted[i].span = s

(* "A span's start and finish share a UUID" (tracing_layer.rs): a finish     *)
(* comes once, behind its start, and behind the finishes of the spans       *)
(* inside it.                                                              *)
Paired ==
    \A s \in Span, i \in DOMAIN emitted : Finish(i, s) =>
        /\ \A j \in DOMAIN emitted : Finish(j, s) => i = j
        /\ \E j \in 1..(i - 1) : Started(j, s)
        /\ \A c \in Span, j \in DOMAIN emitted : Finish(j, c) /\ parent[c] = s => j < i

(* The layer is in a position to see that an ERROR is one of s: s is seen, *)
(* is around it, and the spans entered after s are hidden.                 *)
SawError(s) ==
    /\ s \notin Hidden
    /\ \E around \in errors : \E i \in DOMAIN around :
            around[i] = s /\ \A j \in DOMAIN around : j > i => around[j] \in Hidden

(* "an observed ERROR implies failure and no observed ERROR implies         *)
(* success.  Unwinding implies failure regardless of an override"           *)
(* (tracing_layer.rs): also when the event itself was dropped, was in a     *)
(* hidden span entered within s, or came before or after the override.  An  *)
(* ERROR of a hidden span that names it as its parent, or was entered on a  *)
(* thread that is not in s, is none of s, even if s is its parent           *)
(* ("Filtering [...] can hide failures").                                   *)
FinishIsOutcome ==
    \A s \in Span, i \in DOMAIN emitted : Finish(i, s) =>
        emitted[i].result =
            IF s \in unwound THEN "error"
            ELSE CASE override[s] = "success" -> "ok"
                   [] override[s] = "fail" -> "error"
                   [] OTHER -> IF SawError(s) THEN "error" ELSE "ok"

(* "Invalid explicit outcomes drop the event or finish", and nothing else    *)
(* does: every span that is seen has its start, and when it is closed its    *)
(* finish, unless its outcome is invalid and it did not unwind.             *)
Accounted ==
    \A s \in Span \ Hidden :
        /\ phase[s] # "none" => \E i \in DOMAIN emitted : Started(i, s)
        /\ phase[s] = "closed" =>
              (~\E i \in DOMAIN emitted : Finish(i, s)) <=> (override[s] = "other" /\ s \notin unwound)

(* Starts and finishes pair up, and none of them is missing or left over.    *)
StartsAndFinishes == Paired /\ Accounted
=============================================================================
