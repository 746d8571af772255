--------------------------- MODULE TracingProofs ---------------------------
(***************************************************************************)
(* Proofs about Tracing for any spans, hidden or not, any program and any  *)
(* number of events: starts and finishes pair up, nothing but an invalid    *)
(* outcome costs a span its finish, and a finish tells the outcome.        *)
(***************************************************************************)
EXTENDS Tracing, TLAPS, WellFoundedInduction

(* Where the starts and the finishes of a span are among the emissions. *)
Fin(s) == {i \in DOMAIN emitted : Finish(i, s)}
Sta(s) == {i \in DOMAIN emitted : Started(i, s)}

IsSeq(seq) == \E S : seq \in Seq(S)

State == [fields : Said, saw_error : BOOLEAN, present : BOOLEAN]

(* The types the argument needs. *)
Typed ==
    /\ phase \in [Span -> {"none", "open", "closed"}]
    /\ parent \in [Span -> Span \cup {NoSpan}]
    /\ held \in [Span -> BOOLEAN]
    /\ entered \in [Thread -> Seq(Span)]
    /\ state \in [Span -> State]
    /\ override \in [Span -> Said]
    /\ IsSeq(emitted)

(* A thread that is in a span has a handle on it. *)
EnteredAreHeld == \A t \in Thread : \A i \in DOMAIN entered[t] : held[entered[t][i]]

(* What the registry guarantees of spans: a handle or an open child keeps  *)
(* a span open, and nothing is known of a span that is not there yet.      *)
Registry ==
    /\ \A s \in Span : phase[s] = "none" => parent[s] = NoSpan /\ override[s] = "nothing"
    /\ \A s \in Span : held[s] => phase[s] = "open"
    /\ \A s \in Span : phase[s] = "open" /\ parent[s] # NoSpan => phase[parent[s]] = "open"
    /\ \A s \in Span : parent[s] # s
    /\ \A s \in unwound : phase[s] = "closed"
    /\ EnteredAreHeld

(* The layer's state of a span stands for what the span was given. *)
Layer ==
    \A s \in Span :
        /\ state[s].present <=> (phase[s] = "open" /\ s \notin Hidden)
        /\ state[s].present => state[s].fields = override[s]

Emissions ==
    /\ \A s \in Span : phase[s] # "none" /\ s \notin Hidden => Sta(s) # {}
    /\ \A s \in Span : Fin(s) # {} => phase[s] = "closed" /\ s \notin Hidden
    /\ \A s \in Span : phase[s] = "closed" /\ s \notin Hidden =>
            (Fin(s) = {} <=> override[s] = "other" /\ s \notin unwound)
    /\ \A s \in Span : \A i \in Fin(s) :
            /\ \A j \in Fin(s) : i = j
            /\ \E j \in Sta(s) : j < i
            /\ \A c \in Span : parent[c] = s => \A j \in Fin(c) : j < i

IInv == Typed /\ Registry /\ Layer /\ Emissions

LEMMA Means == IInv => Paired /\ Accounted
<1> SUFFICES ASSUME IInv PROVE Paired /\ Accounted OBVIOUS
<1>1. PICK S : emitted \in Seq(S) BY DEF IInv, Typed, IsSeq
<1>2. DOMAIN emitted = 1..Len(emitted) /\ Len(emitted) \in Nat BY <1>1
<1>3. Paired
  <2> SUFFICES ASSUME NEW s \in Span, NEW i \in DOMAIN emitted, Finish(i, s)
               PROVE  /\ \A j \in DOMAIN emitted : Finish(j, s) => i = j
                      /\ \E j \in 1..(i - 1) : Started(j, s)
                      /\ \A c \in Span, j \in DOMAIN emitted :
                              Finish(j, c) /\ parent[c] = s => j < i
    BY DEF Paired
  <2>1. i \in Fin(s) BY DEF Fin
  <2>2. /\ \A j \in Fin(s) : i = j
        /\ \E j \in Sta(s) : j < i
        /\ \A c \in Span : parent[c] = s => \A j \in Fin(c) : j < i
    BY <2>1 DEF IInv, Emissions
  <2>3. PICK k \in Sta(s) : k < i BY <2>2
  <2>4. k \in 1..(i - 1) /\ Started(k, s) BY <1>2, <2>3 DEF Sta
  <2> QED BY <2>2, <2>4 DEF Fin
<1>4. Accounted BY DEF IInv, Emissions, Accounted, Fin, Sta
<1> QED BY <1>3, <1>4

LEMMA InitInv == Init => IInv
<1> SUFFICES ASSUME Init PROVE IInv OBVIOUS
<1>1. emitted = <<>> /\ emitted \in Seq({}) /\ DOMAIN emitted = {}
  BY DEF Init
<1>2. Typed
  <2>1. IsSeq(emitted) BY <1>1 DEF IsSeq
  <2>2. NoState \in State /\ ~NoState.present BY DEF NoState, State, Said
  <2> QED BY <2>1, <2>2 DEF Init, Typed, Said
<1>3. \A s : Fin(s) = {} /\ Sta(s) = {} BY <1>1 DEF Fin, Sta
<1>4. Registry
  <2>1. EnteredAreHeld BY DEF Init, EnteredAreHeld
  <2> QED BY <2>1, SpanAssumption DEF Init, Registry
<1>5. Layer BY DEF Init, Layer, NoState
<1>6. Emissions BY <1>3 DEF Init, Emissions
<1> QED BY <1>2, <1>4, <1>5, <1>6 DEF IInv

-----------------------------------------------------------------------------
(* What an emission adds. *)

LEMMA AppendAt ==
    ASSUME NEW S, NEW seq \in Seq(S), NEW e
    PROVE  /\ Append(seq, e) \in Seq(S \cup {e}) /\ DOMAIN seq = 1..Len(seq) /\ Len(seq) \in Nat
           /\ DOMAIN Append(seq, e) = 1..(Len(seq) + 1)
           /\ \A i \in 1..Len(seq) : Append(seq, e)[i] = seq[i]
           /\ Append(seq, e)[Len(seq) + 1] = e
<1>1. seq \in Seq(S \cup {e}) /\ e \in S \cup {e} OBVIOUS
<1> QED BY <1>1

LEMMA EmitAdds ==
    ASSUME IsSeq(emitted), NEW k, NEW x, NEW r, emit(k, x, r)
    PROVE  /\ IsSeq(emitted') /\ Len(emitted) + 1 \in Nat
           /\ \A s : /\ Fin(s)' = IF k = "finish" /\ s = x
                                  THEN Fin(s) \cup {Len(emitted) + 1} ELSE Fin(s)
                     /\ Sta(s)' = IF k = "start" /\ s = x
                                  THEN Sta(s) \cup {Len(emitted) + 1} ELSE Sta(s)
                     /\ \A i \in Fin(s) \cup Sta(s) : i \in Nat /\ i < Len(emitted) + 1
<1> DEFINE e == [kind |-> k, span |-> x, result |-> r]
<1> DEFINE n == Len(emitted)
<1>1. PICK S : emitted \in Seq(S) BY DEF IsSeq
<1>2. /\ emitted' \in Seq(S \cup {e}) /\ DOMAIN emitted = 1..n /\ n \in Nat
      /\ DOMAIN emitted' = 1..(n + 1) /\ \A i \in 1..n : emitted'[i] = emitted[i]
      /\ emitted'[n + 1] = e
  BY <1>1, AppendAt DEF emit
<1>3. e.kind = k /\ e.span = x OBVIOUS
<1> HIDE DEF e, n
<1>4. ASSUME NEW s
      PROVE  /\ Fin(s)' = IF k = "finish" /\ s = x THEN Fin(s) \cup {n + 1} ELSE Fin(s)
             /\ Sta(s)' = IF k = "start" /\ s = x THEN Sta(s) \cup {n + 1} ELSE Sta(s)
             /\ \A i \in Fin(s) \cup Sta(s) : i \in Nat /\ i < n + 1
  <2>1. 1..(n + 1) = (1..n) \cup {n + 1} BY <1>2
  <2>2. Fin(s)' = {i \in 1..(n + 1) : emitted'[i].kind = "finish" /\ emitted'[i].span = s}
    BY <1>2 DEF Fin, Finish
  <2>3. Fin(s) = {i \in 1..n : emitted[i].kind = "finish" /\ emitted[i].span = s}
    BY <1>2 DEF Fin, Finish
  <2>4. Sta(s)' = {i \in 1..(n + 1) : emitted'[i].kind = "start" /\ emitted'[i].span = s}
    BY <1>2 DEF Sta, Started
  <2>5. Sta(s) = {i \in 1..n : emitted[i].kind = "start" /\ emitted[i].span = s}
    BY <1>2 DEF Sta, Started
  <2>6. Fin(s)' = IF k = "finish" /\ s = x THEN Fin(s) \cup {n + 1} ELSE Fin(s)
    BY <1>2, <1>3, <2>1, <2>2, <2>3
  <2>7. Sta(s)' = IF k = "start" /\ s = x THEN Sta(s) \cup {n + 1} ELSE Sta(s)
    BY <1>2, <1>3, <2>1, <2>4, <2>5
  <2>8. \A i \in Fin(s) \cup Sta(s) : i \in Nat /\ i < n + 1
    BY <1>2, <2>3, <2>5
  <2> QED BY <2>6, <2>7, <2>8
<1>5. IsSeq(emitted') BY <1>2 DEF IsSeq
<1> QED BY <1>2, <1>4, <1>5 DEF n

LEMMA NothingEmitted ==
    ASSUME IsSeq(emitted), UNCHANGED emitted
    PROVE  IsSeq(emitted') /\ \A s : Fin(s)' = Fin(s) /\ Sta(s)' = Sta(s)
BY DEF Fin, Sta, Finish, Started

(* While the spans stay and nothing starts or finishes, IInv stays. *)
LEMMA QuietInv ==
    ASSUME IInv, Layer', Typed', UNCHANGED <<phase, parent, unwound>>,
           \A s : Fin(s)' = Fin(s) /\ Sta(s)' = Sta(s),
           \A s \in Span : held'[s] => held[s], EnteredAreHeld',
           \A s \in Span : override'[s] = override[s] \/ phase[s] = "open"
    PROVE  IInv'
<1>1. Registry' BY DEF IInv, Registry, Typed
<1>2. Emissions' BY DEF IInv, Emissions, Typed
<1> QED BY <1>1, <1>2 DEF IInv

-----------------------------------------------------------------------------
(* The program's steps. *)

(* The records of SpanState change by field. *)
LEMMA StateFields ==
    ASSUME state \in [Span -> State]
    PROVE  /\ \A s \in Span, f \in Said :
                LET st == [state EXCEPT ![s].fields = f] IN
                /\ st \in [Span -> State]
                /\ \A t \in Span : /\ st[t].present = state[t].present
                                   /\ st[t].fields = IF t = s THEN f ELSE state[t].fields
           /\ \A s : LET st == [state EXCEPT ![s].saw_error = TRUE] IN
                /\ st \in [Span -> State]
                /\ \A t \in Span : /\ st[t].present = state[t].present
                                   /\ st[t].fields = state[t].fields
BY DEF State

LEMMA RecordInv ==
    ASSUME IInv, NEW s \in Span, NEW said \in Said, RecordField(s, said)
    PROVE  IInv'
<1> DEFINE f == IF said = "nothing" \/ ~state[s].present THEN state[s].fields ELSE said
<1>1. Typed /\ Layer /\ Registry BY DEF IInv
<1>2. UNCHANGED <<phase, parent, held, entered, emitted, unwound>> /\ phase[s] = "open"
  BY <1>1 DEF RecordField, Registry
<1>3. f \in Said BY <1>1 DEF Typed, State
<1>4. state' = [state EXCEPT ![s].fields = f]
  BY DEF RecordField, on_record
<1>5. override' = [override EXCEPT ![s] = IF said = "nothing" THEN @ ELSE said]
  BY DEF RecordField, Says
<1>6. /\ state' \in [Span -> State]
      /\ \A t \in Span : /\ state'[t].present = state[t].present
                         /\ state'[t].fields = IF t = s THEN f ELSE state[t].fields
  BY <1>1, <1>3, <1>4, StateFields DEF Typed
<1>7. Typed' BY <1>1, <1>2, <1>5, <1>6 DEF Typed
<1>8. Layer' BY <1>1, <1>2, <1>5, <1>6 DEF Typed, Layer
<1>9. \A x : Fin(x)' = Fin(x) /\ Sta(x)' = Sta(x)
  BY <1>1, <1>2, NothingEmitted DEF Typed
<1>10. \A t \in Span : override'[t] = override[t] \/ phase[t] = "open"
  BY <1>1, <1>2, <1>5 DEF Typed
<1>11. EnteredAreHeld' BY <1>1, <1>2 DEF Registry, EnteredAreHeld
<1> QED BY <1>2, <1>7, <1>8, <1>9, <1>10, <1>11, QuietInv

LEMMA EventInv ==
    ASSUME IInv, NEW around, NEW level, NEW said \in Said, Event(around, level, said)
    PROVE  IInv'
<1> DEFINE a == event_span(around)
<1>1. Typed /\ Layer /\ Registry BY DEF IInv
<1>2. UNCHANGED <<phase, parent, held, entered, override, unwound>> BY DEF Event
<1>3. on_event(a, level, said) BY DEF Event
<1> HIDE DEF a
<1>4. state' = state \/ state' = [state EXCEPT ![a].saw_error = TRUE]
  BY <1>3 DEF on_event
<1>5. /\ state' \in [Span -> State]
      /\ \A t \in Span : state'[t].present = state[t].present /\ state'[t].fields = state[t].fields
  <2>1. state \in [Span -> State] BY <1>1 DEF Typed
  <2>2. CASE state' = state BY <2>1, <2>2
  <2>3. CASE state' = [state EXCEPT ![a].saw_error = TRUE] BY <2>1, <2>3, StateFields
  <2> QED BY <1>4, <2>2, <2>3
<1>6. UNCHANGED emitted \/ emit("event", a, outcome(said))
  BY <1>3 DEF on_event
<1>7. IsSeq(emitted') /\ \A x : Fin(x)' = Fin(x) /\ Sta(x)' = Sta(x)
  <2>1. IsSeq(emitted) BY <1>1 DEF Typed
  <2>2. CASE UNCHANGED emitted BY <2>1, <2>2, NothingEmitted
  <2>3. CASE emit("event", a, outcome(said))
    BY <2>1, <2>3, EmitAdds, "event" # "finish", "event" # "start"
  <2> QED BY <1>6, <2>2, <2>3
<1>8. Typed' BY <1>1, <1>2, <1>5, <1>7 DEF Typed
<1>9. Layer' BY <1>1, <1>2, <1>5 DEF Layer
<1>10. EnteredAreHeld' BY <1>1, <1>2 DEF Registry, EnteredAreHeld
<1> QED BY <1>2, <1>7, <1>8, <1>9, <1>10, QuietInv

(* What is left of a stack was there. *)
LEMMA Removed ==
    ASSUME NEW S, NEW seq \in Seq(S), NEW i \in DOMAIN seq
    PROVE  /\ RemoveAt(seq, i) \in Seq(S)
           /\ \A j \in DOMAIN RemoveAt(seq, i) : \E k \in DOMAIN seq : RemoveAt(seq, i)[j] = seq[k]
<1> DEFINE front == SubSeq(seq, 1, i - 1)
           back == SubSeq(seq, i + 1, Len(seq))
<1>1. front \in Seq(S) /\ Len(front) = i - 1 /\ \A j \in 1..(i - 1) : front[j] = seq[j]
  OBVIOUS
<1>2. back \in Seq(S) /\ Len(back) = Len(seq) - i
      /\ \A j \in 1..(Len(seq) - i) : back[j] = seq[i + j]
  OBVIOUS
<1>3. RemoveAt(seq, i) = front \o back BY DEF RemoveAt
<1>4. i \in 1..Len(seq) /\ Len(seq) \in Nat OBVIOUS
<1> HIDE DEF front, back
<1>5. front \o back \in Seq(S) /\ Len(front \o back) = Len(seq) - 1
  BY <1>1, <1>2, <1>4
<1>6. ASSUME NEW j \in 1..(Len(seq) - 1) PROVE \E k \in DOMAIN seq : (front \o back)[j] = seq[k]
  <2>1. CASE j <= i - 1
    <3>1. (front \o back)[j] = seq[j] BY <1>1, <1>2, <1>4, <2>1
    <3> QED BY <1>4, <3>1
  <2>2. CASE j > i - 1
    <3>1. (front \o back)[j] = back[j - (i - 1)] BY <1>1, <1>2, <1>4, <2>2
    <3>2. j - (i - 1) \in 1..(Len(seq) - i) /\ i + (j - (i - 1)) = j + 1 BY <1>4, <2>2
    <3>3. j + 1 \in DOMAIN seq BY <1>4
    <3> QED BY <1>2, <3>1, <3>2, <3>3
  <2>3. j <= i - 1 \/ j > i - 1 BY <1>4
  <2> QED BY <2>1, <2>2, <2>3, Zenon
<1>7. DOMAIN (front \o back) = 1..(Len(seq) - 1) BY <1>5
<1>8. \A j \in DOMAIN (front \o back) : \E k \in DOMAIN seq : (front \o back)[j] = seq[k]
  BY <1>6, <1>7
<1> QED BY <1>3, <1>5, <1>8

(* Handles and stacks: the layer sees nothing of them. *)
LEMMA HandlesInv ==
    ASSUME IInv, UNCHANGED <<phase, parent, state, emitted, override, unwound>>,
           held' \in [Span -> BOOLEAN], entered' \in [Thread -> Seq(Span)],
           \A s \in Span : held'[s] => held[s], EnteredAreHeld'
    PROVE  IInv'
<1>1. Typed /\ Layer BY DEF IInv
<1>2. \A x : Fin(x)' = Fin(x) /\ Sta(x)' = Sta(x)
  BY <1>1, NothingEmitted DEF Typed
<1>3. Typed' BY <1>1 DEF Typed
<1>4. Layer' BY <1>1 DEF Layer
<1> QED BY <1>2, <1>3, <1>4, QuietInv

LEMMA EnterInv ==
    ASSUME IInv, NEW t \in Thread, NEW s \in Span, Enter(t, s)
    PROVE  IInv'
<1>1. Typed /\ EnteredAreHeld BY DEF IInv, Registry
<1>2. /\ UNCHANGED <<phase, parent, held, state, emitted, override, unwound>> /\ held[s]
      /\ entered' = [entered EXCEPT ![t] = Append(entered[t], s)]
  BY DEF Enter, history
<1>3. entered[t] \in Seq(Span) /\ Append(entered[t], s) \in Seq(Span) BY <1>1 DEF Typed
<1>4. \A i \in DOMAIN Append(entered[t], s) :
            Append(entered[t], s)[i] = s \/ (i \in DOMAIN entered[t] /\ Append(entered[t], s)[i] = entered[t][i])
  BY <1>3
<1>5. entered' \in [Thread -> Seq(Span)] BY <1>1, <1>2, <1>3 DEF Typed
<1>6. EnteredAreHeld' BY <1>1, <1>2, <1>4 DEF EnteredAreHeld, Typed
<1>7. held' \in [Span -> BOOLEAN] BY <1>1, <1>2 DEF Typed
<1> QED BY <1>2, <1>5, <1>6, <1>7, HandlesInv

LEMMA ExitInv ==
    ASSUME IInv, NEW t \in Thread, NEW i, Exit(t, i)
    PROVE  IInv'
<1>1. Typed /\ EnteredAreHeld BY DEF IInv, Registry
<1>2. /\ UNCHANGED <<phase, parent, held, state, emitted, override, unwound>>
      /\ i \in DOMAIN entered[t]
      /\ entered' = [entered EXCEPT ![t] = RemoveAt(entered[t], i)]
  BY DEF Exit, history
<1>3. entered[t] \in Seq(Span) BY <1>1 DEF Typed
<1>4. /\ RemoveAt(entered[t], i) \in Seq(Span)
      /\ \A j \in DOMAIN RemoveAt(entered[t], i) :
            \E k \in DOMAIN entered[t] : RemoveAt(entered[t], i)[j] = entered[t][k]
  BY <1>2, <1>3, Removed
<1>5. entered' \in [Thread -> Seq(Span)] BY <1>1, <1>2, <1>4 DEF Typed
<1>6. EnteredAreHeld' BY <1>1, <1>2, <1>4 DEF EnteredAreHeld, Typed
<1>7. held' \in [Span -> BOOLEAN] BY <1>1, <1>2 DEF Typed
<1> QED BY <1>2, <1>5, <1>6, <1>7, HandlesInv

LEMMA DropInv ==
    ASSUME IInv, NEW s \in Span, Drop(s)
    PROVE  IInv'
<1>1. Typed /\ EnteredAreHeld BY DEF IInv, Registry
<1>2. /\ UNCHANGED <<phase, parent, entered, state, emitted, override, unwound>>
      /\ held' = [held EXCEPT ![s] = FALSE]
      /\ \A t \in Thread : s \notin ToSet(entered[t])
  BY DEF Drop, history
<1>3. \A t \in Thread : \A i \in DOMAIN entered[t] : entered[t][i] # s
  BY <1>2 DEF ToSet
<1>4. held' \in [Span -> BOOLEAN] /\ \A x \in Span : held'[x] => held[x]
  BY <1>1, <1>2 DEF Typed
<1>5. entered' \in [Thread -> Seq(Span)] BY <1>1, <1>2 DEF Typed
<1>6. EnteredAreHeld' BY <1>1, <1>2, <1>3 DEF EnteredAreHeld, Typed
<1> QED BY <1>2, <1>4, <1>5, <1>6, HandlesInv

(* A span begins: the layer starts it if it sees it. *)
LEMMA NewInv ==
    ASSUME IInv, NEW s \in Span, NEW p \in Span \cup {NoSpan}, NEW said \in Said,
           NewSpan(s, p, said)
    PROVE  IInv'
<1>1. Typed /\ Layer /\ Registry /\ Emissions BY DEF IInv
<1>2. /\ phase[s] = "none" /\ UNCHANGED <<entered, unwound>>
      /\ phase' = [phase EXCEPT ![s] = "open"]
      /\ parent' = [parent EXCEPT ![s] = p]
      /\ held' = [held EXCEPT ![s] = TRUE]
      /\ override' = [override EXCEPT ![s] = IF said = "nothing" THEN @ ELSE said]
  BY DEF NewSpan, Says
<1>3. override'[s] = said /\ override' \in [Span -> Said]
  BY <1>1, <1>2 DEF Typed, Registry
<1>4. p # s /\ (p # NoSpan => phase[p] = "open")
  BY <1>1, <1>2, SpanAssumption DEF NewSpan, Registry
<1>5. s \notin unwound BY <1>1, <1>2 DEF Registry
<1>6. /\ IsSeq(emitted')
      /\ \A x : /\ Fin(x)' = Fin(x)
                /\ x # s \/ s \in Hidden => Sta(x)' = Sta(x)
      /\ s \notin Hidden => Sta(s)' # {}
      /\ state' \in [Span -> State]
      /\ \A x \in Span : x # s => state'[x] = state[x]
      /\ state'[s].present <=> s \notin Hidden
      /\ state'[s].present => state'[s].fields = said
  <2>1. CASE s \in Hidden
    <3>1. UNCHANGED <<state, emitted>> BY <2>1 DEF NewSpan, on_new_span
    <3>2. ~state[s].present BY <1>1, <2>1 DEF Layer
    <3> QED BY <1>1, <2>1, <3>1, <3>2, NothingEmitted DEF Typed
  <2>2. CASE s \notin Hidden
    <3>1. /\ state' = [state EXCEPT ![s] =
                          [fields |-> said, saw_error |-> FALSE, present |-> TRUE]]
          /\ emit("start", s, "none")
      BY <2>2 DEF NewSpan, on_new_span
    <3>2. IsSeq(emitted) BY <1>1 DEF Typed
    <3>3. /\ IsSeq(emitted')
          /\ \A x : Fin(x)' = Fin(x)
          /\ \A x : Sta(x)' = IF x = s THEN Sta(x) \cup {Len(emitted) + 1} ELSE Sta(x)
      BY <3>1, <3>2, EmitAdds
    <3>4. /\ state' \in [Span -> State] /\ \A x \in Span : x # s => state'[x] = state[x]
          /\ state'[s].present /\ state'[s].fields = said
      BY <1>1, <3>1 DEF Typed, State
    <3> QED BY <2>2, <3>3, <3>4
  <2> QED BY <2>1, <2>2
<1>7. Typed' BY <1>1, <1>2, <1>3, <1>6 DEF Typed
<1>8. Registry'
  <2>1. EnteredAreHeld' BY <1>1, <1>2 DEF Registry, EnteredAreHeld, Typed
  <2> QED BY <1>1, <1>2, <1>3, <1>4, <1>5, <2>1, SpanAssumption DEF Registry, Typed
<1>9. Layer'
  <2> SUFFICES ASSUME NEW x \in Span
               PROVE  /\ state'[x].present <=> (phase'[x] = "open" /\ x \notin Hidden)
                      /\ state'[x].present => state'[x].fields = override'[x]
    BY DEF Layer
  <2>1. CASE x = s BY <1>1, <1>2, <1>3, <1>6, <2>1 DEF Typed
  <2>2. CASE x # s BY <1>1, <1>2, <1>6, <2>2 DEF Typed, Layer
  <2> QED BY <2>1, <2>2
<1>10. Emissions'
  <2>1. Fin(s) = {} /\ Fin(s)' = {} BY <1>1, <1>2, <1>6 DEF Emissions
  <2>2. \A x \in Span : phase'[x] # "none" /\ x \notin Hidden => Sta(x)' # {}
    BY <1>1, <1>2, <1>6 DEF Typed, Emissions
  <2>3. \A x \in Span : Fin(x)' # {} => phase'[x] = "closed" /\ x \notin Hidden
    BY <1>1, <1>2, <1>6, <2>1 DEF Typed, Emissions
  <2>4. \A x \in Span : phase'[x] = "closed" /\ x \notin Hidden =>
            (Fin(x)' = {} <=> override'[x] = "other" /\ x \notin unwound')
    BY <1>1, <1>2, <1>6 DEF Typed, Emissions
  <2>5. \A x \in Span : \A i \in Fin(x)' :
            /\ \A j \in Fin(x)' : i = j
            /\ \E j \in Sta(x)' : j < i
            /\ \A c \in Span : parent'[c] = x => \A j \in Fin(c)' : j < i
    <3> SUFFICES ASSUME NEW x \in Span, NEW i \in Fin(x)
                 PROVE  /\ \A j \in Fin(x) : i = j
                        /\ \E j \in Sta(x)' : j < i
                        /\ \A c \in Span : parent'[c] = x => \A j \in Fin(c) : j < i
      BY <1>6
    <3>1. x # s BY <2>1
    <3>2. Sta(x)' = Sta(x) BY <1>6, <3>1
    <3>3. \A c \in Span : parent'[c] = x => c = s \/ parent[c] = x
      BY <1>1, <1>2 DEF Typed
    <3> QED BY <1>1, <2>1, <3>2, <3>3 DEF Emissions
  <2> QED BY <2>2, <2>3, <2>4, <2>5 DEF Emissions
<1> QED BY <1>7, <1>8, <1>9, <1>10 DEF IInv

(* When a finish is not written. *)
LEMMA FinishResult ==
    ASSUME NEW s \in Span, NEW panicking \in BOOLEAN, state[s].fields \in Said
    PROVE  finish_result(s, panicking) = "invalid" <=> state[s].fields = "other" /\ ~panicking
<1> DEFINE f == state[s].fields
<1>1. outcome(f) = "invalid" <=> f = "other"
  BY Zenon DEF outcome, Said
<1>2. f # "other" => outcome(f) \in {"none", "ok", "error"}
  BY Zenon DEF outcome, Said
<1>3. CASE panicking
  <2>1. finish_result(s, panicking) = "error" BY <1>3, Zenon DEF finish_result
  <2> QED BY <1>3, <2>1
<1>4. CASE ~panicking /\ outcome(f) # "none"
  <2>1. finish_result(s, panicking) = outcome(f) BY <1>4, Zenon DEF finish_result
  <2> QED BY <1>1, <1>4, <2>1
<1>5. CASE ~panicking /\ outcome(f) = "none"
  <2>1. finish_result(s, panicking) \in {"error", "ok"} BY <1>5, Zenon DEF finish_result
  <2>2. f # "other" BY <1>1, <1>5
  <2> QED BY <2>1, <2>2
<1> QED BY <1>3, <1>4, <1>5

(* A span ends: the layer writes its outcome unless that is invalid. *)
LEMMA CloseInv ==
    ASSUME IInv, NEW s \in Span, NEW panicking \in BOOLEAN, Close(s, panicking)
    PROVE  IInv'
<1> DEFINE n == Len(emitted) + 1
<1> DEFINE skips == ~state[s].present \/ finish_result(s, panicking) = "invalid"
<1>1. Typed /\ Layer /\ Registry /\ Emissions BY DEF IInv
<1>2. /\ phase[s] = "open" /\ ~held[s]
      /\ \A c \in Span : parent[c] = s => phase[c] # "open"
      /\ phase' = [phase EXCEPT ![s] = "closed"]
      /\ UNCHANGED <<parent, held, entered, override>>
      /\ unwound' = IF panicking THEN unwound \cup {s} ELSE unwound
  BY DEF Close, Unreferenced
<1>3. state' = [state EXCEPT ![s] = NoState] BY DEF Close, on_close
<1>4. skips <=> s \in Hidden \/ (override[s] = "other" /\ s \notin unwound')
  <2>1. s \notin unwound /\ state[s].fields \in Said BY <1>1, <1>2 DEF Registry, Typed, State
  <2>2. state[s].present <=> s \notin Hidden BY <1>1, <1>2 DEF Layer
  <2>3. state[s].present => state[s].fields = override[s] BY <1>1 DEF Layer
  <2>4. s \in unwound' <=> panicking BY <1>2, <2>1
  <2> QED BY <2>1, <2>2, <2>3, <2>4, FinishResult
<1>5. /\ IsSeq(emitted')
      /\ \A x : Sta(x)' = Sta(x) /\ (x # s => Fin(x)' = Fin(x))
      /\ skips => Fin(s)' = Fin(s)
      /\ ~skips => /\ Fin(s)' = Fin(s) \cup {n}
                   /\ n \in Nat /\ \A x : \A i \in Fin(x) \cup Sta(x) : i \in Nat /\ i < n
  <2>1. IsSeq(emitted) BY <1>1 DEF Typed
  <2>2. CASE skips
    <3>1. UNCHANGED emitted BY <2>2 DEF Close, on_close
    <3> QED BY <2>1, <2>2, <3>1, NothingEmitted
  <2>3. CASE ~skips
    <3>1. emit("finish", s, finish_result(s, panicking)) BY <2>3 DEF Close, on_close
    <3> HIDE DEF skips
    <3> QED BY <2>1, <2>3, <3>1, EmitAdds
  <2> QED BY <2>2, <2>3
<1> HIDE DEF n, skips
<1>6. Fin(s) = {} BY <1>1, <1>2 DEF Emissions
<1>7. Typed'
  <2>1. NoState \in State BY DEF NoState, State, Said
  <2> QED BY <1>1, <1>2, <1>3, <1>5, <2>1 DEF Typed
<1>8. Registry'
  <2>1. EnteredAreHeld' BY <1>1, <1>2 DEF Registry, EnteredAreHeld
  <2> QED BY <1>1, <1>2, <2>1 DEF Registry, Typed
<1>9. Layer'
  <2>1. ~NoState.present BY DEF NoState
  <2> QED BY <1>1, <1>2, <1>3, <2>1 DEF Layer, Typed
<1>10. Emissions'
  <2>1. \A x \in Span : phase'[x] # "none" /\ x \notin Hidden => Sta(x)' # {}
    BY <1>1, <1>2, <1>5 DEF Typed, Emissions
  <2>2. \A x \in Span : Fin(x)' # {} => phase'[x] = "closed" /\ x \notin Hidden
    BY <1>1, <1>2, <1>4, <1>5, <1>6 DEF Typed, Emissions
  <2>3. \A x \in Span : phase'[x] = "closed" /\ x \notin Hidden =>
            (Fin(x)' = {} <=> override'[x] = "other" /\ x \notin unwound')
    <3> SUFFICES ASSUME NEW x \in Span, phase'[x] = "closed", x \notin Hidden
                 PROVE  Fin(x)' = {} <=> override'[x] = "other" /\ x \notin unwound'
      OBVIOUS
    <3>1. CASE x = s
      <4>1. skips <=> Fin(s)' = {} BY <1>5, <1>6
      <4> QED BY <1>2, <1>4, <3>1, <4>1
    <3>2. CASE x # s
      BY <1>1, <1>2, <1>5, <3>2 DEF Typed, Emissions
    <3> QED BY <3>1, <3>2
  <2>4. \A x \in Span : \A i \in Fin(x)' :
            /\ \A j \in Fin(x)' : i = j
            /\ \E j \in Sta(x)' : j < i
            /\ \A c \in Span : parent'[c] = x => \A j \in Fin(c)' : j < i
    <3> SUFFICES ASSUME NEW x \in Span, NEW i \in Fin(x)'
                 PROVE  /\ \A j \in Fin(x)' : i = j
                        /\ \E j \in Sta(x)' : j < i
                        /\ \A c \in Span : parent'[c] = x => \A j \in Fin(c)' : j < i
      OBVIOUS
    <3>1. CASE x = s
      <4>1. ~skips /\ i = n /\ s \notin Hidden BY <1>4, <1>5, <1>6, <3>1
      <4>2. \A j \in Fin(s)' : j = n BY <1>5, <1>6, <4>1
      <4>3. Sta(s)' # {} /\ \A j \in Sta(s)' : j < n
        BY <1>1, <1>2, <1>5, <4>1 DEF Emissions
      <4>4. \A c \in Span : parent'[c] = s => c # s /\ Fin(c)' = Fin(c)
        BY <1>1, <1>2, <1>5 DEF Registry
      <4> QED BY <1>5, <3>1, <4>1, <4>2, <4>3, <4>4
    <3>2. CASE x # s
      <4>1. Fin(x)' = Fin(x) /\ Sta(x)' = Sta(x) BY <1>5, <3>2
      <4>2. phase[x] = "closed" BY <1>1, <4>1 DEF Emissions
      <4>3. parent[s] # x
        BY <1>1, <1>2, <4>2, SpanAssumption DEF Registry
      <4>4. \A c \in Span : parent'[c] = x => parent[c] = x /\ Fin(c)' = Fin(c)
        BY <1>2, <1>5, <4>3
      <4> QED BY <1>1, <4>1, <4>4 DEF Emissions
    <3> QED BY <3>1, <3>2
  <2> QED BY <2>1, <2>2, <2>3, <2>4 DEF Emissions
<1> QED BY <1>7, <1>8, <1>9, <1>10 DEF IInv

-----------------------------------------------------------------------------
(* What is around an event are spans the program holds. *)
Around(around) == around \in Seq(Span) /\ \A i \in DOMAIN around : held[around[i]]

LEMMA EventsAround ==
    ASSUME IInv, NEW level, NEW said,
           \/ \E t \in Thread : EventOn(t, level, said)
           \/ \E s \in Span : EventWithin(s, level, said)
           \/ RootEvent(level, said)
    PROVE  \E around : Around(around) /\ Event(around, level, said)
<1>1. Typed /\ EnteredAreHeld BY DEF IInv, Registry
<1>2. ASSUME NEW t \in Thread, EventOn(t, level, said)
      PROVE  Around(entered[t]) /\ Event(entered[t], level, said)
  BY <1>1, <1>2 DEF EventOn, Around, Typed, EnteredAreHeld
<1>3. ASSUME NEW s \in Span, EventWithin(s, level, said)
      PROVE  Around(<<s>>) /\ Event(<<s>>, level, said)
  <2>1. <<s>> \in Seq(Span) /\ \A i \in DOMAIN <<s>> : <<s>>[i] = s OBVIOUS
  <2> QED BY <1>3, <2>1 DEF EventWithin, Around
<1>4. ASSUME RootEvent(level, said)
      PROVE  Around(<<>>) /\ Event(<<>>, level, said)
  <2>1. <<>> \in Seq(Span) /\ DOMAIN <<>> = {} OBVIOUS
  <2> QED BY <1>4, <2>1 DEF RootEvent, Around
<1> QED BY <1>2, <1>3, <1>4

(* IInv is inductive. *)
THEOREM InductiveInvariant == Spec => []IInv
<1>1. ASSUME IInv, [Next]_vars PROVE IInv'
  <2>1. ASSUME NEW s \in Span, NEW p \in Span \cup {NoSpan}, NEW said \in Said, NewSpan(s, p, said)
        PROVE  IInv'
    BY <1>1, <2>1, NewInv
  <2>2. ASSUME NEW s \in Span, NEW said \in Said \ {"nothing"}, RecordField(s, said) PROVE IInv'
    BY <1>1, <2>2, RecordInv
  <2>3. ASSUME NEW t \in Thread, NEW s \in Span, Enter(t, s) PROVE IInv'
    BY <1>1, <2>3, EnterInv
  <2>4. ASSUME NEW t \in Thread, NEW i \in DOMAIN entered[t], Exit(t, i) PROVE IInv'
    BY <1>1, <2>4, ExitInv
  <2>5. ASSUME NEW level \in {"INFO", "ERROR"}, NEW said \in Said,
               \/ \E t \in Thread : EventOn(t, level, said)
               \/ \E s \in Span : EventWithin(s, level, said)
               \/ RootEvent(level, said)
        PROVE  IInv'
    BY <1>1, <2>5, EventsAround, EventInv
  <2>6. ASSUME NEW s \in Span, Drop(s) PROVE IInv' BY <1>1, <2>6, DropInv
  <2>7. ASSUME NEW s \in Span, NEW panicking \in BOOLEAN, Close(s, panicking) PROVE IInv'
    BY <1>1, <2>7, CloseInv
  <2>8. CASE UNCHANGED vars
    <3>1. UNCHANGED <<phase, parent, held, entered, state, emitted, override, unwound>>
      BY <2>8 DEF vars, history
    <3>2. EnteredAreHeld' BY <1>1, <3>1 DEF IInv, Registry, EnteredAreHeld
    <3> QED BY <1>1, <3>1, <3>2, HandlesInv DEF IInv, Typed
  <2> QED BY <1>1, <2>1, <2>2, <2>3, <2>4, <2>5, <2>6, <2>7, <2>8 DEF Next
<1> QED BY InitInv, <1>1, PTL DEF Spec

(* A finish is unique, comes behind its start and behind the finishes of   *)
(* the spans inside it, and only an invalid outcome costs a span its own.  *)
THEOREM StartsAndFinishesPair == Spec => []StartsAndFinishes
<1>1. IInv => StartsAndFinishes BY Means DEF StartsAndFinishes
<1> QED BY InductiveInvariant, <1>1, PTL

-----------------------------------------------------------------------------
(* Where an event is seen.                                                 *)

(* A set of numbers below a bound has a greatest one. *)
LEMMA Greatest ==
    ASSUME NEW n \in Nat, NEW S, S \subseteq 1..n, S # {}
    PROVE  /\ Max(S) \in S
           /\ \A j \in S : j <= Max(S)
<1> DEFINE T == {n - i : i \in S}
<1>1. T \subseteq Nat /\ T # {}
  <2>1. \A i \in S : n - i \in Nat OBVIOUS
  <2> QED BY <2>1
<1>2. PICK k \in T : \A j \in T : ~(j < k)
  <2> HIDE DEF T
  <2>1. PICK k \in T : \A j \in T : ~(<<j, k>> \in OpToRel(<, Nat))
    BY <1>1, NatLessThanWellFounded, WFMin, Zenon
  <2> QED BY <1>1, <2>1 DEF OpToRel
<1>3. PICK m \in S : k = n - m OBVIOUS
<1>4. \A j \in S : n - j \in T OBVIOUS
<1>5. ASSUME NEW j \in S PROVE m >= j
  <2>1. ~(n - j < n - m) BY <1>2, <1>3, <1>4
  <2>2. \A i \in 1..n : i \in Nat OBVIOUS
  <2>3. j \in Nat /\ m \in Nat
    <3> HIDE DEF T
    <3> QED BY <2>2, Zenon
  <2> QED BY <2>1, <2>3
<1>6. Max(S) \in S /\ \A j \in S : Max(S) >= j BY <1>5 DEF Max
<1> QED BY <1>6

(* The newest of the spans around an event that the layer sees. *)
Newest(around, s) ==
    /\ s \notin Hidden
    /\ \E i \in DOMAIN around : around[i] = s /\ \A j \in DOMAIN around : j > i => around[j] \in Hidden

LEMMA EventSpan ==
    ASSUME NEW around \in Seq(Span)
    PROVE  /\ event_span(around) = NoSpan \/ event_span(around) \in Span
           /\ \A s \in Span : event_span(around) = s <=> Newest(around, s)
<1> DEFINE seen == {i \in DOMAIN around : around[i] \notin Hidden}
           n == Len(around)
<1>1. DOMAIN around = 1..n /\ n \in Nat /\ \A i \in 1..n : around[i] \in Span OBVIOUS
<1>2. event_span(around) = IF seen = {} THEN NoSpan ELSE around[Max(seen)] BY DEF event_span
<1>3. \A i : i \in seen <=> i \in 1..n /\ around[i] \notin Hidden BY <1>1
<1> HIDE DEF seen, n
<1>4. CASE seen = {}
  BY <1>1, <1>2, <1>3, <1>4, SpanAssumption DEF Newest
<1>5. CASE seen # {}
  <2>1. seen \subseteq 1..n BY <1>3
  <2>2. Max(seen) \in seen /\ \A j \in seen : j <= Max(seen) BY <1>1, <1>5, <2>1, Greatest
  <2>3. PICK m \in seen : m = Max(seen) /\ \A j \in seen : j <= m BY <2>2
  <2>4. event_span(around) = around[m] /\ around[m] \in Span BY <1>1, <1>2, <1>3, <1>5, <2>3
  <2>5. Newest(around, around[m]) BY <1>1, <1>3, <2>3 DEF Newest
  <2>6. ASSUME NEW s, Newest(around, s) PROVE s = around[m]
    <3>1. PICK i \in 1..n : around[i] = s /\ \A j \in 1..n : j > i => around[j] \in Hidden
      BY <1>1, <2>6 DEF Newest
    <3>2. i \in seen BY <1>3, <2>6, <3>1 DEF Newest
    <3>3. i <= m /\ ~(m > i) BY <1>3, <2>3, <3>1, <3>2
    <3>4. i = m BY <1>1, <1>3, <2>3, <3>3
    <3> QED BY <3>1, <3>4
  <2> QED BY <2>4, <2>5, <2>6
<1> QED BY <1>4, <1>5

-----------------------------------------------------------------------------
(* The outcome of a span.                                                  *)

(* What the finish of s says, by the history of the run. *)
Outcome(s) ==
    IF s \in unwound THEN "error"
    ELSE CASE override[s] = "success" -> "ok"
           [] override[s] = "fail" -> "error"
           [] OTHER -> IF SawError(s) THEN "error" ELSE "ok"

Begun == {s \in Span : phase[s] # "none"}

(* saw_error stands for the errors the span was the newest around; it had  *)
(* begun, as all that were around.                                         *)
ErrorInv ==
    /\ \A around \in errors : \A i \in DOMAIN around : around[i] \in Begun
    /\ \A s \in Span : state[s].present => (state[s].saw_error <=> SawError(s))
    /\ \A s \in Span : \A i \in Fin(s) : emitted[i].result = Outcome(s)

LEMMA SawIsNewest == \A s : SawError(s) <=> \E around \in errors : Newest(around, s)
BY DEF SawError, Newest

(* An emission leaves those before it, and says what it says. *)
LEMMA EmitSays ==
    ASSUME IsSeq(emitted), NEW k, NEW x, NEW r, emit(k, x, r)
    PROVE  /\ \A s : \A i \in Fin(s) : emitted'[i] = emitted[i]
           /\ emitted'[Len(emitted) + 1].result = r
<1>1. PICK S : emitted \in Seq(S) BY DEF IsSeq
<1>2. /\ DOMAIN emitted = 1..Len(emitted)
      /\ \A i \in 1..Len(emitted) : emitted'[i] = emitted[i]
      /\ emitted'[Len(emitted) + 1] = [kind |-> k, span |-> x, result |-> r]
  BY <1>1, AppendAt DEF emit
<1> QED BY <1>2 DEF Fin

(* The outcome stays when nothing it looks at changes. *)
LEMMA OutcomeKept ==
    ASSUME NEW s, SawError(s)' <=> SawError(s), override'[s] = override[s],
           s \in unwound' <=> s \in unwound
    PROVE  Outcome(s)' = Outcome(s)
BY DEF Outcome

LEMMA OutcomeRecord ==
    ASSUME IInv, ErrorInv, NEW s \in Span, NEW said \in Said, RecordField(s, said)
    PROVE  ErrorInv'
<1>1. Typed /\ Layer /\ Registry /\ Emissions BY DEF IInv
<1>2. UNCHANGED <<phase, parent, held, emitted, unwound, errors>> /\ phase[s] = "open"
  BY <1>1 DEF RecordField, Registry
<1>3. \A x : SawError(x)' <=> SawError(x) BY <1>2 DEF SawError
<1>4. \A x \in Span : state'[x].present = state[x].present /\ state'[x].saw_error = state[x].saw_error
  BY <1>1 DEF RecordField, on_record, Typed, State
<1>5. \A x \in Span : x # s => override'[x] = override[x]
  BY <1>1 DEF RecordField, Says, Typed
<1>6. \A x : Fin(x)' = Fin(x) BY <1>1, <1>2, NothingEmitted DEF Typed
<1>7. Fin(s) = {} BY <1>1, <1>2 DEF Emissions
<1>8. ASSUME NEW x \in Span, NEW i \in Fin(x) PROVE emitted[i].result = Outcome(x)'
  <2>1. Outcome(x)' = Outcome(x) BY <1>2, <1>3, <1>5, <1>7, <1>8, OutcomeKept
  <2> QED BY <1>8, <2>1 DEF ErrorInv
<1> QED BY <1>2, <1>3, <1>4, <1>6, <1>8 DEF ErrorInv, Begun

LEMMA OutcomeHandles ==
    ASSUME IInv, ErrorInv, UNCHANGED <<phase, state, emitted, history>>
    PROVE  ErrorInv'
<1>1. UNCHANGED <<phase, state, emitted, history>> OBVIOUS
<1>2. \A x : SawError(x)' <=> SawError(x) BY <1>1 DEF SawError, history
<1>3. \A x : Fin(x)' = Fin(x) BY <1>1, NothingEmitted DEF IInv, Typed
<1>4. \A x : Outcome(x)' = Outcome(x) BY <1>1, <1>2 DEF Outcome, history
<1> QED BY <1>1, <1>2, <1>3, <1>4 DEF ErrorInv, Begun, history

LEMMA OutcomeNew ==
    ASSUME IInv, ErrorInv, NEW s \in Span, NEW p \in Span \cup {NoSpan}, NEW said \in Said,
           NewSpan(s, p, said)
    PROVE  ErrorInv'
<1>1. Typed /\ Layer /\ Registry /\ Emissions BY DEF IInv
<1>2. /\ phase[s] = "none" /\ UNCHANGED <<unwound, errors>>
      /\ phase' = [phase EXCEPT ![s] = "open"]
      /\ \A x \in Span : x # s => override'[x] = override[x]
  BY <1>1 DEF NewSpan, Says, Typed
<1>3. s \notin Begun /\ Begun' = Begun \cup {s} BY <1>1, <1>2 DEF Begun, Typed
<1>4. \A x : (SawError(x)' <=> SawError(x)) /\ (SawError(x) => x \in Begun)
  BY <1>2 DEF SawError, ErrorInv
<1>5. \A x \in Span : state'[x].present =>
          IF x = s THEN ~state'[x].saw_error
          ELSE state[x].present /\ state'[x].saw_error = state[x].saw_error
  <2>1. CASE s \in Hidden
    <3>1. state' = state BY <2>1 DEF NewSpan, on_new_span
    <3>2. ~state[s].present BY <1>1, <2>1 DEF Layer
    <3> QED BY <3>1, <3>2
  <2>2. CASE s \notin Hidden
    <3>1. state' = [state EXCEPT ![s] = [fields |-> said, saw_error |-> FALSE, present |-> TRUE]]
      BY <2>2 DEF NewSpan, on_new_span
    <3> QED BY <1>1, <3>1 DEF Typed
  <2> QED BY <2>1, <2>2
<1>6. \A x : Fin(x)' = Fin(x) /\ \A i \in Fin(x) : emitted'[i] = emitted[i]
  <2>1. IsSeq(emitted) BY <1>1 DEF Typed
  <2>2. CASE UNCHANGED emitted BY <2>1, <2>2, NothingEmitted
  <2>3. CASE emit("start", s, "none") BY <2>1, <2>3, EmitAdds, EmitSays
  <2> QED BY <2>2, <2>3 DEF NewSpan, on_new_span
<1>7. Fin(s) = {} BY <1>1, <1>2 DEF Emissions
<1>8. ASSUME NEW x \in Span, NEW i \in Fin(x) PROVE emitted'[i].result = Outcome(x)'
  <2>1. Outcome(x)' = Outcome(x) BY <1>2, <1>4, <1>7, <1>8, OutcomeKept
  <2> QED BY <1>6, <1>8, <2>1 DEF ErrorInv
<1>9. \A around \in errors' : \A i \in DOMAIN around : around[i] \in Begun'
  BY <1>2, <1>3 DEF ErrorInv
<1>10. \A x \in Span : state'[x].present => (state'[x].saw_error <=> SawError(x)')
  BY <1>3, <1>4, <1>5 DEF ErrorInv
<1> QED BY <1>6, <1>8, <1>9, <1>10 DEF ErrorInv

(* An error is seen by an open span, whose outcome is still to come. *)
LEMMA OutcomeEvent ==
    ASSUME IInv, ErrorInv, NEW around, Around(around), NEW level, NEW said \in Said,
           Event(around, level, said)
    PROVE  ErrorInv'
<1> DEFINE a == event_span(around)
<1>1. Typed /\ Layer /\ Registry /\ Emissions BY DEF IInv
<1>2. UNCHANGED <<phase, override, unwound>> BY DEF Event
<1>3. \A x \in Span : a = x <=> Newest(around, x) BY EventSpan DEF Around
<1>4. \A i \in DOMAIN around : around[i] \in Begun /\ phase[around[i]] = "open"
  BY <1>1 DEF Around, Registry, Begun
<1> HIDE DEF a
<1>5. state' = IF level = "ERROR" /\ a # NoSpan THEN [state EXCEPT ![a].saw_error = TRUE] ELSE state
  BY DEF Event, on_event, a
<1>6. errors' = IF level = "ERROR" THEN errors \cup {around} ELSE errors BY DEF Event
<1>7. \A x : SawError(x)' <=> \E ar \in errors' : Newest(ar, x) BY DEF SawError, Newest
<1>8. \A x : SawError(x)' <=> SawError(x) \/ (level = "ERROR" /\ Newest(around, x))
  BY <1>6, <1>7, SawIsNewest
<1>9. ASSUME NEW x \in Span, state'[x].present
      PROVE  state'[x].saw_error <=> SawError(x)'
  <2>1. state'[x].present = state[x].present
        /\ state'[x].saw_error = IF level = "ERROR" /\ a # NoSpan /\ a = x THEN TRUE
                                 ELSE state[x].saw_error
    BY <1>1, <1>5 DEF Typed, State
  <2>2. x # NoSpan BY SpanAssumption
  <2>3. state[x].saw_error <=> SawError(x) BY <1>9, <2>1 DEF ErrorInv
  <2> QED BY <1>3, <1>8, <2>1, <2>2, <2>3
<1>10. ASSUME NEW x \in Span, NEW i \in Fin(x) PROVE ~Newest(around, x)
  <2>1. phase[x] = "closed" BY <1>1, <1>10 DEF Emissions
  <2> QED BY <1>4, <2>1 DEF Newest
<1>11. \A x : Fin(x)' = Fin(x) /\ \A i \in Fin(x) : emitted'[i] = emitted[i]
  <2>1. IsSeq(emitted) BY <1>1 DEF Typed
  <2>2. CASE UNCHANGED emitted BY <2>1, <2>2, NothingEmitted
  <2>3. CASE emit("event", a, outcome(said))
    BY <2>1, <2>3, EmitAdds, EmitSays, "event" # "finish"
  <2> QED BY <2>2, <2>3 DEF Event, on_event, a
<1>12. ASSUME NEW x \in Span, NEW i \in Fin(x) PROVE emitted'[i].result = Outcome(x)'
  <2>1. SawError(x)' <=> SawError(x) BY <1>8, <1>10, <1>12
  <2>2. Outcome(x)' = Outcome(x) BY <1>2, <2>1, OutcomeKept
  <2> QED BY <1>11, <1>12, <2>2 DEF ErrorInv
<1>13. Begun' = Begun BY <1>2 DEF Begun
<1>14. \A ar \in errors' : \A i \in DOMAIN ar : ar[i] \in Begun' BY <1>4, <1>6, <1>13 DEF ErrorInv
<1> QED BY <1>9, <1>11, <1>12, <1>14 DEF ErrorInv

(* What a finish that is written says. *)
LEMMA FinishSays ==
    ASSUME NEW s \in Span, NEW panicking \in BOOLEAN, state[s].fields = override[s],
           override[s] \in Said, state[s].saw_error <=> SawError(s),
           s \in unwound' <=> panicking, override[s] # "other" \/ panicking
    PROVE  finish_result(s, panicking) =
              IF s \in unwound' THEN "error"
              ELSE CASE override[s] = "success" -> "ok"
                     [] override[s] = "fail" -> "error"
                     [] OTHER -> IF SawError(s) THEN "error" ELSE "ok"
<1>1. CASE panicking BY <1>1, Zenon DEF finish_result
<1>2. CASE ~panicking /\ override[s] = "success"
  <2>1. outcome("success") = "ok" BY Zenon DEF outcome
  <2> QED BY <1>2, <2>1, "ok" # "none" DEF finish_result
<1>3. CASE ~panicking /\ override[s] = "fail"
  <2>1. outcome("fail") = "error" BY Zenon DEF outcome
  <2> QED BY <1>3, <2>1, "error" # "none", "fail" # "success" DEF finish_result
<1>4. CASE ~panicking /\ override[s] = "nothing"
  <2>1. outcome("nothing") = "none" BY Zenon DEF outcome
  <2>2. finish_result(s, panicking) = IF SawError(s) THEN "error" ELSE "ok"
    BY <1>4, <2>1 DEF finish_result
  <2> QED BY <1>4, <2>2, "nothing" # "success", "nothing" # "fail"
<1> QED BY <1>1, <1>2, <1>3, <1>4 DEF Said

LEMMA OutcomeClose ==
    ASSUME IInv, ErrorInv, NEW s \in Span, NEW panicking \in BOOLEAN, Close(s, panicking)
    PROVE  ErrorInv'
<1> DEFINE skips == ~state[s].present \/ finish_result(s, panicking) = "invalid"
           r == finish_result(s, panicking)
<1>1. Typed /\ Layer /\ Registry /\ Emissions BY DEF IInv
<1>2. /\ phase[s] = "open" /\ phase' = [phase EXCEPT ![s] = "closed"]
      /\ UNCHANGED <<override, errors>>
      /\ unwound' = IF panicking THEN unwound \cup {s} ELSE unwound
      /\ state' = [state EXCEPT ![s] = NoState]
  BY DEF Close, on_close
<1>3. Begun' = Begun BY <1>1, <1>2 DEF Begun, Typed
<1>4. \A x : SawError(x)' <=> SawError(x) BY <1>2 DEF SawError
<1>5. s \notin unwound /\ (s \in unwound' <=> panicking) BY <1>1, <1>2 DEF Registry
<1>6. Fin(s) = {} BY <1>1, <1>2 DEF Emissions
<1>7. \A x \in Span : state'[x].present => x # s /\ state'[x] = state[x]
  BY <1>1, <1>2 DEF Typed, NoState
<1>8. ASSUME NEW x \in Span, x # s, NEW i \in Fin(x) PROVE emitted[i].result = Outcome(x)'
  <2>1. Outcome(x)' = Outcome(x) BY <1>2, <1>4, <1>8, OutcomeKept
  <2> QED BY <1>8, <2>1 DEF ErrorInv
<1>9. ASSUME NEW x \in Span, NEW i \in Fin(x)' PROVE emitted'[i].result = Outcome(x)'
  <2>1. IsSeq(emitted) BY <1>1 DEF Typed
  <2>2. CASE skips
    <3>1. UNCHANGED emitted BY <2>2 DEF Close, on_close
    <3>2. Fin(x)' = Fin(x) BY <2>1, <3>1, NothingEmitted
    <3> QED BY <1>6, <1>8, <1>9, <3>1, <3>2
  <2>3. CASE ~skips
    <3>1. emit("finish", s, r) BY <2>3 DEF Close, on_close
    <3>2. /\ \A y : Fin(y)' = IF y = s THEN Fin(y) \cup {Len(emitted) + 1} ELSE Fin(y)
          /\ \A j \in Fin(x) : emitted'[j] = emitted[j]
          /\ emitted'[Len(emitted) + 1].result = r
      <4> HIDE DEF r
      <4> QED BY <2>1, <3>1, EmitAdds, EmitSays
    <3>3. CASE x # s BY <1>8, <1>9, <3>2, <3>3
    <3>4. CASE x = s
      <4>1. i = Len(emitted) + 1 BY <1>6, <1>9, <3>2, <3>4
      <4>2. state[s].present /\ state[s].fields = override[s] /\ override[s] \in Said
            /\ (state[s].saw_error <=> SawError(s))
        BY <1>1, <2>3 DEF Layer, Typed, ErrorInv
      <4>3. override[s] # "other" \/ panicking BY <2>3, <4>2, FinishResult
      <4>4. r = IF s \in unwound' THEN "error"
                ELSE CASE override[s] = "success" -> "ok"
                       [] override[s] = "fail" -> "error"
                       [] OTHER -> IF SawError(s) THEN "error" ELSE "ok"
        BY <1>5, <4>2, <4>3, FinishSays
      <4>5. r = Outcome(s)'
        <5> HIDE DEF r
        <5> QED BY <1>2, <1>4, <4>4, Zenon DEF Outcome
      <4> QED BY <3>2, <3>4, <4>1, <4>5
    <3> QED BY <3>3, <3>4
  <2> QED BY <2>2, <2>3
<1>10. \A x \in Span : state'[x].present => (state'[x].saw_error <=> SawError(x)')
  BY <1>4, <1>7 DEF ErrorInv
<1> QED BY <1>2, <1>3, <1>9, <1>10 DEF ErrorInv

(* ErrorInv is inductive, with IInv. *)
THEOREM ErrorInvariant == Spec => []ErrorInv
<1>1. Init => ErrorInv
  <2> SUFFICES ASSUME Init PROVE ErrorInv OBVIOUS
  <2>1. \A s : Fin(s) = {} BY DEF Init, Fin
  <2>2. Begun = {} BY DEF Init, Begun
  <2>3. \A s \in Span : ~state[s].present BY DEF Init, NoState
  <2> QED BY <2>1, <2>2, <2>3 DEF Init, ErrorInv
<1>2. ASSUME IInv, ErrorInv, [Next]_vars PROVE ErrorInv'
  <2>1. ASSUME NEW s \in Span, NEW p \in Span \cup {NoSpan}, NEW said \in Said, NewSpan(s, p, said)
        PROVE  ErrorInv'
    BY <1>2, <2>1, OutcomeNew
  <2>2. ASSUME NEW s \in Span, NEW said \in Said \ {"nothing"}, RecordField(s, said) PROVE ErrorInv'
    BY <1>2, <2>2, OutcomeRecord
  <2>3. ASSUME NEW level \in {"INFO", "ERROR"}, NEW said \in Said,
               \/ \E t \in Thread : EventOn(t, level, said)
               \/ \E s \in Span : EventWithin(s, level, said)
               \/ RootEvent(level, said)
        PROVE  ErrorInv'
    <3>1. PICK around : Around(around) /\ Event(around, level, said) BY <1>2, <2>3, EventsAround
    <3> QED BY <1>2, <3>1, OutcomeEvent
  <2>4. ASSUME \/ \E t \in Thread, s \in Span : Enter(t, s)
               \/ \E t \in Thread : \E i \in DOMAIN entered[t] : Exit(t, i)
               \/ \E s \in Span : Drop(s)
               \/ UNCHANGED vars
        PROVE  ErrorInv'
    <3>1. UNCHANGED <<phase, state, emitted, history>> BY <2>4 DEF Enter, Exit, Drop, vars
    <3> QED BY <1>2, <3>1, OutcomeHandles
  <2>5. ASSUME NEW s \in Span, NEW panicking \in BOOLEAN, Close(s, panicking) PROVE ErrorInv'
    BY <1>2, <2>5, OutcomeClose
  <2> QED BY <1>2, <2>1, <2>2, <2>3, <2>4, <2>5 DEF Next
<1> QED BY <1>1, <1>2, InductiveInvariant, PTL DEF Spec

(* A finish says "error" for a span that unwound, else what it was told    *)
(* last, else whether it was the newest seen span around an ERROR.         *)
THEOREM FinishesTellTheOutcome == Spec => []FinishIsOutcome
<1>1. ErrorInv => FinishIsOutcome BY DEF ErrorInv, FinishIsOutcome, Outcome, Fin
<1> QED BY <1>1, ErrorInvariant, PTL
=============================================================================
