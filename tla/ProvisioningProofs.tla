------------------------- MODULE ProvisioningProofs -------------------------
(***************************************************************************)
(* Proofs about Provisioning for any VMs, metadata, image, processes that  *)
(* clean, and numbers of faults, moves and cleans.  IInv is inductive; the *)
(* properties follow from it.                                              *)
(***************************************************************************)
EXTENDS Provisioning, TLAPS, SequenceTheorems, WellFoundedInduction

(* What IMDS answers has its type. *)
LEMMA MetaType ==
    ASSUME NEW v \in Vm
    PROVE  /\ Meta[v].user \in User /\ Meta[v].host \in Host
           /\ Meta[v].disable \in BOOLEAN /\ Meta[v].keys \in SUBSET PubKey
BY MetaAssumption DEF Metadata

(* A line behind the last one leaves a file of lines. *)
LEMMA WrittenType ==
    ASSUME NEW file \in Seq(Line), NEW line \in Line
    PROVE  Written(file, line) \in Seq(Line)
<1>1. CASE Unended(file)
  <2> DEFINE glued == Glued(file[Len(file)], line.eol)
  <2>1. Len(file) \in 1..Len(file) /\ file[Len(file)] \in Line BY <1>1 DEF Unended
  <2>2. glued \in Line BY <2>1 DEF Glued, Line
  <2> HIDE DEF glued
  <2>3. [file EXCEPT ![Len(file)] = glued] \in Seq(Line) BY <2>1, <2>2
  <2> QED BY <1>1, <2>3 DEF Written, glued
<1>2. CASE ~Unended(file) BY <1>2 DEF Written
<1> QED BY <1>1, <1>2

LEMMA CutLineType ==
    ASSUME NEW line \in Line
    PROVE  CutLine(line) \subseteq Line
<1>1. line.kind \in {"plain", "commented", "marked", "other", "broken", "glued"}
      /\ line.set \in {"yes", "no"}
  BY DEF Line
<1>2. [kind |-> line.kind, set |-> line.set, eol |-> FALSE] \in Line BY <1>1 DEF Line
<1>3. [kind |-> "plain", set |-> line.set, eol |-> FALSE] \in Line BY <1>1 DEF Line
<1>4. BrokenLine \in Line BY DEF BrokenLine, Line
<1> QED BY <1>2, <1>3, <1>4, Zenon DEF CutLine

(* A cut file ends with a whole line or within one. *)
LEMMA CutCases ==
    ASSUME NEW file, NEW cut \in Cuts(file)
    PROVE  \/ \E n \in 0..(Len(file) - 1) : cut = SubSeq(file, 1, n)
           \/ \E n \in DOMAIN file : \E line \in CutLine(file[n]) :
                    cut = Append(SubSeq(file, 1, n - 1), line)
BY Zenon DEF Cuts

LEMMA CutsType ==
    ASSUME NEW file \in Seq(Line)
    PROVE  Cuts(file) \subseteq Seq(Line)
<1>1. Len(file) \in Nat /\ \A i \in 1..Len(file) : file[i] \in Line OBVIOUS
<1>2. ASSUME NEW n \in 0..Len(file) PROVE SubSeq(file, 1, n) \in Seq(Line)
  BY <1>1
<1>3. ASSUME NEW n \in 0..(Len(file) - 1) PROVE SubSeq(file, 1, n) \in Seq(Line)
  BY <1>1, <1>2
<1>4. ASSUME NEW n \in DOMAIN file, NEW line \in CutLine(file[n])
      PROVE  Append(SubSeq(file, 1, n - 1), line) \in Seq(Line)
  <2>1. n \in 1..Len(file) /\ n - 1 \in 0..Len(file) BY <1>1
  <2>2. SubSeq(file, 1, n - 1) \in Seq(Line) BY <1>2, <2>1
  <2>3. line \in Line BY <1>1, <2>1, CutLineType
  <2> QED BY <2>2, <2>3
<1>5. ASSUME NEW cut \in Cuts(file) PROVE cut \in Seq(Line)
  <2>1. CASE \E n \in 0..(Len(file) - 1) : cut = SubSeq(file, 1, n)
    BY <1>3, <2>1
  <2>2. CASE \E n \in DOMAIN file : \E line \in CutLine(file[n]) :
                    cut = Append(SubSeq(file, 1, n - 1), line)
    <3>1. PICK n \in DOMAIN file : \E line \in CutLine(file[n]) :
                    cut = Append(SubSeq(file, 1, n - 1), line)
      BY <2>2
    <3>2. PICK line \in CutLine(file[n]) : cut = Append(SubSeq(file, 1, n - 1), line)
      BY <3>1
    <3> QED BY <1>4, <3>2
  <2> QED BY <2>1, <2>2, CutCases
<1> QED BY <1>5

(* update_sshd_config makes a file of lines of a file of lines. *)
LEMMA SshdType ==
    ASSUME NEW file \in Seq(Line), NEW d \in BOOLEAN
    PROVE  /\ <<Plain(Setting(d))>> \in Seq(Line)
           /\ Replaced(file, Setting(d)) \in Seq(Line)
           /\ Appended(file, Setting(d)) \in Seq(Line)
           /\ AppendCuts(file, Setting(d)) \subseteq Seq(Line)
<1>1. Setting(d) \in {"yes", "no"} BY DEF Setting
<1>2. Plain(Setting(d)) \in Line /\ Marked(Setting(d)) \in Line
  BY <1>1 DEF Plain, Marked, Line
<1>3. Replaced(file, Setting(d)) \in Seq(Line)
  <2>1. DOMAIN file = 1..Len(file) /\ Len(file) \in Nat OBVIOUS
  <2>2. \A i \in 1..Len(file) :
            (IF Matched(file[i]) THEN Marked(Setting(d)) ELSE file[i]) \in Line
    BY <1>2, <2>1
  <2>3. Replaced(file, Setting(d)) =
            [i \in 1..Len(file) |-> IF Matched(file[i]) THEN Marked(Setting(d)) ELSE file[i]]
    BY <2>1 DEF Replaced
  <2> QED BY <2>1, <2>2, <2>3, SeqDef
<1>4. Appended(file, Setting(d)) \in Seq(Line) BY <1>2, WrittenType DEF Appended
<1>5. AppendCuts(file, Setting(d)) \subseteq Seq(Line)
  <2>1. CutLine(Marked(Setting(d))) \subseteq Line BY <1>2, CutLineType
  <2> QED BY <2>1, WrittenType DEF AppendCuts
<1> QED BY <1>2, <1>3, <1>4, <1>5

USE DEF Proc, Id, Report

-----------------------------------------------------------------------------
(* Type correctness. *)

(* The labels a step can go to. *)
LEMMA GotoType ==
    ASSUME TypeOK, NEW p \in Proc, NEW l \in Label, Goto(p, l)
    PROVE  pc' \in [Proc -> Label]
BY DEF TypeOK, Goto

LEMMA WorksType ==
    ASSUME TypeOK, NEW p \in Proc, NEW l \in Label, Works(p, l)
    PROVE  pc' \in [Proc -> Label] /\ error' \in [Proc -> Error] /\ faults' \in Nat
BY GotoType DEF TypeOK, Works

LEMMA FailsType ==
    ASSUME TypeOK, NEW p \in Proc, NEW e \in Error, Fails(p, e)
    PROVE  pc' \in [Proc -> Label] /\ error' \in [Proc -> Error] /\ faults' \in Nat
<1>1. "failure" \in Label BY DEF Label
<1> QED BY <1>1, GotoType DEF TypeOK, Fails

LEMMA CleanFailsType ==
    ASSUME TypeOK, NEW p \in Proc, CleanFails(p)
    PROVE  pc' \in [Proc -> Label] /\ error' \in [Proc -> Error] /\ faults' \in Nat
<1>1. "exited" \in Label /\ "Io" \in Error BY DEF Label, Error
<1> QED BY <1>1, GotoType DEF TypeOK, CleanFails

LEMMA TypeInit == Init => TypeOK
<1> SUFFICES ASSUME Init PROVE TypeOK OBVIOUS
<1>1. sshd \in Seq(Line) BY ImageAssumption DEF Init
<1>2. buf \in [Proc -> Seq(Line)] BY DEF Init
<1> QED BY <1>1, <1>2, ImageAssumption, LimitsAreNat DEF Init, TypeOK, Label, AgentLabel, Error

LEMMA TypeCommon ==
    ASSUME TypeOK, NEW p \in Proc, get_vm_id(p) \/ Common(p)
    PROVE  TypeOK'
<1> USE DEF platformVars, diskVars, userVars, sshVars, kvpVars, cleanVars, boundVars
<1> USE DEF Label, AgentLabel, Error
<1>1. CASE get_vm_id(p)
  <2>1. pc' \in [Proc -> Label]
    BY <1>1, GotoType DEF get_vm_id
  <2>2. id' \in [Proc -> Id]
    BY <1>1 DEF get_vm_id, TypeOK
  <2>3. cleans' \in Nat /\ faults' \in Nat
    <3>1. cleans \in Nat /\ faults \in Nat BY DEF TypeOK
    <3>2. cleans' \in {cleans, cleans + 1} /\ faults' \in {faults, faults + 1}
      BY <1>1 DEF get_vm_id
    <3> QED BY <3>1, <3>2
  <2> QED BY <1>1, <2>1, <2>2, <2>3 DEF get_vm_id, TypeOK
<1>2. CASE load(p)
  <2>1. pc' \in [Proc -> Label] /\ error' \in [Proc -> Error] /\ faults' \in Nat
    BY <1>2, WorksType, FailsType DEF load
  <2> QED BY <1>2, <2>1 DEF load, TypeOK
<1>3. CASE report_event(p)
  <2>1. pc' \in [Proc -> Label] /\ error' \in [Proc -> Error] /\ faults' \in Nat
    BY <1>3, WorksType DEF report_event
  <2> QED BY <1>3, <2>1 DEF report_event, Outcome, TypeOK
<1>4. CASE report_post(p)
  <2>1. CASE Works(p, "exited")
    BY <1>4, <2>1, WorksType DEF report_post, Outcome, TypeOK
  <2>2. CASE /\ faults' = faults + 1 /\ UNCHANGED error
             /\ UNCHANGED pc \/ Goto(p, "exited")
    <3>1. pc' \in [Proc -> Label]
      BY <2>2, GotoType DEF TypeOK
    <3> QED BY <1>4, <2>2, <3>1 DEF report_post, Outcome, TypeOK
  <2> QED BY <1>4, <2>1, <2>2 DEF report_post
<1> QED BY <1>1, <1>2, <1>3, <1>4 DEF Common

LEMMA TypeProvision ==
    ASSUME TypeOK, NEW a \in Agent, AgentInv(a), Provision(a)
    PROVE  TypeOK'
<1> USE DEF platformVars, diskVars, userVars, sshVars, kvpVars, cleanVars, boundVars
<1> DEFINE M == Meta[md[a]]
<1>1. ASSUME pc[a] \in HostDone \cup {"hostname"}
      PROVE  /\ md[a] \in Vm
             /\ M.user \in User /\ M.host \in Host
             /\ M.disable \in BOOLEAN /\ M.keys \in SUBSET PubKey
  BY <1>1, MetaType DEF AgentInv, TypeOK
<1>2. pc' \in [Proc -> Label] /\ error' \in [Proc -> Error] /\ faults' \in Nat
  <2> USE DEF Label, AgentLabel, Error
  <2>1. CASE is_provisioning_complete(a)
    BY <2>1, WorksType DEF is_provisioning_complete
  <2>2. CASE query(a)
    BY <2>2, WorksType, FailsType DEF query
  <2>3. CASE set_hostname(a)
    BY <2>3, WorksType, FailsType DEF set_hostname
  <2>4. CASE useradd(a)
    BY <2>4, WorksType, FailsType DEF useradd
  <2>5. CASE sudoers_open(a)
    BY <2>5, WorksType, FailsType DEF sudoers_open
  <2>6. CASE sudoers_write(a)
    BY <2>6, WorksType, FailsType DEF sudoers_write
  <2>7. CASE lock_user(a)
    BY <2>7, WorksType, FailsType DEF lock_user
  <2>8. CASE sshd_open(a)
    BY <2>8, WorksType, FailsType DEF sshd_open
  <2>9. CASE sshd_write(a)
    BY <2>9, WorksType, FailsType DEF sshd_write
  <2>10. CASE sshd_append(a)
    BY <2>10, WorksType, FailsType DEF sshd_append
  <2>11. CASE no_ssh_keys(a)
    BY <2>11, WorksType DEF no_ssh_keys
  <2>12. CASE ssh_keys_open(a)
    BY <2>12, WorksType, FailsType DEF ssh_keys_open
  <2>13. CASE ssh_keys_write(a)
    BY <2>13, WorksType, FailsType DEF ssh_keys_write
  <2>14. CASE mark_provisioning_complete(a)
    BY <2>14, WorksType, FailsType DEF mark_provisioning_complete
  <2> QED BY <2>1, <2>2, <2>3, <2>4, <2>5, <2>6, <2>7, <2>8, <2>9, <2>10,
             <2>11, <2>12, <2>13, <2>14 DEF Provision
<1>3. CASE is_provisioning_complete(a) \/ no_ssh_keys(a)
  BY <1>2, <1>3 DEF is_provisioning_complete, no_ssh_keys, TypeOK
<1>4. CASE query(a)
  BY <1>2, <1>4 DEF query, TypeOK
<1>5. CASE set_hostname(a)
  BY <1>1, <1>2, <1>5 DEF set_hostname, TypeOK, HostDone
<1>6. CASE useradd(a)
  <2>1. M.user \in User BY <1>1, <1>6 DEF useradd, HostDone
  <2> QED BY <1>2, <1>6, <2>1 DEF useradd, TypeOK
<1>7. CASE sudoers_open(a)
  BY <1>2, <1>7 DEF sudoers_open, TypeOK
<1>8. CASE sudoers_write(a)
  <2>1. M.user \in User BY <1>1, <1>8 DEF sudoers_write, HostDone, UserDone
  <2> QED BY <1>2, <1>8, <2>1 DEF sudoers_write, TypeOK
<1>9. CASE lock_user(a)
  <2>1. M.user \in User BY <1>1, <1>9 DEF lock_user, HostDone, UserDone, SudoDone
  <2> QED BY <1>2, <1>9, <2>1 DEF lock_user, TypeOK
<1>10. CASE sshd_open(a)
  <2>1. M.disable \in BOOLEAN
    BY <1>1, <1>10 DEF sshd_open, HostDone, UserDone, SudoDone, LockDone
  <2>2. buf' \in [Proc -> Seq(Line)]
    <3>1. (IF sshdExists THEN Replaced(sshd, Setting(M.disable))
                         ELSE <<Plain(Setting(M.disable))>>) \in Seq(Line)
      BY <2>1, SshdType DEF TypeOK
    <3> QED BY <1>10, <3>1 DEF sshd_open, TypeOK
  <2>3. sshdExists' \in BOOLEAN /\ sshd' \in Seq(Line)
    <3>1. sshdExists' \in {sshdExists, TRUE} /\ sshd' \in {sshd, <<>>}
      BY <1>10 DEF sshd_open
    <3>2. <<>> \in Seq(Line) OBVIOUS
    <3> QED BY <3>1, <3>2 DEF TypeOK
  <2> QED BY <1>2, <1>10, <2>2, <2>3 DEF sshd_open, TypeOK
<1>11. CASE sshd_write(a)
  <2>1. buf[a] \in Seq(Line) BY DEF TypeOK
  <2>2. sshd' \in {buf[a]} \cup Cuts(buf[a]) BY <1>11 DEF sshd_write
  <2>3. sshd' \in Seq(Line) BY <2>1, <2>2, CutsType
  <2> QED BY <1>2, <1>11, <2>3 DEF sshd_write, TypeOK
<1>12. CASE sshd_append(a)
  <2>1. M.disable \in BOOLEAN
    BY <1>1, <1>12 DEF sshd_append, HostDone, UserDone, SudoDone, LockDone
  <2>2. /\ Appended(sshd, Setting(M.disable)) \in Seq(Line)
        /\ AppendCuts(sshd, Setting(M.disable)) \subseteq Seq(Line)
    BY <2>1, SshdType DEF TypeOK
  <2>3. sshd' \in Seq(Line) BY <1>12, <2>2 DEF sshd_append
  <2> QED BY <1>2, <1>12, <2>3 DEF sshd_append, TypeOK
<1>13. CASE ssh_keys_open(a)
  <2>1. authorized' \in [User -> SUBSET PubKey] BY <1>13 DEF ssh_keys_open, TypeOK
  <2> QED BY <1>2, <1>13, <2>1 DEF ssh_keys_open, TypeOK
<1>14. CASE ssh_keys_write(a)
  <2>1. M.keys \in SUBSET PubKey
    BY <1>1, <1>14 DEF ssh_keys_write, HostDone, UserDone, SudoDone, LockDone
  <2>2. authorized' \in [User -> SUBSET PubKey]
    BY <1>14, <2>1 DEF ssh_keys_write, TypeOK
  <2> QED BY <1>2, <1>14, <2>2 DEF ssh_keys_write, TypeOK
<1>15. CASE mark_provisioning_complete(a)
  <2>1. markers' \in SUBSET Id /\ since' \in [Cleaner -> SUBSET Id]
    BY <1>15 DEF mark_provisioning_complete, TypeOK
  <2> QED BY <1>2, <1>15, <2>1 DEF mark_provisioning_complete, TypeOK
<1> QED BY <1>3, <1>4, <1>5, <1>6, <1>7, <1>8, <1>9, <1>10, <1>11, <1>12, <1>13,
           <1>14, <1>15 DEF Provision

LEMMA TypeClean ==
    ASSUME TypeOK, NEW c \in Cleaner, Clean(c)
    PROVE  TypeOK'
<1> USE DEF platformVars, diskVars, userVars, sshVars, kvpVars, cleanVars, boundVars
<1> USE DEF Label, AgentLabel, Error
<1>1. CASE clean_list(c)
  <2>1. pc' \in [Proc -> Label] /\ error' \in [Proc -> Error] /\ faults' \in Nat
    BY <1>1, WorksType, CleanFailsType DEF clean_list
  <2> QED BY <1>1, <2>1 DEF clean_list, TypeOK
<1>2. CASE clean_remove(c)
  <2>1. pc' \in [Proc -> Label] /\ error' \in [Proc -> Error] /\ faults' \in Nat
    BY <1>2, CleanFailsType DEF clean_remove, TypeOK
  <2>2. markers' \in SUBSET Id /\ todo' \in [Cleaner -> SUBSET Id]
    BY <1>2, ZenonT(60) DEF clean_remove, TypeOK
  <2> QED BY <1>2, <2>1, <2>2 DEF clean_remove, TypeOK
<1>3. CASE clean_end(c)
  <2>1. pc' \in [Proc -> Label] /\ error' \in [Proc -> Error] /\ faults' \in Nat
    BY <1>3, WorksType, CleanFailsType DEF clean_end
  <2> QED BY <1>3, <2>1 DEF clean_end, TypeOK
<1> QED BY <1>1, <1>2, <1>3 DEF Clean

LEMMA TypeMachine ==
    ASSUME TypeOK, Reboot \/ Crash \/ Move
    PROVE  TypeOK'
<1> USE DEF diskVars, userVars, sshVars, Label, AgentLabel, Error
<1>1. Halt /\ vm' \in Vm /\ faults' \in Nat /\ moves' \in Nat
  BY DEF Reboot, Crash, Move, TypeOK
<1>2. buf' \in [Proc -> Seq(Line)] BY <1>1 DEF Halt
<1> QED BY <1>1, <1>2 DEF Halt, TypeOK

LEMMA TypeNext ==
    ASSUME IInv, [Next]_vars
    PROVE  TypeOK'
<1>1. TypeOK BY DEF IInv
<1>2. ASSUME UNCHANGED vars PROVE TypeOK'
  BY <1>1, <1>2 DEF vars, platformVars, diskVars, userVars, sshVars, kvpVars, cleanVars,
                    boundVars, TypeOK
<1>3. ASSUME NEW a \in Agent, Provision(a) PROVE TypeOK'
  BY <1>1, <1>3, TypeProvision DEF IInv
<1> QED BY <1>1, <1>2, <1>3, TypeCommon, TypeClean, TypeMachine DEF Next

-----------------------------------------------------------------------------
(* Steps of the agent. *)

(* Where the steps of Provision are taken. *)
Working == {"decide", "query", "hostname", "mark"} \cup (HostDone \ KeysDone)

(* A step of Provision starts at a label of Provision and leaves the       *)
(* reports, the other processes and the VM alone.                          *)
LEMMA ProvisionMoves ==
    ASSUME TypeOK, NEW a \in Agent, Provision(a)
    PROVE  /\ pc[a] \in Working
           /\ \A p \in Proc \ {a} : pc'[p] = pc[p] /\ error'[p] = error[p]
           /\ UNCHANGED <<vm, health, kvp, kvpFresh, id, kvpOn, todo>>
<1> USE DEF platformVars, diskVars, userVars, sshVars, kvpVars, cleanVars, boundVars
<1> USE DEF Working, HostDone, UserDone, SudoDone, LockDone, KeysDone
<1> USE DEF Works, Fails, Goto, TypeOK
<1>1. CASE is_provisioning_complete(a)
  BY <1>1 DEF is_provisioning_complete
<1>2. CASE query(a)
  BY <1>2 DEF query
<1>3. CASE set_hostname(a)
  BY <1>3 DEF set_hostname
<1>4. CASE useradd(a)
  BY <1>4 DEF useradd
<1>5. CASE sudoers_open(a)
  BY <1>5 DEF sudoers_open
<1>6. CASE sudoers_write(a)
  BY <1>6 DEF sudoers_write
<1>7. CASE lock_user(a)
  BY <1>7 DEF lock_user
<1>8. CASE sshd_open(a)
  BY <1>8 DEF sshd_open
<1>9. CASE sshd_write(a)
  BY <1>9 DEF sshd_write
<1>10. CASE sshd_append(a)
  BY <1>10 DEF sshd_append
<1>11. CASE no_ssh_keys(a)
  BY <1>11 DEF no_ssh_keys
<1>12. CASE ssh_keys_open(a)
  BY <1>12 DEF ssh_keys_open
<1>13. CASE ssh_keys_write(a)
  BY <1>13 DEF ssh_keys_write
<1>14. CASE mark_provisioning_complete(a)
  BY <1>14 DEF mark_provisioning_complete
<1> QED BY <1>1, <1>2, <1>3, <1>4, <1>5, <1>6, <1>7, <1>8,
           <1>9, <1>10, <1>11, <1>12, <1>13, <1>14 DEF Provision

(* It writes the disk only under an id that has no marker, and makes no    *)
(* marker unless it is the last.                                           *)
LEMMA ProvisionDisk ==
    ASSUME IInv, NEW a \in Agent, Provision(a), ~mark_provisioning_complete(a)
    PROVE  /\ markers' = markers /\ since' = since
           /\ \/ UNCHANGED <<hostname, accounts, locked, sudoers, authorized, owner>>
              \/ owner' = id[a] /\ id[a] \notin markers
<1> USE DEF platformVars, diskVars, userVars, sshVars, kvpVars, cleanVars, boundVars
<1> USE DEF HostDone, UserDone, SudoDone, LockDone, KeysDone
<1>0. AgentInv(a) BY DEF IInv
<1>1. CASE is_provisioning_complete(a)
  BY <1>0, <1>1 DEF is_provisioning_complete, AgentInv
<1>2. CASE query(a)
  BY <1>0, <1>2 DEF query, AgentInv
<1>3. CASE set_hostname(a)
  BY <1>0, <1>3 DEF set_hostname, AgentInv
<1>4. CASE useradd(a)
  BY <1>0, <1>4 DEF useradd, AgentInv
<1>5. CASE sudoers_open(a)
  BY <1>0, <1>5 DEF sudoers_open, AgentInv
<1>6. CASE sudoers_write(a)
  BY <1>0, <1>6 DEF sudoers_write, AgentInv
<1>7. CASE lock_user(a)
  BY <1>0, <1>7 DEF lock_user, AgentInv
<1>8. CASE sshd_open(a)
  BY <1>0, <1>8 DEF sshd_open, AgentInv
<1>9. CASE sshd_write(a)
  BY <1>0, <1>9 DEF sshd_write, AgentInv
<1>10. CASE sshd_append(a)
  BY <1>0, <1>10 DEF sshd_append, AgentInv
<1>11. CASE no_ssh_keys(a)
  BY <1>0, <1>11 DEF no_ssh_keys, AgentInv
<1>12. CASE ssh_keys_open(a)
  BY <1>0, <1>12 DEF ssh_keys_open, AgentInv
<1>13. CASE ssh_keys_write(a)
  BY <1>0, <1>13 DEF ssh_keys_write, AgentInv
<1> QED BY <1>1, <1>2, <1>3, <1>4, <1>5, <1>6, <1>7, <1>8,
           <1>9, <1>10, <1>11, <1>12, <1>13 DEF Provision

LEMMA ProvisionAgent ==
    ASSUME IInv, NEW a \in Agent, Provision(a)
    PROVE  AgentInv(a)'
<1> USE DEF platformVars, diskVars, userVars, sshVars, kvpVars, cleanVars, boundVars
<1> USE DEF HostDone, UserDone, SudoDone, LockDone, KeysDone, AgentLabel, Failing
<1> USE DEF Works, Fails, Goto, AgentInv
<1>0. AgentInv(a) /\ TypeOK BY DEF IInv
<1>1. CASE is_provisioning_complete(a)
  BY <1>0, <1>1 DEF is_provisioning_complete, TypeOK
<1>2. CASE query(a)
  BY <1>0, <1>2 DEF query, TypeOK
<1>3. CASE set_hostname(a)
  BY <1>0, <1>3 DEF set_hostname, TypeOK
<1>4. CASE useradd(a)
  BY <1>0, <1>4 DEF useradd, TypeOK
<1>5. CASE sudoers_open(a)
  BY <1>0, <1>5 DEF sudoers_open, TypeOK
<1>6. CASE sudoers_write(a)
  BY <1>0, <1>6 DEF sudoers_write, TypeOK
<1>7. CASE lock_user(a)
  BY <1>0, <1>7 DEF lock_user, TypeOK
<1>8. CASE sshd_open(a)
  BY <1>0, <1>8 DEF sshd_open, TypeOK
<1>9. CASE sshd_write(a)
  BY <1>0, <1>9 DEF sshd_write, TypeOK
<1>10. CASE sshd_append(a)
  BY <1>0, <1>10 DEF sshd_append, TypeOK
<1>11. CASE no_ssh_keys(a)
  BY <1>0, <1>11 DEF no_ssh_keys, TypeOK
<1>12. CASE ssh_keys_open(a)
  BY <1>0, <1>12 DEF ssh_keys_open, TypeOK
<1>13. CASE ssh_keys_write(a)
  BY <1>0, <1>13 DEF ssh_keys_write, TypeOK
<1>14. CASE mark_provisioning_complete(a)
  BY <1>0, <1>14 DEF mark_provisioning_complete, TypeOK
<1> QED BY <1>1, <1>2, <1>3, <1>4, <1>5, <1>6, <1>7, <1>8,
           <1>9, <1>10, <1>11, <1>12, <1>13, <1>14 DEF Provision

(* A step of Provision keeps the invariant. *)
LEMMA ProvisionInv ==
    ASSUME IInv, NEW a \in Agent, Provision(a)
    PROVE  IInv'
<1>0. TypeOK /\ AgentInv(a) /\ MarkedIsProvisioned /\ KvpInv
  BY DEF IInv
<1>1. TypeOK'
  BY <1>0, TypeProvision
<1>2. pc[a] \in Working /\ UNCHANGED <<vm, kvp, kvpFresh, kvpOn, id, todo>>
  BY <1>0, ProvisionMoves
<1>3. MarkedIsProvisioned'
  <2>1. CASE mark_provisioning_complete(a)
    <3>1. /\ UNCHANGED <<hostname, accounts, locked, sudoers, authorized, owner>>
          /\ markers' \in {markers, markers \cup {id[a]}}
      BY <2>1 DEF mark_provisioning_complete, userVars, sshVars
    <3>2. Provisioned(vm) /\ id[a] \in {vm, Zero}
      BY <1>0, <2>1 DEF mark_provisioning_complete, AgentInv, HostDone, UserDone, SudoDone,
                        LockDone, KeysDone, Provisioned
    <3>3. \A v \in Vm : Provisioned(v)' <=> Provisioned(v)
      BY <3>1 DEF Provisioned
    <3> QED BY <1>0, <3>1, <3>2, <3>3, ZeroIsNoVm DEF MarkedIsProvisioned
  <2>2. CASE ~mark_provisioning_complete(a)
    <3>1. /\ markers' = markers
          /\ \/ UNCHANGED <<hostname, accounts, locked, sudoers, authorized, owner>>
             \/ owner' = id[a] /\ id[a] \notin markers
      BY <2>2, ProvisionDisk
    <3> QED BY <1>0, <3>1 DEF MarkedIsProvisioned, Provisioned
  <2> QED BY <2>1, <2>2
<1>4. \A b \in Agent : AgentInv(b)'
  BY ProvisionAgent, OneAgent
<1>5. ASSUME NEW c \in Cleaner PROVE CleanerInv(c)'
  <2>1. CleanerInv(c) /\ c \in Proc \ {a}
    BY ProcessesDisjoint DEF IInv
  <2>2. pc'[c] = pc[c] /\ error'[c] = error[c]
    BY <1>0, <2>1, ProvisionMoves
  <2>3. \/ markers' = markers /\ since' = since
        \/ markers' = markers \cup {id[a]} /\ since'[c] = since[c] \cup {id[a]}
    <3>1. CASE mark_provisioning_complete(a)
      BY <3>1 DEF mark_provisioning_complete
    <3> QED BY <3>1, ProvisionDisk
  <2> QED BY <1>2, <2>1, <2>2, <2>3 DEF CleanerInv
<1>6. KvpInv'
  <2>1. \A b \in Agent : pc[b] \notin {"post_ready", "exited"}
    BY <1>2, OneAgent DEF Working, HostDone, UserDone, SudoDone, LockDone, KeysDone
  <2> QED BY <1>0, <1>2, <2>1 DEF KvpInv
<1> QED BY <1>1, <1>3, <1>4, <1>5, <1>6 DEF IInv

-----------------------------------------------------------------------------
(* The steps of main around it. *)

(* They leave the disk as it is. *)
LEMMA CommonDisk ==
    ASSUME NEW p \in Proc, get_vm_id(p) \/ Common(p)
    PROVE  UNCHANGED <<vm, hostname, accounts, locked, sudoers, authorized, owner, markers,
                       todo, since, md>>
BY DEF get_vm_id, Common, load, report_event, report_post, platformVars, diskVars, userVars,
       sshVars, kvpVars, cleanVars, boundVars

LEMMA CommonOthers ==
    ASSUME TypeOK, NEW p \in Proc, get_vm_id(p) \/ Common(p), NEW q \in Proc \ {p}
    PROVE  pc'[q] = pc[q] /\ id'[q] = id[q] /\ error'[q] = error[q] /\ kvpOn'[q] = kvpOn[q]
BY DEF get_vm_id, Common, load, report_event, report_post, Works, Fails, Goto, TypeOK

LEMMA CommonAgent ==
    ASSUME IInv, NEW a \in Agent, get_vm_id(a) \/ Common(a)
    PROVE  AgentInv(a)'
<1> USE DEF HostDone, UserDone, SudoDone, LockDone, KeysDone, AgentLabel, Failing
<1>0. AgentInv(a) /\ TypeOK /\ a \notin Cleaner
  BY ProcessesDisjoint DEF IInv
<1>1. UNCHANGED <<vm, hostname, accounts, locked, sudoers, authorized, owner, markers, md>>
  BY CommonDisk
<1>2. CASE get_vm_id(a)
  BY <1>0, <1>1, <1>2 DEF get_vm_id, Goto, AgentInv, TypeOK
<1>3. CASE load(a)
  BY <1>0, <1>1, <1>3 DEF load, Works, Fails, Goto, AgentInv, TypeOK
<1>4. CASE report_event(a)
  BY <1>0, <1>1, <1>4 DEF report_event, Works, Goto, AgentInv, TypeOK
<1>5. CASE report_post(a)
  BY <1>0, <1>1, <1>5 DEF report_post, Works, Goto, AgentInv, TypeOK
<1> QED BY <1>2, <1>3, <1>4, <1>5 DEF Common

LEMMA CommonCleaner ==
    ASSUME IInv, NEW c \in Cleaner, get_vm_id(c) \/ Common(c)
    PROVE  CleanerInv(c)'
<1> USE DEF Failing
<1>0. CleanerInv(c) /\ TypeOK
  BY DEF IInv
<1>1. UNCHANGED <<markers, todo, since>>
  BY CommonDisk
<1>2. CASE get_vm_id(c)
  BY <1>0, <1>1, <1>2 DEF get_vm_id, Goto, CleanerInv, TypeOK
<1>3. CASE load(c)
  BY <1>0, <1>1, <1>3 DEF load, Works, Fails, Goto, CleanerInv, TypeOK
<1>4. CASE report_event(c)
  BY <1>0, <1>1, <1>4 DEF report_event, Works, Goto, CleanerInv, TypeOK
<1>5. CASE report_post(c)
  BY <1>0, <1>1, <1>5 DEF report_post, Works, Goto, CleanerInv, TypeOK
<1> QED BY <1>2, <1>3, <1>4, <1>5 DEF Common

LEMMA CommonKvp ==
    ASSUME IInv, NEW p \in Proc, get_vm_id(p) \/ Common(p)
    PROVE  KvpInv'
<1> USE DEF HostDone, UserDone, SudoDone, LockDone, KeysDone, AgentLabel, Failing
<1>0. TypeOK /\ KvpInv /\ (p \in Agent => AgentInv(p)) /\ (p \in Cleaner => CleanerInv(p))
  BY DEF IInv
<1>1. Provisioned(vm)' <=> Provisioned(vm)
  BY CommonDisk DEF Provisioned
<1>2. \A b \in Agent : pc[b] \in {"post_ready", "exited"} =>
            pc'[b] \in {"post_ready", "exited"} \/ pc'[b] = pc[b]
  <2> TAKE b \in Agent
  <2>1. CASE b # p
    BY <1>0, <2>1, CommonOthers
  <2>2. CASE b = p
    BY <1>0, <2>2 DEF get_vm_id, Common, load, report_event, report_post, Works, Goto, TypeOK
  <2> QED BY <2>1, <2>2
<1>3. CASE get_vm_id(p)
  BY <1>0, <1>1, <1>2, <1>3 DEF get_vm_id, KvpInv, kvpVars
<1>4. CASE load(p)
  <2>1. \A q \in Proc : kvpOn'[q] => kvpFresh'
    BY <1>0, <1>4 DEF load, KvpInv, kvpVars, TypeOK
  <2>2. kvpFresh' /\ kvp' = "ready" => kvpFresh /\ kvp = "ready"
    BY <1>4 DEF load, kvpVars
  <2> QED BY <1>0, <1>1, <1>2, <2>1, <2>2 DEF KvpInv
<1>5. CASE report_event(p)
  <2>1. CASE UNCHANGED kvpVars
    BY <1>0, <1>1, <1>2, <1>5, <2>1 DEF report_event, KvpInv, kvpVars
  <2>2. CASE kvp' = Outcome(p) /\ kvpFresh' = TRUE
    <3>1. CASE pc[p] = "failure"
      BY <1>0, <1>5, <2>2, <3>1 DEF report_event, Outcome, KvpInv
    <3>2. CASE pc[p] = "ready"
      <4>1. p \in Agent
        BY <1>0, <3>2 DEF CleanerInv
      <4>2. Provisioned(vm)
        BY <1>0, <3>2, <4>1 DEF AgentInv, Provisioned
      <4>3. pc'[p] = "post_ready"
        BY <1>0, <1>5, <3>2 DEF report_event, Works, Goto, TypeOK
      <4> QED BY <1>1, <1>5, <2>2, <4>1, <4>2, <4>3 DEF report_event, KvpInv
    <3> QED BY <1>5, <3>1, <3>2 DEF report_event
  <2> QED BY <1>5, <2>1, <2>2 DEF report_event
<1>6. CASE report_post(p)
  BY <1>0, <1>1, <1>2, <1>6 DEF report_post, KvpInv, kvpVars
<1> QED BY <1>3, <1>4, <1>5, <1>6 DEF Common

(* A step of main around Provision keeps the invariant. *)
LEMMA CommonInv ==
    ASSUME IInv, NEW p \in Proc, get_vm_id(p) \/ Common(p)
    PROVE  IInv'
<1>0. TypeOK BY DEF IInv
<1>1. TypeOK'
  BY <1>0, TypeCommon
<1>2. MarkedIsProvisioned'
  BY CommonDisk DEF IInv, MarkedIsProvisioned, Provisioned
<1>3. ASSUME NEW a \in Agent PROVE AgentInv(a)'
  <2>1. CASE a = p
    BY <2>1, CommonAgent
  <2>2. CASE a # p
    <3>1. AgentInv(a) BY DEF IInv
    <3> QED BY <1>0, <2>2, <3>1, CommonDisk, CommonOthers DEF AgentInv
  <2> QED BY <2>1, <2>2
<1>4. ASSUME NEW c \in Cleaner PROVE CleanerInv(c)'
  <2>1. CASE c = p
    BY <2>1, CommonCleaner
  <2>2. CASE c # p
    <3>1. CleanerInv(c) BY DEF IInv
    <3> QED BY <1>0, <2>2, <3>1, CommonDisk, CommonOthers DEF CleanerInv
  <2> QED BY <2>1, <2>2
<1> QED BY <1>1, <1>2, <1>3, <1>4, CommonKvp DEF IInv

-----------------------------------------------------------------------------
(* clean, and the machine. *)

(* A step of clean changes nothing but its own state, and removes markers. *)
LEMMA CleanChanges ==
    ASSUME TypeOK, NEW c \in Cleaner, Clean(c)
    PROVE  /\ UNCHANGED <<vm, health, hostname, accounts, locked, sudoers, authorized, owner,
                          kvp, kvpFresh, id, md, kvpOn>>
           /\ markers' \subseteq markers
           /\ \A p \in Proc \ {c} : pc'[p] = pc[p] /\ error'[p] = error[p]
           /\ \A b \in Cleaner \ {c} : todo'[b] = todo[b] /\ since'[b] = since[b]
<1> USE DEF platformVars, diskVars, userVars, sshVars, kvpVars, cleanVars, boundVars
<1> USE DEF Works, CleanFails, Goto, TypeOK
<1>1. CASE clean_list(c) BY <1>1 DEF clean_list
<1>2. CASE clean_remove(c) BY <1>2 DEF clean_remove
<1>3. CASE clean_end(c) BY <1>3 DEF clean_end
<1> QED BY <1>1, <1>2, <1>3 DEF Clean

LEMMA CleanCleaner ==
    ASSUME IInv, NEW c \in Cleaner, Clean(c)
    PROVE  CleanerInv(c)'
<1> USE DEF diskVars, cleanVars, Failing, Works, CleanFails, Goto, CleanerInv
<1>0. CleanerInv(c) /\ TypeOK BY DEF IInv
<1>1. CASE clean_list(c) BY <1>0, <1>1 DEF clean_list, TypeOK
<1>2. CASE clean_remove(c) BY <1>0, <1>2 DEF clean_remove, TypeOK
<1>3. CASE clean_end(c) BY <1>0, <1>3 DEF clean_end, TypeOK
<1> QED BY <1>1, <1>2, <1>3 DEF Clean

(* A step of clean keeps the invariant. *)
LEMMA CleanInv ==
    ASSUME IInv, NEW c \in Cleaner, Clean(c)
    PROVE  IInv'
<1>0. TypeOK BY DEF IInv
<1>1. TypeOK'
  BY <1>0, TypeClean
<1>2. /\ UNCHANGED <<vm, hostname, accounts, locked, sudoers, authorized, owner,
                     kvp, kvpFresh, id, md, kvpOn>>
      /\ markers' \subseteq markers
      /\ \A p \in Proc \ {c} : pc'[p] = pc[p] /\ error'[p] = error[p]
      /\ \A b \in Cleaner \ {c} : todo'[b] = todo[b] /\ since'[b] = since[b]
  BY <1>0, CleanChanges
<1>3. MarkedIsProvisioned'
  BY <1>2 DEF IInv, MarkedIsProvisioned, Provisioned
<1>4. \A a \in Agent : a \in Proc \ {c}
  BY ProcessesDisjoint
<1>5. ASSUME NEW a \in Agent PROVE AgentInv(a)'
  <2>1. AgentInv(a) BY DEF IInv
  <2> QED BY <1>2, <1>4, <2>1 DEF AgentInv
<1>6. ASSUME NEW b \in Cleaner PROVE CleanerInv(b)'
  <2>1. CASE b # c
    <3>1. CleanerInv(b) BY DEF IInv
    <3> QED BY <1>2, <2>1, <3>1 DEF CleanerInv
  <2> QED BY <2>1, CleanCleaner
<1>7. KvpInv'
  <2>1. KvpInv BY DEF IInv
  <2>2. Provisioned(vm)' <=> Provisioned(vm) BY <1>2 DEF Provisioned
  <2> QED BY <1>2, <1>4, <2>1, <2>2 DEF KvpInv
<1> QED BY <1>1, <1>3, <1>5, <1>6, <1>7 DEF IInv

(* Reboots, crashes and moves keep the invariant: no process is left. *)
LEMMA MachineInv ==
    ASSUME IInv, Reboot \/ Crash \/ Move
    PROVE  IInv'
<1> USE DEF Halt, diskVars, userVars, sshVars
<1>0. TypeOK /\ MarkedIsProvisioned BY DEF IInv
<1>1. Halt BY DEF Reboot, Crash, Move
<1>2. TypeOK' BY <1>0, TypeMachine
<1>3. MarkedIsProvisioned'
  BY <1>0, <1>1 DEF MarkedIsProvisioned, Provisioned
<1>4. ASSUME NEW a \in Agent PROVE AgentInv(a)'
  BY <1>1 DEF AgentInv, HostDone, UserDone, SudoDone, LockDone, KeysDone, Failing
<1>5. ASSUME NEW c \in Cleaner PROVE CleanerInv(c)'
  BY <1>1 DEF CleanerInv, Failing
<1>6. KvpInv' BY <1>1 DEF KvpInv
<1> QED BY <1>2, <1>3, <1>4, <1>5, <1>6 DEF IInv

-----------------------------------------------------------------------------
(* The invariant and what follows from it. *)

LEMMA InitInv == Init => IInv
<1> SUFFICES ASSUME Init PROVE IInv OBVIOUS
<1>1. TypeOK BY TypeInit
<1>2. MarkedIsProvisioned BY DEF Init, MarkedIsProvisioned
<1>3. ASSUME NEW a \in Agent PROVE AgentInv(a)
  BY DEF Init, AgentInv, HostDone, UserDone, SudoDone, LockDone, KeysDone, Failing
<1>4. ASSUME NEW c \in Cleaner PROVE CleanerInv(c)
  BY DEF Init, CleanerInv, Failing
<1>5. KvpInv BY DEF Init, KvpInv
<1> QED BY <1>1, <1>2, <1>3, <1>4, <1>5 DEF IInv

LEMMA StutterInv ==
    ASSUME IInv, UNCHANGED vars
    PROVE  IInv'
<1> USE DEF vars, platformVars, diskVars, userVars, sshVars, kvpVars, cleanVars, boundVars
<1>1. TypeOK' BY TypeNext
<1>2. MarkedIsProvisioned' BY DEF IInv, MarkedIsProvisioned, Provisioned
<1>3. ASSUME NEW a \in Agent PROVE AgentInv(a)'
  <2>1. AgentInv(a) BY DEF IInv
  <2> QED BY <2>1 DEF AgentInv
<1>4. ASSUME NEW c \in Cleaner PROVE CleanerInv(c)'
  <2>1. CleanerInv(c) BY DEF IInv
  <2> QED BY <2>1 DEF CleanerInv
<1>5. KvpInv' BY DEF IInv, KvpInv, Provisioned
<1> QED BY <1>1, <1>2, <1>3, <1>4, <1>5 DEF IInv

LEMMA NextInv ==
    ASSUME IInv, [Next]_vars
    PROVE  IInv'
BY StutterInv, ProvisionInv, CommonInv, CleanInv, MachineInv DEF Next

(* IInv holds in every state the program can be in. *)
THEOREM InductiveInvariant == Spec => []IInv
BY InitInv, NextInv, PTL DEF Spec

(* Every variable keeps its type. *)
THEOREM TypeCorrect == Spec => []TypeOK
<1>1. IInv => TypeOK BY DEF IInv
<1> QED BY <1>1, InductiveInvariant, PTL

(* The marker stands for a host that is provisioned for its VM, as long as *)
(* no run for another id has written to the disk.                          *)
THEOREM MarkerIsTrue == Spec => []MarkedIsProvisioned
<1>1. IInv => MarkedIsProvisioned BY DEF IInv
<1> QED BY <1>1, InductiveInvariant, PTL

(* A run about to report Ready has provisioned the VM it is on. *)
THEOREM ReadyIsTrue == Spec => []ReadyIsProvisioned
<1>1. ASSUME IInv PROVE ReadyIsProvisioned
  <2>1. ASSUME NEW a \in Agent, pc[a] \in {"ready", "post_ready"}
        PROVE  md[a] = vm /\ Provisioned(vm)
    <3>1. AgentInv(a) BY <1>1 DEF IInv
    <3> QED BY <2>1, <3>1 DEF AgentInv, HostDone, UserDone, SudoDone, LockDone, KeysDone,
                              Provisioned
  <2> QED BY <2>1 DEF ReadyIsProvisioned
<1> QED BY <1>1, InductiveInvariant, PTL

(* What the host reads in the KVP pool after a run with telemetry is not a *)
(* success of another boot or of another VM.                               *)
THEOREM KvpReportIsTrue == Spec => []KvpReadyIsTrue
<1>1. ASSUME IInv PROVE KvpReadyIsTrue
  BY <1>1 DEF IInv, KvpInv, KvpReadyIsTrue
<1> QED BY <1>1, InductiveInvariant, PTL

(* A clean that succeeds leaves only markers made while it ran. *)
THEOREM CleanIsComplete == Spec => []CleanRemovesMarkers
<1>1. ASSUME IInv PROVE CleanRemovesMarkers
  BY <1>1 DEF IInv, CleanerInv, CleanRemovesMarkers
<1> QED BY <1>1, InductiveInvariant, PTL

(* A report is the only step that changes what the platform was told. *)
LEMMA OnlyReportsTell ==
    ASSUME IInv, [Next]_vars, NEW v \in Vm, health[v] = "ready", health'[v] = "failed"
    PROVE  \E p \in Proc : pc[p] = "post_failure" /\ vm = v
<1>0. TypeOK BY DEF IInv
<1>1. health' # health OBVIOUS
<1>2. PICK p \in Proc : report_post(p)
  <2>1. CASE UNCHANGED vars
    BY <1>1, <2>1 DEF vars, platformVars
  <2>2. ASSUME NEW p \in Proc, get_vm_id(p) \/ load(p) \/ report_event(p) PROVE FALSE
    BY <1>1, <2>2 DEF get_vm_id, load, report_event, platformVars
  <2>3. ASSUME NEW a \in Agent, Provision(a) PROVE FALSE
    BY <1>0, <1>1, <2>3, ProvisionMoves
  <2>4. ASSUME NEW c \in Cleaner, Clean(c) PROVE FALSE
    BY <1>0, <1>1, <2>4, CleanChanges
  <2>5. CASE Reboot \/ Crash \/ Move
    BY <1>1, <2>5 DEF Reboot, Crash, Move, Halt
  <2> QED BY <2>1, <2>2, <2>3, <2>4, <2>5 DEF Next, Common
<1>3. health' = [health EXCEPT ![vm] = Outcome(p)] /\ pc[p] \in {"post_ready", "post_failure"}
  BY <1>1, <1>2 DEF report_post
<1>4. vm = v /\ Outcome(p) = "failed"
  BY <1>0, <1>3 DEF TypeOK
<1> QED BY <1>3, <1>4 DEF Outcome

(* A Ready the platform has is not taken back while the marker stands,     *)
(* but by a run without a configuration or a VM id.                        *)
THEOREM ReadyIsNotTakenBack == Spec => ReadyStays
<1>1. ASSUME IInv, [Next]_vars, NEW v \in Vm, health[v] = "ready", health'[v] = "failed"
      PROVE  \/ v \notin markers
             \/ \E p \in Proc : /\ pc[p] = "post_failure"
                                /\ error[p] = "LoadSshdConfig" \/ id[p] = Zero
  <2>1. PICK p \in Proc : pc[p] = "post_failure" /\ vm = v
    BY <1>1, OnlyReportsTell
  <2>2. CASE p \in Cleaner
    BY <1>1, <2>1, <2>2 DEF IInv, CleanerInv, Failing
  <2>3. CASE p \in Agent
    <3>1. AgentInv(p) BY <1>1, <2>3 DEF IInv
    <3> QED BY <2>1, <3>1 DEF AgentInv, Failing
  <2> QED BY <2>2, <2>3
<1>2. IInv /\ [Next]_vars =>
          [\A v \in Vm : health[v] = "ready" /\ health'[v] = "failed" =>
              \/ v \notin markers
              \/ \E p \in Proc : /\ pc[p] = "post_failure"
                                 /\ error[p] = "LoadSshdConfig" \/ id[p] = Zero]_vars
  BY <1>1
<1> QED BY <1>2, InductiveInvariant, PTL DEF Spec, ReadyStays

-----------------------------------------------------------------------------
(* The sshd file. *)

(* When all active lines agree, sshd obeys what they say. *)
LEMMA AgreedIsObeyed ==
    ASSUME NEW file \in Seq(Line), LinesAgree(file), NEW v \in Vm
    PROVE  Effective(file) = Setting(Meta[v].disable)
<1> DEFINE A == Active(file)
<1>1. A \subseteq Nat /\ A # {} BY DEF LinesAgree, Active
<1> HIDE DEF A
<1>2. PICK i \in A : \A j \in A : ~(<<j, i>> \in OpToRel(<, Nat))
  BY <1>1, NatLessThanWellFounded, WFMin, Zenon
<1>3. \A j \in A : ~(j < i) BY <1>1, <1>2 DEF OpToRel
<1>4. \A j \in A : i <= j BY <1>1, <1>3
<1> DEFINE first == CHOOSE k \in A : \A j \in A : k <= j
<1>5. first \in A BY <1>4
<1>6. Effective(file) = file[first].set BY <1>1 DEF A, Effective, LinesAgree
<1> QED BY <1>5, <1>6 DEF LinesAgree, A

LEMMA GluedShape ==
    ASSUME NEW last, NEW eol
    PROVE  /\ Glued(last, eol).kind = IF last.kind = "marked" THEN "marked" ELSE "glued"
           /\ Glued(last, eol).set = last.set
BY DEF Glued

LEMMA CutLineShape ==
    ASSUME NEW old, NEW line \in CutLine(old)
    PROVE  \/ line = BrokenLine
           \/ line.kind = old.kind /\ line.set = old.set /\ line.eol = FALSE
           \/ line.kind = "plain" /\ line.eol = FALSE
<1>1. \/ line = [kind |-> old.kind, set |-> old.set, eol |-> FALSE]
      \/ line = BrokenLine
      \/ line \in (IF old.kind = "marked"
                  THEN {[kind |-> "plain", set |-> old.set, eol |-> FALSE]} ELSE {})
  BY Zenon DEF CutLine
<1>2. ASSUME line \in (IF old.kind = "marked"
                  THEN {[kind |-> "plain", set |-> old.set, eol |-> FALSE]} ELSE {})
      PROVE  line = [kind |-> "plain", set |-> old.set, eol |-> FALSE]
  BY <1>2, Zenon
<1> QED BY <1>1, <1>2

(* What Written makes of each line of the file. *)
LEMMA WrittenShape ==
    ASSUME NEW file \in Seq(Line), NEW line \in Line
    PROVE  LET new == Written(file, line)
               n   == Len(file)
           IN  \/ /\ ~Unended(file) /\ Len(new) = n + 1 /\ DOMAIN new = 1..(n + 1)
                  /\ new[n + 1] = line /\ \A i \in 1..n : new[i] = file[i]
               \/ /\ Unended(file) /\ n \in 1..n /\ Len(new) = n /\ DOMAIN new = 1..n
                  /\ new[n].kind = IF file[n].kind = "marked" THEN "marked" ELSE "glued"
                  /\ new[n].set = file[n].set
                  /\ \A i \in 1..n : i # n => new[i] = file[i]
<1>1. Len(file) \in Nat /\ DOMAIN file = 1..Len(file) OBVIOUS
<1>2. CASE ~Unended(file)
  <2> DEFINE new == Append(file, line)
  <2>1. Written(file, line) = new BY <1>2 DEF Written
  <2>2. /\ Len(new) = Len(file) + 1 /\ DOMAIN new = 1..(Len(file) + 1)
        /\ new[Len(file) + 1] = line /\ \A i \in 1..Len(file) : new[i] = file[i]
    BY <1>1
  <2> HIDE DEF new
  <2> QED BY <1>2, <2>1, <2>2
<1>3. CASE Unended(file)
  <2> DEFINE glued == Glued(file[Len(file)], line.eol)
  <2>1. Len(file) \in 1..Len(file) BY <1>1, <1>3 DEF Unended
  <2> HIDE DEF glued
  <2> DEFINE new == [file EXCEPT ![Len(file)] = glued]
  <2>2. Written(file, line) = new BY <1>3 DEF Written, glued
  <2>3. /\ DOMAIN new = DOMAIN file /\ new[Len(file)] = glued
        /\ \A i \in DOMAIN file : i # Len(file) => new[i] = file[i]
    BY <1>1, <2>1
  <2>6. /\ glued.kind = IF file[Len(file)].kind = "marked" THEN "marked" ELSE "glued"
        /\ glued.set = file[Len(file)].set
    BY GluedShape DEF glued
  <2>4. new \in Seq(Line) BY <2>2, WrittenType
  <2> HIDE DEF new
  <2>5. Len(new) = Len(file) BY <1>1, <2>3, <2>4
  <2> QED BY <1>1, <1>3, <2>1, <2>2, <2>3, <2>5, <2>6
<1> QED BY <1>2, <1>3

(* A file that is appended to: azure-init's own lines in it agree as those *)
(* before did, and a broken line is again the last, if it is one at all.   *)
LEMMA WrittenKeeps ==
    ASSUME NEW file \in Seq(Line), OldLinesAgree(file), BrokenIsLast(file), ~HasMatch(file),
           NEW line \in Line, line.kind = "broken" => ~line.eol,
           line.kind = "marked" => \A v \in Vm : line.set = Setting(Meta[v].disable)
    PROVE  OldLinesAgree(Written(file, line)) /\ BrokenIsLast(Written(file, line))
<1> DEFINE new == Written(file, line)
           n   == Len(file)
<1>1. n \in Nat /\ DOMAIN file = 1..n OBVIOUS
<1>2. CASE /\ ~Unended(file) /\ Len(new) = n + 1 /\ DOMAIN new = 1..(n + 1)
           /\ new[n + 1] = line /\ \A i \in 1..n : new[i] = file[i]
  <2> HIDE DEF new
  <2>1. \A i \in 1..n : file[i].kind # "broken" BY <1>1, <1>2 DEF BrokenIsLast, Unended
  <2>2. \A i \in DOMAIN new : i \in 1..n \/ i = n + 1 BY <1>1, <1>2
  <2>3. OldLinesAgree(new) BY <1>1, <1>2, <2>2 DEF OldLinesAgree
  <2>4. ASSUME NEW i \in DOMAIN new, new[i].kind = "broken"
        PROVE  i = Len(new) /\ ~new[i].eol /\ ~HasMatch(new)
    <3>1. i = n + 1 BY <1>2, <2>1, <2>2, <2>4
    <3>2. ~HasMatch(new) BY <1>1, <1>2, <2>2, <2>4, <3>1 DEF HasMatch, Matched
    <3> QED BY <1>2, <2>4, <3>1, <3>2
  <2> QED BY <2>3, <2>4 DEF BrokenIsLast, new
<1>3. CASE /\ Unended(file) /\ n \in 1..n /\ Len(new) = n /\ DOMAIN new = 1..n
           /\ new[n].kind = IF file[n].kind = "marked" THEN "marked" ELSE "glued"
           /\ new[n].set = file[n].set
           /\ \A i \in 1..n : i # n => new[i] = file[i]
  <2> HIDE DEF new
  <2>1. OldLinesAgree(new) BY <1>1, <1>3 DEF OldLinesAgree
  <2>2. \A i \in DOMAIN new : new[i].kind # "broken" BY <1>1, <1>3 DEF BrokenIsLast
  <2> QED BY <2>1, <2>2 DEF BrokenIsLast, new
<1> QED BY <1>2, <1>3, WrittenShape

(* An append that works settles the file. *)
LEMMA AppendedSettles ==
    ASSUME OneSetting, NEW m \in Vm, NEW file \in Seq(Line),
           OldLinesAgree(file), BrokenIsLast(file), ~HasMatch(file)
    PROVE  SettledFile(Appended(file, Setting(Meta[m].disable)))
<1> DEFINE set  == Setting(Meta[m].disable)
           line == Marked(set)
           new  == Written(file, line)
           n    == Len(file)
<1>1. \A v \in Vm : set = Setting(Meta[v].disable) BY DEF OneSetting
<1>2. /\ line \in Line /\ line.kind = "marked" /\ line.set = set /\ line.eol = TRUE
      /\ n \in Nat /\ DOMAIN file = 1..n
  BY DEF Marked, Line, Setting
<1> SUFFICES SettledFile(new) BY DEF Appended
<1> HIDE DEF set, line
<1>3. OldLinesAgree(new) /\ BrokenIsLast(new) BY <1>1, <1>2, WrittenKeeps
<1>4. CASE /\ ~Unended(file) /\ Len(new) = n + 1 /\ DOMAIN new = 1..(n + 1)
           /\ new[n + 1] = line /\ \A i \in 1..n : new[i] = file[i]
  <2> HIDE DEF new
  <2>1. n + 1 \in Active(new) BY <1>2, <1>4 DEF Active
  <2>2. ~HasBroken(new) BY <1>2, <1>3, <1>4 DEF HasBroken, BrokenIsLast
  <2>3. ASSUME NEW i \in Active(new) PROVE new[i].kind = "marked"
    <3>1. i \in 1..n \/ i = n + 1 BY <1>2, <1>4 DEF Active
    <3> QED BY <1>2, <1>4, <3>1 DEF Active, HasMatch, Matched
  <2> QED BY <1>3, <2>1, <2>2, <2>3 DEF SettledFile, LinesAgree, OldLinesAgree, Active
<1>5. CASE /\ Unended(file) /\ n \in 1..n /\ Len(new) = n /\ DOMAIN new = 1..n
           /\ new[n].kind = IF file[n].kind = "marked" THEN "marked" ELSE "glued"
           /\ new[n].set = file[n].set
           /\ \A i \in 1..n : i # n => new[i] = file[i]
  <2> HIDE DEF new
  <2>1. CASE file[n].kind # "marked"
    <3>1. new[n].kind = "glued" BY <1>5, <2>1
    <3> QED BY <1>5, <3>1 DEF SettledFile, HasGlued
  <2>2. CASE file[n].kind = "marked"
    <3>1. new[n].kind = "marked" BY <1>5, <2>2
    <3>2. ~HasBroken(new) BY <1>3, <1>5, <3>1 DEF HasBroken, BrokenIsLast
    <3>3. ASSUME NEW i \in Active(new) PROVE new[i].kind = "marked"
      BY <1>2, <1>5, <3>1, <3>3 DEF Active, HasMatch, Matched
    <3>4. n \in Active(new) BY <1>5, <3>1 DEF Active
    <3> QED BY <1>3, <3>2, <3>3, <3>4 DEF SettledFile, LinesAgree, OldLinesAgree, Active
  <2> QED BY <2>1, <2>2
<1> QED BY <1>2, <1>4, <1>5, WrittenShape

(* What a failed append leaves. *)
LEMMA AppendCutsAreSafe ==
    ASSUME OneSetting, NEW m \in Vm, NEW file \in Seq(Line),
           OldLinesAgree(file), BrokenIsLast(file), ~HasMatch(file),
           NEW cut \in AppendCuts(file, Setting(Meta[m].disable))
    PROVE  OldLinesAgree(cut) /\ BrokenIsLast(cut)
<1> DEFINE set == Setting(Meta[m].disable)
<1>1. \A v \in Vm : set = Setting(Meta[v].disable) BY DEF OneSetting
<1>2. set \in {"yes", "no"} BY DEF Setting
<1> HIDE DEF set
<1>3. Marked(set) \in Line /\ Marked(set).kind = "marked" /\ Marked(set).set = set
  BY <1>2 DEF Marked, Line
<1>4. ASSUME NEW line \in CutLine(Marked(set))
      PROVE  /\ line \in Line /\ ~line.eol
             /\ line.kind = "marked" => line.set = set
  <2>1. \/ line.kind = "marked" /\ line.set = set /\ ~line.eol
        \/ line.kind = "plain" /\ ~line.eol
        \/ line = BrokenLine
    BY <1>3, CutLineShape
  <2> QED BY <1>3, <2>1, CutLineType DEF BrokenLine
<1>5. cut = file \/ \E line \in CutLine(Marked(set)) : cut = Written(file, line)
  BY Zenon DEF AppendCuts, set
<1> QED BY <1>1, <1>4, <1>5, WrittenKeeps

(* A file that is written anew, and what a failed write leaves of it. *)
LEMMA NewFileSettles ==
    ASSUME OneSetting, NEW m \in Vm
    PROVE  LET file == <<Plain(Setting(Meta[m].disable))>> IN
           SettledFile(file) /\ CutsAreSafe(file)
<1> DEFINE set == Setting(Meta[m].disable)
           new == <<Plain(set)>>
<1>1. \A v \in Vm : set = Setting(Meta[v].disable) BY DEF OneSetting
<1> HIDE DEF set
<1>2. DOMAIN new = {1} /\ new[1].set = set /\ new[1].kind = "plain" /\ Len(new) = 1
  BY DEF Plain
<1> HIDE DEF new
<1>3. Active(new) = {1} /\ ~HasBroken(new) BY <1>2 DEF Active, HasBroken
<1>4. CutsAreSafe(new) BY <1>2, <1>3 DEF CutsAreSafe, OldLinesAgree
<1> QED BY <1>1, <1>2, <1>3, <1>4 DEF SettledFile, LinesAgree, new, set

LEMMA ReplacedSettles ==
    ASSUME OneSetting, NEW m \in Vm, NEW file \in Seq(Line),
           OldLinesAgree(file), BrokenIsLast(file), HasMatch(file)
    PROVE  LET new == Replaced(file, Setting(Meta[m].disable)) IN
           SettledFile(new) /\ CutsAreSafe(new)
<1> DEFINE set == Setting(Meta[m].disable)
           new == Replaced(file, set)
<1>1. \A v \in Vm : set = Setting(Meta[v].disable) BY DEF OneSetting
<1> HIDE DEF set
<1>2. /\ DOMAIN new = DOMAIN file
      /\ \A i \in DOMAIN file : new[i] = IF Matched(file[i]) THEN Marked(set) ELSE file[i]
      /\ Marked(set).kind = "marked" /\ Marked(set).set = set
  BY DEF Replaced, Marked
<1> HIDE DEF new
<1>3. Active(new) # {} BY <1>2 DEF HasMatch, Active
<1>4. ASSUME NEW i \in DOMAIN file
      PROVE  ~Matched(new[i]) /\ new[i].kind # "broken"
             /\ (new[i].kind = "marked" => new[i].set = set)
  <2>1. CASE Matched(file[i]) BY <1>2, <2>1 DEF Matched
  <2>2. CASE ~Matched(file[i])
    <3>1. new[i] = file[i] /\ file[i].kind # "broken" BY <1>2, <2>2 DEF BrokenIsLast
    <3>2. file[i].kind = "marked" => file[i].set = set BY <1>1 DEF OldLinesAgree
    <3> QED BY <2>2, <3>1, <3>2
  <2> QED BY <2>1, <2>2
<1>5. ~HasBroken(new) /\ ~HasMatch(new) BY <1>2, <1>4 DEF HasBroken, HasMatch
<1>6. OldLinesAgree(new) BY <1>1, <1>2, <1>4 DEF OldLinesAgree
<1>7. \A i \in Active(new) : new[i].kind = "marked" BY <1>2, <1>4 DEF Active, Matched
<1>8. LinesAgree(new) BY <1>1, <1>2, <1>3, <1>4, <1>5, <1>7 DEF LinesAgree, Active
<1> QED BY <1>5, <1>6, <1>8 DEF CutsAreSafe, SettledFile, new, set

LEMMA CutsKeep ==
    ASSUME NEW file \in Seq(Line), CutsAreSafe(file), NEW cut \in Cuts(file)
    PROVE  OldLinesAgree(cut) /\ BrokenIsLast(cut)
<1>1. Len(file) \in Nat /\ DOMAIN file = 1..Len(file) OBVIOUS
<1>2. ASSUME NEW n \in 0..(Len(file) - 1), cut = SubSeq(file, 1, n)
      PROVE  OldLinesAgree(cut) /\ BrokenIsLast(cut)
  <2>1. DOMAIN cut = 1..n /\ \A i \in 1..n : i \in DOMAIN file /\ cut[i] = file[i]
    BY <1>1, <1>2
  <2> QED BY <2>1 DEF CutsAreSafe, HasBroken, OldLinesAgree, BrokenIsLast
<1>3. ASSUME NEW n \in DOMAIN file, NEW line \in CutLine(file[n]),
             cut = Append(SubSeq(file, 1, n - 1), line)
      PROVE  OldLinesAgree(cut) /\ BrokenIsLast(cut)
  <2>1. /\ n \in 1..Len(file) /\ Len(cut) = n /\ DOMAIN cut = 1..n /\ cut[n] = line
        /\ \A i \in 1..n : i # n => i \in DOMAIN file /\ cut[i] = file[i]
    <3> DEFINE head == SubSeq(file, 1, n - 1)
    <3>1. /\ head \in Seq(Line) /\ Len(head) = n - 1
          /\ \A i \in 1..(n - 1) : i \in DOMAIN file /\ head[i] = file[i]
      BY <1>1
    <3> HIDE DEF head
    <3>2. cut = Append(head, line) BY <1>3 DEF head
    <3>3. line \in Line BY <1>1, CutLineType
    <3> QED BY <1>1, <3>1, <3>2, <3>3
  <2>2. \/ line = BrokenLine
        \/ line.kind = file[n].kind /\ line.set = file[n].set
        \/ line.kind = "plain"
    BY CutLineShape
  <2>3. file[n].kind # "broken" BY DEF CutsAreSafe, HasBroken
  <2>4. line.kind = "marked" => \A v \in Vm : line.set = Setting(Meta[v].disable)
    BY <2>2 DEF BrokenLine, CutsAreSafe, OldLinesAgree
  <2>5. OldLinesAgree(cut) BY <1>1, <2>1, <2>4 DEF CutsAreSafe, OldLinesAgree
  <2>6. ASSUME NEW i \in DOMAIN cut, cut[i].kind = "broken"
        PROVE  i = Len(cut) /\ ~cut[i].eol /\ ~HasMatch(cut)
    <3>1. i = n BY <2>1, <2>6 DEF CutsAreSafe, HasBroken
    <3>2. line = BrokenLine BY <2>1, <2>2, <2>3, <2>6, <3>1
    <3>3. ASSUME NEW j \in DOMAIN cut, Matched(cut[j]) PROVE FALSE
      <4>1. j # n BY <2>1, <3>2, <3>3 DEF Matched, BrokenLine
      <4>2. HasMatch(file) BY <2>1, <3>3, <4>1 DEF HasMatch
      <4>3. Len(file) = 1 BY <4>2 DEF CutsAreSafe
      <4> QED BY <2>1, <4>1, <4>3
    <3> QED BY <2>1, <3>1, <3>2, <3>3 DEF HasMatch, BrokenLine
  <2> QED BY <2>5, <2>6 DEF BrokenIsLast
<1> QED BY <1>2, <1>3, CutCases

(* Where the file has been written. *)
FileDone == KeysDone \cup {"keys", "keys_write"}

(* What the invariant says of a file depends on the file alone. *)
LEMMA SameFile ==
    ASSUME NEW old, NEW new, new = old
    PROVE  /\ OldLinesAgree(old) => OldLinesAgree(new)
           /\ BrokenIsLast(old) => BrokenIsLast(new)
           /\ SettledFile(old) => SettledFile(new)
           /\ CutsAreSafe(old) => CutsAreSafe(new)
OBVIOUS

(* SshdInv from what a step leaves, on the file and in the agent's hands.  *)
LEMMA SshdInvAfter ==
    ASSUME OldLinesAgree(sshd'), BrokenIsLast(sshd'),
           \A v \in Vm : v \in markers' /\ owner' = v => sshdExists' /\ SettledFile(sshd'),
           \A a \in Agent :
              /\ pc'[a] = "sshd_write" =>
                    sshdExists' /\ SettledFile(buf'[a]) /\ CutsAreSafe(buf'[a])
              /\ pc'[a] \in FileDone => sshdExists' /\ SettledFile(sshd')
    PROVE  SshdInv'
BY DEF SshdInv, FileDone, OldLinesAgree, BrokenIsLast, SettledFile, LinesAgree, HasGlued,
       HasBroken, HasMatch, Active, CutsAreSafe

(* A step that leaves the file alone keeps what is known of it, if the     *)
(* agent does not come past its update by it and no marker is made.        *)
LEMMA SshdUntouched ==
    ASSUME SshdInv, UNCHANGED <<sshd, sshdExists, buf>>,
           \A a \in Agent : pc'[a] \in FileDone => pc[a] \in FileDone,
           \A a \in Agent : pc'[a] = "sshd_write" => pc[a] = "sshd_write",
           markers' \subseteq markers, owner' = owner \/ owner' \notin markers
    PROVE  SshdInv'
<1>1. OldLinesAgree(sshd') /\ BrokenIsLast(sshd') BY DEF SshdInv
<1>2. ASSUME NEW v \in Vm, v \in markers', owner' = v
      PROVE  sshdExists' /\ SettledFile(sshd')
  BY <1>2 DEF SshdInv
<1>3. ASSUME NEW a \in Agent
      PROVE  /\ pc'[a] = "sshd_write" =>
                    sshdExists' /\ SettledFile(buf'[a]) /\ CutsAreSafe(buf'[a])
             /\ pc'[a] \in FileDone => sshdExists' /\ SettledFile(sshd')
  BY DEF SshdInv, FileDone
<1> QED BY <1>1, <1>2, <1>3, SshdInvAfter

LEMMA SshdProvision ==
    ASSUME IInv, OneSetting, SshdInv, NEW a \in Agent, Provision(a)
    PROVE  SshdInv'
<1> USE DEF platformVars, diskVars, userVars, sshVars, kvpVars, cleanVars, boundVars
<1> USE DEF Works, Fails, Goto
<1>0. /\ TypeOK /\ AgentInv(a) /\ sshd \in Seq(Line) /\ buf[a] \in Seq(Line)
      /\ vm \in Vm /\ ConfigureSshd /\ \A b \in Agent : b = a
  BY OneAgent DEF IInv, TypeOK, OneSetting
<1>1. CASE mark_provisioning_complete(a)
  <2>1. pc[a] = "mark" /\ pc'[a] \in {"ready", "failure"} /\ UNCHANGED <<sshd, sshdExists, buf>>
    BY <1>0, <1>1 DEF mark_provisioning_complete, TypeOK
  <2>2. sshdExists /\ SettledFile(sshd) BY <2>1 DEF SshdInv, KeysDone
  <2>3. /\ OldLinesAgree(sshd') /\ BrokenIsLast(sshd') /\ sshdExists' /\ SettledFile(sshd')
        /\ pc'[a] # "sshd_write"
    BY <2>1, <2>2 DEF SshdInv
  <2> QED BY <1>0, <2>3, SshdInvAfter
<1>2. CASE sshd_open(a) \/ sshd_write(a) \/ sshd_append(a)
  <2>1. /\ pc[a] \in {"sshd", "sshd_write"} /\ UNCHANGED <<markers, owner>>
        /\ md[a] = vm /\ \A v \in Vm : ~(v \in markers /\ owner = v)
    BY <1>0, <1>2 DEF sshd_open, sshd_write, sshd_append, AgentInv, HostDone, UserDone, SudoDone,
                      LockDone, KeysDone
  <2> DEFINE set == Setting(Meta[vm].disable)
  <2>2. OldLinesAgree(sshd) /\ BrokenIsLast(sshd) BY DEF SshdInv
  <2>3. SUFFICES /\ OldLinesAgree(sshd') /\ BrokenIsLast(sshd')
                 /\ pc'[a] = "sshd_write" =>
                        sshdExists' /\ SettledFile(buf'[a]) /\ CutsAreSafe(buf'[a])
                 /\ pc'[a] \in FileDone => sshdExists' /\ SettledFile(sshd')
    BY <1>0, <2>1, SshdInvAfter
  <2>4. CASE sshd_open(a)
    <3>1. /\ pc[a] = "sshd" /\ pc'[a] \in {"sshd_write", "failure"}
          /\ buf'[a] = IF sshdExists THEN Replaced(sshd, set) ELSE <<Plain(set)>>
          /\ sshd' \in {sshd, <<>>} /\ (pc'[a] = "sshd_write" => sshdExists')
          /\ ~sshdExists \/ HasMatch(sshd)
      BY <1>0, <2>1, <2>4 DEF sshd_open, TypeOK
    <3>2. CASE sshdExists
      <4>1. buf'[a] = Replaced(sshd, set) BY <3>1, <3>2
      <4>2. SettledFile(Replaced(sshd, set)) /\ CutsAreSafe(Replaced(sshd, set))
        BY <1>0, <2>2, <3>1, <3>2, ReplacedSettles
      <4> QED BY <4>1, <4>2, <3>1, <2>2 DEF OldLinesAgree, BrokenIsLast, FileDone, KeysDone
    <3>3. CASE ~sshdExists
      <4>1. buf'[a] = <<Plain(set)>> BY <3>1, <3>3
      <4>2. SettledFile(<<Plain(set)>>) /\ CutsAreSafe(<<Plain(set)>>)
        BY <1>0, NewFileSettles
      <4> QED BY <4>1, <4>2, <3>1, <2>2 DEF OldLinesAgree, BrokenIsLast, FileDone, KeysDone
    <3> QED BY <3>2, <3>3
  <2>5. CASE sshd_write(a)
    <3>1. /\ pc[a] = "sshd_write" /\ sshdExists' = sshdExists
          /\ \/ sshd' = buf[a] /\ pc'[a] = "keys"
             \/ sshd' \in Cuts(buf[a]) /\ pc'[a] = "failure"
      BY <1>0, <2>5 DEF sshd_write, TypeOK
    <3>2. sshdExists /\ SettledFile(buf[a]) /\ CutsAreSafe(buf[a]) BY <3>1 DEF SshdInv
    <3>3. OldLinesAgree(buf[a]) /\ BrokenIsLast(buf[a])
      BY <3>2 DEF CutsAreSafe, HasBroken, BrokenIsLast
    <3>4. sshd' \in Cuts(buf[a]) => OldLinesAgree(sshd') /\ BrokenIsLast(sshd')
      BY <1>0, <3>2, CutsKeep
    <3> QED BY <3>1, <3>2, <3>3, <3>4 DEF FileDone, KeysDone
  <2>6. CASE sshd_append(a)
    <3>1. /\ sshdExists /\ sshdExists' = sshdExists /\ ~HasMatch(sshd)
          /\ \/ sshd' = Appended(sshd, set) /\ pc'[a] = "keys"
             \/ sshd' \in AppendCuts(sshd, set) /\ pc'[a] = "failure"
      BY <1>0, <2>1, <2>6 DEF sshd_append, TypeOK
    <3>2. SettledFile(Appended(sshd, set)) BY <1>0, <2>2, <3>1, AppendedSettles
    <3>3. OldLinesAgree(Appended(sshd, set)) /\ BrokenIsLast(Appended(sshd, set))
      <4>1. \A v \in Vm : set = Setting(Meta[v].disable) BY <1>0 DEF OneSetting
      <4>2. Marked(set) \in Line /\ Marked(set).kind # "broken" /\ Marked(set).set = set
        BY DEF Marked, Line, Setting
      <4> QED BY <1>0, <2>2, <3>1, <4>1, <4>2, WrittenKeeps DEF Appended
    <3>4. sshd' \in AppendCuts(sshd, set) => OldLinesAgree(sshd') /\ BrokenIsLast(sshd')
      BY <1>0, <2>2, <3>1, AppendCutsAreSafe
    <3> QED BY <3>1, <3>2, <3>3, <3>4 DEF FileDone, KeysDone
  <2> QED BY <1>2, <2>4, <2>5, <2>6
<1>3. CASE ~(mark_provisioning_complete(a) \/ sshd_open(a) \/ sshd_write(a) \/ sshd_append(a))
  <2>1. markers' = markers /\ (owner' = owner \/ owner' \notin markers)
    BY <1>3, ProvisionDisk
  <2>2. /\ UNCHANGED <<sshd, sshdExists, buf>>
        /\ pc'[a] \in FileDone => pc[a] \in FileDone
        /\ pc'[a] # "sshd_write"
    <3> USE DEF FileDone, KeysDone, TypeOK
    <3>1. CASE is_provisioning_complete(a) BY <1>0, <3>1 DEF is_provisioning_complete
    <3>2. CASE query(a) BY <1>0, <3>2 DEF query
    <3>3. CASE set_hostname(a) BY <1>0, <3>3 DEF set_hostname
    <3>4. CASE useradd(a) BY <1>0, <3>4 DEF useradd
    <3>5. CASE sudoers_open(a) BY <1>0, <3>5 DEF sudoers_open
    <3>6. CASE sudoers_write(a) BY <1>0, <3>6 DEF sudoers_write
    <3>7. CASE lock_user(a) BY <1>0, <3>7 DEF lock_user
    <3>8. CASE no_ssh_keys(a) BY <1>0, <3>8 DEF no_ssh_keys
    <3>9. CASE ssh_keys_open(a) BY <1>0, <3>9 DEF ssh_keys_open
    <3>10. CASE ssh_keys_write(a) BY <1>0, <3>10 DEF ssh_keys_write
    <3> QED BY <1>3, <3>1, <3>2, <3>3, <3>4, <3>5, <3>6, <3>7, <3>8, <3>9, <3>10 DEF Provision
  <2> QED BY <1>0, <2>1, <2>2, SshdUntouched
<1> QED BY <1>1, <1>2, <1>3

LEMMA SshdStep ==
    ASSUME IInv, OneSetting, SshdInv, [Next]_vars
    PROVE  SshdInv'
<1> USE DEF platformVars, diskVars, userVars, sshVars, kvpVars, cleanVars, boundVars
<1> USE DEF FileDone, KeysDone
<1>0. TypeOK BY DEF IInv
<1>1. ASSUME NEW a \in Agent, Provision(a) PROVE SshdInv'
  BY <1>1, SshdProvision
<1>2. ASSUME NEW p \in Proc, get_vm_id(p) \/ Common(p) PROVE SshdInv'
  <2>1. UNCHANGED <<sshd, sshdExists, buf, markers, owner>>
    BY <1>2 DEF get_vm_id, Common, load, report_event, report_post
  <2>2. \A b \in Agent : /\ pc'[b] \in FileDone => pc[b] \in FileDone
                         /\ pc'[b] = "sshd_write" => pc[b] = "sshd_write"
    <3> TAKE b \in Agent
    <3>1. CASE b # p BY <1>0, <1>2, <3>1, CommonOthers
    <3>2. CASE b = p
      BY <1>0, <1>2, <3>2 DEF get_vm_id, Common, load, report_event, report_post, Works, Fails,
                              Goto, TypeOK
    <3> QED BY <3>1, <3>2
  <2> QED BY <2>1, <2>2, SshdUntouched
<1>3. ASSUME NEW c \in Cleaner, Clean(c) PROVE SshdInv'
  <2>1. UNCHANGED <<sshd, sshdExists, buf>>
    BY <1>3 DEF Clean, clean_list, clean_remove, clean_end
  <2>2. \A b \in Agent : pc'[b] = pc[b] BY <1>0, <1>3, CleanChanges, ProcessesDisjoint
  <2>3. markers' \subseteq markers /\ owner' = owner BY <1>0, <1>3, CleanChanges
  <2> QED BY <2>1, <2>2, <2>3, SshdUntouched
<1>4. CASE Reboot \/ Crash \/ Move
  <2>1. Halt BY <1>4 DEF Reboot, Crash, Move
  <2>2. /\ UNCHANGED <<sshd, sshdExists, markers, owner>>
        /\ \A a \in Agent : pc'[a] = "idle"
    BY <2>1 DEF Halt
  <2>3. OldLinesAgree(sshd') /\ BrokenIsLast(sshd') BY <2>2 DEF SshdInv
  <2>4. \A v \in Vm : v \in markers' /\ owner' = v => sshdExists' /\ SettledFile(sshd')
    BY <2>2 DEF SshdInv
  <2> QED BY <2>2, <2>3, <2>4, SshdInvAfter
<1>5. CASE UNCHANGED vars BY <1>5, SshdUntouched DEF vars
<1> QED BY <1>1, <1>2, <1>3, <1>4, <1>5 DEF Next

(* The marker stands also for the password setting sshd obeys, through     *)
(* failures, crashes, half written files, clones and exchanged disks, as   *)
(* long as every VM asked for the same one, and the lines an azure-init    *)
(* left in the image say it too; but for a file in which a setting was     *)
(* written on behind an unended line.                                      *)
THEOREM MarkerCoversSshd == Spec => []MarkedHasSshd
<1>1. Init => SshdIInv
  <2> SUFFICES ASSUME Init, OneSetting PROVE SshdInv BY DEF SshdIInv
  <2>1. sshd \in InitialSshd BY DEF Init
  <2>2. OldLinesAgree(sshd) /\ BrokenIsLast(sshd)
    BY <2>1, ImageAssumption DEF OneSetting, BrokenIsLast
  <2> QED BY <2>2 DEF Init, SshdInv, KeysDone
<1>2. IInv /\ SshdIInv /\ [Next]_vars => SshdIInv'
  BY SshdStep DEF SshdIInv, OneSetting, OldLinesAgree
<1>3. IInv /\ SshdIInv => MarkedHasSshd
  BY AgreedIsObeyed DEF IInv, TypeOK, SshdIInv, SshdInv, SettledFile, MarkedHasSshd, SshdIs
<1> QED BY <1>1, <1>2, <1>3, InductiveInvariant, PTL DEF Spec
=============================================================================
