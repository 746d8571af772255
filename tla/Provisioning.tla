---------------------------- MODULE Provisioning ----------------------------
(***************************************************************************)
(* The azure-init program (src/main.rs) over boots, crashes and changes of *)
(* the VM its disk belongs to: azure-init.service runs it once per boot,   *)
(* an administrator may run `azure-init clean` beside it.  Provisioning    *)
(* walks through hostname, user, sudoers, password, sshd and SSH keys,     *)
(* does not undo what it did when a step fails, and leaves a marker file   *)
(* named after the VM when all succeeded; the marker is what later boots   *)
(* go by.  Then it reports to the wireserver and to the KVP pool.          *)
(*                                                                         *)
(* An action is one call that leaves something behind: on the disk, in the *)
(* pool or at the wireserver.  A file that is truncated and written takes  *)
(* two, and the one that writes may leave a first part (a crash within it  *)
(* is the same followed by Crash).  The KVP pool is what KvpStore promises of it: one report under    *)
(* PROVISIONING_REPORT, removed by clear_if_stale when an earlier boot     *)
(* wrote it.  No other program writes that pool (KvpStore has those).      *)
(***************************************************************************)
EXTENDS SshdConfig, FiniteSets

CONSTANTS
    Agent,          \* azure-init processes that provision
    Cleaner,        \* azure-init processes run as `azure-init clean`
    Vm,             \* VM ids
    Zero,           \* the id used when the VM id cannot be read
    User, Host, PubKey,
    Meta,           \* what IMDS answers on each VM
    ConfigureSshd,  \* ssh.configure_sshd_password_authentication
    InitialAccounts,
    InitialSshd,    \* contents the sshd file of an image may have
    MaxFaults,      \* bound: steps that fail, crashes
    MaxMoves,       \* bound: changes of VM
    MaxCleans       \* bound: clean commands

Metadata == [user : User, host : Host, disable : BOOLEAN, keys : SUBSET PubKey]

ASSUME ProcessesDisjoint == Agent \cap Cleaner = {}

(* azure-init.service is the one that provisions: nothing in the code keeps *)
(* two agents apart, and systemd does not start a second.                  *)
ASSUME OneAgent == \A a, b \in Agent : a = b

ASSUME ZeroIsNoVm == Zero \notin Vm

ASSUME MetaAssumption == Meta \in [Vm -> Metadata]

ASSUME ImageAssumption ==
    /\ ConfigureSshd \in BOOLEAN
    /\ InitialAccounts \subseteq User
    /\ InitialSshd \subseteq Seq(Line)
    /\ \A file \in InitialSshd : \A i \in DOMAIN file :
            file[i].kind \notin {"broken", "glued"} /\ (i < Len(file) => file[i].eol)

ASSUME LimitsAreNat == MaxFaults \in Nat /\ MaxMoves \in Nat /\ MaxCleans \in Nat

VARIABLES
    \* the platform
    vm,         \* the VM the disk belongs to
    health,     \* the last report the wireserver took from each VM
    \* the disk
    hostname, accounts, locked, sudoers, sshdExists, sshd, authorized,
    markers,    \* ids with a {vm_id}.provisioned file
    \* the KVP pool
    kvp,        \* the PROVISIONING_REPORT in it
    kvpFresh,   \* it was written, or found empty, in this boot
    \* the processes
    pc, id,
    md,         \* the VM whose metadata the run works from
    error, kvpOn,
    buf,        \* the sshd file as it is to be written
    todo,       \* cleaners: markers listed and not yet removed
    since,      \* cleaners: markers made since they listed the directory
    \* bounds and history
    faults, moves, cleans,
    owner       \* the id for which the disk was last written

platformVars == <<vm, health>>
userVars == <<accounts, locked, sudoers>>
sshVars  == <<sshdExists, sshd, authorized>>
diskVars == <<hostname, userVars, sshVars, markers>>
kvpVars  == <<kvp, kvpFresh>>
cleanVars == <<todo, since>>
boundVars == <<moves, cleans>>
vars == <<platformVars, diskVars, kvpVars, pc, id, md, error, kvpOn, buf, cleanVars,
          faults, boundVars, owner>>

Proc == Agent \cup Cleaner
Id   == Vm \cup {Zero}

-----------------------------------------------------------------------------
Init ==
    /\ vm \in Vm /\ health = [v \in Vm |-> "none"]
    /\ hostname \in Host /\ accounts = InitialAccounts
    /\ locked = {} /\ sudoers = {}
    /\ sshd \in InitialSshd /\ sshdExists \in BOOLEAN
    /\ ~sshdExists => sshd = <<>>
    /\ authorized = [u \in User |-> {}] /\ markers = {}
    /\ kvp = "none" /\ kvpFresh = FALSE
    /\ pc = [p \in Proc |-> "idle"] /\ id = [p \in Proc |-> Zero]
    /\ md = [p \in Proc |-> Zero] /\ error = [p \in Proc |-> "none"]
    /\ kvpOn = [p \in Proc |-> FALSE] /\ buf = [p \in Proc |-> <<>>]
    /\ todo = [p \in Cleaner |-> {}] /\ since = [p \in Cleaner |-> {}]
    /\ faults = 0 /\ moves = 0 /\ cleans = 0
    /\ owner = Zero

-----------------------------------------------------------------------------
(* Steps *)

Goto(p, label) == pc' = [pc EXCEPT ![p] = label]

(* A call that works. *)
Works(p, label) == Goto(p, label) /\ UNCHANGED <<error, faults>>

(* A call that fails: `?` takes the error to main, which reports it. *)
Fails(p, e) ==
    /\ faults < MaxFaults /\ faults' = faults + 1
    /\ error' = [error EXCEPT ![p] = e]
    /\ Goto(p, "failure")

(* main up to the configuration.  The id is Zero when it cannot be read. *)
get_vm_id(p) ==
    /\ pc[p] = "idle"
    /\ p \in Cleaner => cleans < MaxCleans
    /\ cleans' = IF p \in Cleaner THEN cleans + 1 ELSE cleans
    /\ \/ id' = [id EXCEPT ![p] = vm] /\ UNCHANGED faults
       \/ /\ faults < MaxFaults /\ faults' = faults + 1
          /\ id' = [id EXCEPT ![p] = Zero]
    /\ Goto(p, "load")
    /\ UNCHANGED <<platformVars, diskVars, kvpVars, md, error, kvpOn, buf, cleanVars, moves, owner>>

(* Mutation: the pool is used as an earlier boot left it. *)
load_KeepsStale(p) ==
    /\ pc[p] = "load"
    /\ \/ /\ Works(p, IF p \in Cleaner THEN "list" ELSE "decide")
          /\ kvpOn' \in {[kvpOn EXCEPT ![p] = on] : on \in BOOLEAN}
          /\ UNCHANGED kvpVars
       \/ Fails(p, "LoadSshdConfig") /\ UNCHANGED <<kvpOn, kvpVars>>
    /\ UNCHANGED <<platformVars, diskVars, id, md, buf, cleanVars, boundVars, owner>>

(* Config::load, and setup_layers when it worked: the KVP pool is cleared  *)
(* if an earlier boot wrote it, or telemetry goes without it.  A           *)
(* configuration that does not load is reported as a failure by any        *)
(* command, and not to KVP: there is no subscriber yet.                    *)
load(p) ==
    /\ pc[p] = "load"
    /\ \/ /\ Works(p, IF p \in Cleaner THEN "list" ELSE "decide")
          /\ \/ /\ kvpOn' = [kvpOn EXCEPT ![p] = TRUE]
                /\ kvp' = IF kvpFresh THEN kvp ELSE "none"
                /\ kvpFresh' = TRUE
             \/ kvpOn' = [kvpOn EXCEPT ![p] = FALSE] /\ UNCHANGED kvpVars
       \/ Fails(p, "LoadSshdConfig") /\ UNCHANGED <<kvpOn, kvpVars>>
    /\ UNCHANGED <<platformVars, diskVars, id, md, buf, cleanVars, boundVars, owner>>

(* Mutation: the marker is looked for where it is not written. *)
is_provisioning_complete_Never(a) ==
    /\ pc[a] = "decide" /\ Works(a, "query")
    /\ UNCHANGED <<platformVars, diskVars, kvpVars, id, md, kvpOn, buf, cleanVars, boundVars, owner>>

is_provisioning_complete(a) ==
    /\ pc[a] = "decide"
    /\ Works(a, IF id[a] \in markers THEN "exited" ELSE "query")
    /\ UNCHANGED <<platformVars, diskVars, kvpVars, id, md, kvpOn, buf, cleanVars, boundVars, owner>>

(* query and get_environment, whose errors are dropped, and get_username.  *)
(* Without IMDS a username from the OVF environment only changes the error.*)
query(a) ==
    /\ pc[a] = "query"
    /\ \/ md' = [md EXCEPT ![a] = vm] /\ Works(a, "hostname")
       \/ /\ md' = [md EXCEPT ![a] = Zero]
          /\ Fails(a, "UsernameFailure") \/ Fails(a, "InstanceMetadataFailure")
    /\ UNCHANGED <<platformVars, diskVars, kvpVars, id, kvpOn, buf, cleanVars, boundVars, owner>>

(* hostnamectl *)
set_hostname(a) ==
    /\ pc[a] = "hostname"
    /\ owner' = id[a]
    /\ \/ hostname' = Meta[md[a]].host /\ Works(a, "user")
       \/ hostname' \in {hostname, Meta[md[a]].host} /\ Fails(a, "NoHostnameProvisioner")
    /\ UNCHANGED <<platformVars, userVars, sshVars, markers, kvpVars, id, md, kvpOn, buf, cleanVars, boundVars>>

(* Mutation: useradd refuses an account that is there. *)
useradd_Once(a) ==
    /\ pc[a] = "user"
    /\ \/ /\ Meta[md[a]].user \notin accounts
          /\ accounts' = accounts \cup {Meta[md[a]].user} /\ Works(a, "sudoers")
       \/ /\ Meta[md[a]].user \in accounts /\ Goto(a, "failure")
          /\ error' = [error EXCEPT ![a] = "NoUserProvisioner"]
          /\ UNCHANGED <<accounts, faults>>
    /\ UNCHANGED <<platformVars, hostname, locked, sudoers, sshVars, markers,
                   kvpVars, id, md, kvpOn, buf, cleanVars, boundVars, owner>>

(* Mutation: an account that is there is taken for a provisioned one. *)
useradd_Existing(a) ==
    /\ pc[a] = "user"
    /\ LET u == Meta[md[a]].user IN
       \/ /\ accounts' = accounts \cup {u}
          /\ Works(a, IF u \in accounts THEN "lock" ELSE "sudoers")
       \/ UNCHANGED accounts /\ Fails(a, "NoUserProvisioner")
    /\ UNCHANGED <<platformVars, hostname, locked, sudoers, sshVars, markers,
                   kvpVars, id, md, kvpOn, buf, cleanVars, boundVars, owner>>

(* useradd, or usermod for an account that is there.  useradd may fail     *)
(* after it made the account.                                              *)
useradd(a) ==
    /\ pc[a] = "user"
    /\ LET more == accounts \cup {Meta[md[a]].user} IN
       \/ accounts' = more /\ Works(a, "sudoers")
       \/ accounts' \in {accounts, more} /\ Fails(a, "NoUserProvisioner")
    /\ UNCHANGED <<platformVars, hostname, locked, sudoers, sshVars, markers,
                   kvpVars, id, md, kvpOn, buf, cleanVars, boundVars, owner>>

(* add_user_for_passwordless_sudo: opened with truncate, then written. *)
sudoers_open(a) ==
    /\ pc[a] = "sudoers"
    /\ \/ sudoers' = {} /\ Works(a, "sudoers_write")
       \/ sudoers' \in {sudoers, {}} /\ Fails(a, "NoUserProvisioner")
    /\ UNCHANGED <<platformVars, hostname, accounts, locked, sshVars, markers,
                   kvpVars, id, md, kvpOn, buf, cleanVars, boundVars, owner>>

sudoers_write(a) ==
    /\ pc[a] = "sudoers_write"
    /\ \/ sudoers' = {Meta[md[a]].user} /\ Works(a, "lock")
       \/ UNCHANGED sudoers /\ Fails(a, "NoUserProvisioner")
    /\ UNCHANGED <<platformVars, hostname, accounts, locked, sshVars, markers,
                   kvpVars, id, md, kvpOn, buf, cleanVars, boundVars, owner>>

(* lock_user: the program never gives a User a password. *)
lock_user(a) ==
    /\ pc[a] = "lock"
    /\ LET more == locked \cup {Meta[md[a]].user} IN
       \/ locked' = more /\ Works(a, IF ConfigureSshd THEN "sshd" ELSE "keys")
       \/ locked' \in {locked, more} /\ Fails(a, "NoPasswordProvisioner")
    /\ UNCHANGED <<platformVars, hostname, accounts, sudoers, sshVars, markers,
                   kvpVars, id, md, kvpOn, buf, cleanVars, boundVars, owner>>

(* Mutation: a file that does not exist yet is taken for a written one. *)
sshd_append_Blind(a) ==
    /\ pc[a] = "sshd" /\ ~HasMatch(sshd)
    /\ \/ /\ sshd' = IF sshdExists THEN Appended(sshd, Setting(Meta[md[a]].disable)) ELSE sshd
          /\ Works(a, "keys")
       \/ UNCHANGED sshd /\ Fails(a, "UpdateSshdConfig")
    /\ UNCHANGED <<platformVars, hostname, userVars, sshdExists, authorized, markers,
                   kvpVars, id, md, kvpOn, buf, cleanVars, boundVars, owner>>

(* update_sshd_config: a new file, or the matching lines replaced.  The    *)
(* file is created or truncated here and written by sshd_write.            *)
sshd_open(a) ==
    /\ pc[a] = "sshd" /\ (~sshdExists \/ HasMatch(sshd))
    /\ LET set == Setting(Meta[md[a]].disable) IN
       buf' = [buf EXCEPT ![a] =
                  IF sshdExists THEN Replaced(sshd, set) ELSE <<Plain(set)>>]
    /\ \/ sshdExists' = TRUE /\ sshd' = <<>> /\ Works(a, "sshd_write")
       \/ /\ \/ UNCHANGED <<sshdExists, sshd>>
             \/ sshdExists' = TRUE /\ sshd' = <<>>
          /\ Fails(a, "UpdateSshdConfig")
    /\ UNCHANGED <<platformVars, hostname, userVars, authorized, markers,
                   kvpVars, id, md, kvpOn, cleanVars, boundVars, owner>>

sshd_write(a) ==
    /\ pc[a] = "sshd_write"
    /\ \/ sshd' = buf[a] /\ Works(a, "keys")
       \/ sshd' \in Cuts(buf[a]) /\ Fails(a, "UpdateSshdConfig")
    /\ UNCHANGED <<platformVars, hostname, userVars, sshdExists, authorized, markers,
                   kvpVars, id, md, kvpOn, buf, cleanVars, boundVars, owner>>

(* update_sshd_config: no line matches, one is added at the end. *)
sshd_append(a) ==
    /\ pc[a] = "sshd" /\ sshdExists /\ ~HasMatch(sshd)
    /\ LET set == Setting(Meta[md[a]].disable) IN
       \/ sshd' = Appended(sshd, set) /\ Works(a, "keys")
       \/ sshd' \in AppendCuts(sshd, set) /\ Fails(a, "UpdateSshdConfig")
    /\ UNCHANGED <<platformVars, hostname, userVars, sshdExists, authorized, markers,
                   kvpVars, id, md, kvpOn, buf, cleanVars, boundVars, owner>>

(* provision_ssh_keys without keys does nothing; otherwise the file is     *)
(* created with truncate, then written key by key.                         *)
no_ssh_keys(a) ==
    /\ pc[a] = "keys" /\ Meta[md[a]].keys = {}
    /\ Works(a, "mark")
    /\ UNCHANGED <<platformVars, diskVars, kvpVars, id, md, kvpOn, buf, cleanVars, boundVars, owner>>

ssh_keys_open(a) ==
    LET u == Meta[md[a]].user IN
    /\ pc[a] = "keys" /\ Meta[md[a]].keys # {}
    /\ \/ authorized' = [authorized EXCEPT ![u] = {}] /\ Works(a, "keys_write")
       \/ /\ authorized' \in {authorized, [authorized EXCEPT ![u] = {}]}
          /\ Fails(a, "UserMissing") \/ Fails(a, "Io")
    /\ UNCHANGED <<platformVars, hostname, userVars, sshdExists, sshd, markers,
                   kvpVars, id, md, kvpOn, buf, cleanVars, boundVars, owner>>

(* Mutation: a key that cannot be written is passed over. *)
ssh_keys_write_Ignores(a) ==
    LET u == Meta[md[a]].user IN
    /\ pc[a] = "keys_write"
    /\ \E some \in SUBSET Meta[md[a]].keys :
            authorized' = [authorized EXCEPT ![u] = some]
    /\ Works(a, "mark")
    /\ UNCHANGED <<platformVars, hostname, userVars, sshdExists, sshd, markers,
                   kvpVars, id, md, kvpOn, buf, cleanVars, boundVars, owner>>

ssh_keys_write(a) ==
    LET u == Meta[md[a]].user IN
    /\ pc[a] = "keys_write"
    /\ \/ authorized' = [authorized EXCEPT ![u] = Meta[md[a]].keys] /\ Works(a, "mark")
       \/ /\ \E some \in SUBSET Meta[md[a]].keys :
                authorized' = [authorized EXCEPT ![u] = some]
          /\ Fails(a, "Io")
    /\ UNCHANGED <<platformVars, hostname, userVars, sshdExists, sshd, markers,
                   kvpVars, id, md, kvpOn, buf, cleanVars, boundVars, owner>>

mark_provisioning_complete(a) ==
    /\ pc[a] = "mark"
    /\ \/ /\ markers' = markers \cup {id[a]}
          /\ since' = [c \in Cleaner |-> since[c] \cup {id[a]}]
          /\ Works(a, "ready")
       \/ UNCHANGED <<markers, since>> /\ Fails(a, "Io")
    /\ UNCHANGED <<platformVars, hostname, userVars, sshVars, kvpVars, id, md, kvpOn,
                   buf, todo, boundVars, owner>>

-----------------------------------------------------------------------------
(* report_ready and report_failure: the event that ProvisioningReportKvp   *)
(* writes to the pool (a failed write is only printed), then the POST.     *)

Outcome(p) == IF pc[p] \in {"ready", "post_ready"} THEN "ready" ELSE "failed"

report_event(p) ==
    /\ pc[p] \in {"ready", "failure"}
    /\ \/ kvpOn[p] /\ kvp' = Outcome(p) /\ kvpFresh' = TRUE
       \/ UNCHANGED kvpVars
    /\ Works(p, IF pc[p] = "ready" THEN "post_ready" ELSE "post_failure")
    /\ UNCHANGED <<platformVars, diskVars, id, md, kvpOn, buf, cleanVars, boundVars, owner>>

(* The wireserver takes the report; or it does and the answer is lost, and *)
(* the request is repeated; or the retries end in a timeout or a fatal     *)
(* status, which main only warns of.                                       *)
report_post(p) ==
    /\ pc[p] \in {"post_ready", "post_failure"}
    /\ \/ health' = [health EXCEPT ![vm] = Outcome(p)] /\ Works(p, "exited")
       \/ /\ faults < MaxFaults /\ faults' = faults + 1
          /\ \/ health' = [health EXCEPT ![vm] = Outcome(p)] /\ UNCHANGED pc
             \/ UNCHANGED health /\ Goto(p, "exited")
          /\ UNCHANGED error
    /\ UNCHANGED <<vm, diskVars, kvpVars, id, md, kvpOn, buf, cleanVars, boundVars, owner>>

-----------------------------------------------------------------------------
(* clean_provisioning_status lists the directory and removes the markers   *)
(* one by one, those it lists and perhaps one made meanwhile; it returns   *)
(* at the first that cannot be removed.  main exits without a report.      *)
(* With --logs the log file may be what fails.                             *)

CleanFails(c) ==
    /\ faults < MaxFaults /\ faults' = faults + 1
    /\ error' = [error EXCEPT ![c] = "Io"]
    /\ Goto(c, "exited")

clean_list(c) ==
    /\ pc[c] = "list"
    /\ since' = [since EXCEPT ![c] = {}]
    /\ \/ todo' = [todo EXCEPT ![c] = markers] /\ Works(c, "clean")
       \/ UNCHANGED todo /\ CleanFails(c)
    /\ UNCHANGED <<platformVars, diskVars, kvpVars, id, md, kvpOn, buf, boundVars, owner>>

(* Mutation: a marker that cannot be removed is passed over. *)
clean_remove_PassesOver(c) ==
    /\ pc[c] = "clean"
    /\ \E v \in todo[c] :
        /\ todo' = [todo EXCEPT ![c] = @ \ {v}]
        /\ \/ markers' = markers \ {v} /\ UNCHANGED faults
           \/ faults < MaxFaults /\ faults' = faults + 1 /\ UNCHANGED markers
    /\ UNCHANGED <<platformVars, hostname, userVars, sshVars, kvpVars, pc, id, md, error,
                   kvpOn, buf, since, boundVars, owner>>

clean_remove(c) ==
    /\ pc[c] = "clean"
    /\ \E v \in todo[c] \cup since[c] :
        \/ /\ markers' = markers \ {v} /\ todo' = [todo EXCEPT ![c] = @ \ {v}]
           /\ UNCHANGED <<pc, error, faults>>
        \/ UNCHANGED <<markers, todo>> /\ CleanFails(c)
    /\ UNCHANGED <<platformVars, hostname, userVars, sshVars, kvpVars, id, md,
                   kvpOn, buf, since, boundVars, owner>>

clean_end(c) ==
    /\ pc[c] = "clean" /\ todo[c] = {}
    /\ Works(c, "exited") \/ CleanFails(c)
    /\ UNCHANGED <<platformVars, diskVars, kvpVars, id, md, kvpOn, buf, cleanVars, boundVars, owner>>

-----------------------------------------------------------------------------
(* The machine *)

AtRest == \A p \in Proc : pc[p] \in {"idle", "exited"}

(* No process survives; the disk does. *)
Halt ==
    /\ pc' = [p \in Proc |-> "idle"] /\ id' = [p \in Proc |-> Zero]
    /\ md' = [p \in Proc |-> Zero] /\ error' = [p \in Proc |-> "none"]
    /\ kvpOn' = [p \in Proc |-> FALSE] /\ buf' = [p \in Proc |-> <<>>]
    /\ todo' = [p \in Cleaner |-> {}] /\ since' = [p \in Cleaner |-> {}]
    /\ kvpFresh' = FALSE
    /\ UNCHANGED <<health, diskVars, kvp, cleans, owner>>

Reboot ==
    /\ AtRest /\ \E a \in Agent : pc[a] = "exited"
    /\ Halt /\ UNCHANGED <<vm, faults, moves>>

Crash ==
    /\ ~AtRest /\ faults < MaxFaults /\ faults' = faults + 1
    /\ Halt /\ UNCHANGED <<vm, moves>>

(* The disk is started as another VM: a clone, or an exchange of OS disks. *)
Move ==
    /\ AtRest /\ moves < MaxMoves /\ moves' = moves + 1
    /\ vm' \in Vm \ {vm}
    /\ Halt /\ UNCHANGED faults

-----------------------------------------------------------------------------
Provision(a) ==
    \/ is_provisioning_complete(a) \/ query(a) \/ set_hostname(a) \/ useradd(a)
    \/ sudoers_open(a) \/ sudoers_write(a) \/ lock_user(a)
    \/ sshd_open(a) \/ sshd_write(a) \/ sshd_append(a)
    \/ no_ssh_keys(a) \/ ssh_keys_open(a) \/ ssh_keys_write(a)
    \/ mark_provisioning_complete(a)

Clean(c) == clean_list(c) \/ clean_remove(c) \/ clean_end(c)

Common(p) == load(p) \/ report_event(p) \/ report_post(p)

Next ==
    \/ \E p \in Proc : get_vm_id(p) \/ Common(p)
    \/ \E a \in Agent : Provision(a)
    \/ \E c \in Cleaner : Clean(c)
    \/ Reboot \/ Crash \/ Move

Spec == Init /\ [][Next]_vars

(* systemd starts the agent at every boot (WantedBy=multi-user.target); a  *)
(* process that can go on does; a machine at rest is some time rebooted.   *)
(* Nobody has to run clean.                                                *)
Fairness ==
    /\ \A a \in Agent : WF_vars(get_vm_id(a) \/ Common(a) \/ Provision(a))
    /\ \A c \in Cleaner : WF_vars(Common(c) \/ Clean(c))
    /\ WF_vars(Reboot)

FairSpec == Spec /\ Fairness

-----------------------------------------------------------------------------
(* Properties *)

Report == {"none", "ready", "failed"}

Error == {"none", "LoadSshdConfig", "UsernameFailure", "InstanceMetadataFailure",
          "NoHostnameProvisioner", "NoUserProvisioner", "NoPasswordProvisioner",
          "UpdateSshdConfig", "UserMissing", "Io"}

AgentLabel == {"decide", "query", "hostname", "user", "sudoers", "sudoers_write", "lock",
               "sshd", "sshd_write", "keys", "keys_write", "mark", "ready", "post_ready"}

Label == AgentLabel \cup {"idle", "load", "list", "clean", "failure", "post_failure", "exited"}

(* Every variable has its type. *)
TypeOK ==
    /\ vm \in Vm /\ health \in [Vm -> Report] /\ kvp \in Report /\ kvpFresh \in BOOLEAN
    /\ hostname \in Host /\ accounts \in SUBSET User /\ locked \in SUBSET User
    /\ sudoers \in SUBSET User
    /\ sshdExists \in BOOLEAN /\ sshd \in Seq(Line)
    /\ authorized \in [User -> SUBSET PubKey] /\ markers \in SUBSET Id
    /\ pc \in [Proc -> Label] /\ id \in [Proc -> Id] /\ md \in [Proc -> Id]
    /\ error \in [Proc -> Error] /\ kvpOn \in [Proc -> BOOLEAN]
    /\ buf \in [Proc -> Seq(Line)]
    /\ todo \in [Cleaner -> SUBSET Id] /\ since \in [Cleaner -> SUBSET Id]
    /\ faults \in Nat /\ moves \in Nat /\ cleans \in Nat /\ owner \in Id

(* The disk is as VM v's metadata asks.  With no keys in the metadata the  *)
(* code leaves authorized_keys alone.                                      *)
Provisioned(v) ==
    /\ hostname = Meta[v].host
    /\ Meta[v].user \in accounts \cap locked
    /\ sudoers = {Meta[v].user}
    /\ Meta[v].keys # {} => authorized[Meta[v].user] = Meta[v].keys

SshdIs(v) == sshdExists /\ Effective(sshd) = Setting(Meta[v].disable)

(* The lines an azure-init wrote say what the VMs ask for. *)
OldLinesAgree(file) ==
    \A i \in DOMAIN file : file[i].kind = "marked" =>
        \A v \in Vm : file[i].set = Setting(Meta[v].disable)

(* A marker file, on which every later boot relies, stands for a host that *)
(* is completely provisioned for its VM, after whatever failures, crashes, *)
(* half done runs, cleans and stays in other VMs, until a run for another  *)
(* id writes to the disk.                                                  *)
MarkedIsProvisioned ==
    \A v \in Vm : v \in markers /\ owner = v => Provisioned(v)

(* Every VM the disk serves asks for the same setting, and so did the VM   *)
(* the image was taken from, if azure-init configured it.                  *)
OneSetting ==
    /\ ConfigureSshd
    /\ \A v, w \in Vm : Meta[v].disable = Meta[w].disable
    /\ \A file \in InitialSshd : OldLinesAgree(file)

(* Under a marker sshd obeys the setting the VM asked for, wherever runs   *)
(* were cut short and whatever they and the image left in the file, if all *)
(* VMs the disk has served asked for the same one (see                     *)
(* SshdFollowsMetadata).  The one thing that can come between is a setting *)
(* that was written on behind an unended line.                             *)
MarkedHasSshd ==
    OneSetting => \A v \in Vm : v \in markers /\ owner = v =>
        sshdExists /\ (SshdIs(v) \/ HasGlued(sshd))

(* A run that reports Ready, under whichever id, has provisioned the host  *)
(* for the VM it runs on.                                                  *)
ReadyIsProvisioned ==
    \A a \in Agent : pc[a] \in {"ready", "post_ready"} =>
        md[a] = vm /\ Provisioned(vm)

(* A Ready that the platform has is not replaced by a failure while the    *)
(* marker stands, unless the run could not load its configuration or read  *)
(* its VM id.                                                              *)
ReadyStays ==
    [][\A v \in Vm : health[v] = "ready" /\ health'[v] = "failed" =>
          \/ v \notin markers
          \/ \E p \in Proc : /\ pc[p] = "post_failure"
                             /\ error[p] = "LoadSshdConfig" \/ id[p] = Zero]_vars

(* When a run with telemetry is over, a success report in the KVP pool is  *)
(* true of the VM it is on: the reports of earlier boots and of other VMs  *)
(* are gone.                                                               *)
KvpReadyIsTrue ==
    \A a \in Agent :
        pc[a] = "exited" /\ kvpOn[a] /\ kvp = "ready" => Provisioned(vm)

(* A clean that exits with success leaves no marker but those made since   *)
(* it listed the directory.                                                *)
CleanRemovesMarkers ==
    \A c \in Cleaner :
        pc[c] = "exited" /\ error[c] = "none" => markers \subseteq since[c]

(* Failures and crashes end, boots come again: the host is some time       *)
(* marked as provisioned for the VM it stays on.                           *)
EventuallyMarked ==
    \A v \in Vm : vm = v ~> (v \in markers \/ vm # v)

(* ssh.rs: disable_password_authentication, "If true, sets                 *)
(* `PasswordAuthentication no`.  If false, sets `PasswordAuthentication    *)
(* yes`": after the update that is what sshd obeys.                        *)
SshdFollowsMetadata ==
    \A a \in Agent : ConfigureSshd /\ pc[a] \in {"keys", "keys_write", "mark", "ready"} =>
        SshdIs(md[a])

-----------------------------------------------------------------------------
(* The inductive invariant behind MarkedIsProvisioned, ReadyIsProvisioned, *)
(* KvpReadyIsTrue, CleanRemovesMarkers and ReadyStays (ProvisioningProofs).*)

(* Where each step of Provision::provision is behind the agent. *)
KeysDone == {"mark", "ready", "post_ready"}
LockDone == KeysDone \cup {"sshd", "sshd_write", "keys", "keys_write"}
SudoDone == LockDone \cup {"lock"}
UserDone == SudoDone \cup {"sudoers", "sudoers_write"}
HostDone == UserDone \cup {"user"}

Failing == {"failure", "post_failure"}

AgentInv(a) ==
    /\ pc[a] \in AgentLabel \cup Failing \cup {"idle", "load", "exited"}
    /\ pc[a] # "idle" => id[a] \in {vm, Zero}
    /\ pc[a] \in HostDone \cup {"hostname"} => md[a] = vm
    /\ pc[a] \in HostDone => hostname = Meta[vm].host /\ owner = id[a]
    /\ pc[a] \in UserDone => Meta[vm].user \in accounts
    /\ pc[a] \in SudoDone => sudoers = {Meta[vm].user}
    /\ pc[a] \in LockDone => Meta[vm].user \in locked
    /\ pc[a] \in KeysDone =>
            (Meta[vm].keys # {} => authorized[Meta[vm].user] = Meta[vm].keys)
    /\ pc[a] \in {"query", "hostname", "mark"} \cup (HostDone \ KeysDone) =>
            id[a] \notin markers
    /\ pc[a] \in Failing => error[a] = "LoadSshdConfig" \/ id[a] \notin markers

CleanerInv(c) ==
    /\ pc[c] \in Failing \cup {"idle", "load", "list", "clean", "exited"}
    /\ pc[c] \in Failing => error[c] = "LoadSshdConfig"
    /\ pc[c] \in {"idle", "load", "list", "clean"} => error[c] = "none"
    /\ pc[c] = "clean" => markers \subseteq todo[c] \cup since[c]
    /\ pc[c] = "exited" /\ error[c] = "none" => markers \subseteq since[c]

(* A success report written in this boot is that of the agent, which is    *)
(* past its last write to the disk.                                        *)
KvpInv ==
    /\ \A p \in Proc : kvpOn[p] => kvpFresh
    /\ kvpFresh /\ kvp = "ready" =>
            /\ Provisioned(vm)
            /\ \E a \in Agent : pc[a] \in {"post_ready", "exited"}

IInv ==
    /\ TypeOK
    /\ MarkedIsProvisioned
    /\ \A a \in Agent : AgentInv(a)
    /\ \A c \in Cleaner : CleanerInv(c)
    /\ KvpInv

(* The inductive invariant behind MarkedHasSshd: once the file is written  *)
(* every active line says what the VMs ask for, so it does not matter      *)
(* which of them sshd obeys; azure-init's own lines, which a later run     *)
(* leaves alone, never say anything else; and a broken line is the last of *)
(* a file that is next appended to, which makes it a glued one.            *)
LinesAgree(file) ==
    /\ ~HasBroken(file) /\ Active(file) # {}
    /\ \A i \in Active(file), v \in Vm : file[i].set = Setting(Meta[v].disable)

SettledFile(file) == HasGlued(file) \/ LinesAgree(file)

BrokenIsLast(file) ==
    \A i \in DOMAIN file : file[i].kind = "broken" =>
        i = Len(file) /\ ~file[i].eol /\ ~HasMatch(file)

(* A file to be written: whichever part of it is, BrokenIsLast holds. *)
CutsAreSafe(file) ==
    /\ ~HasBroken(file) /\ OldLinesAgree(file)
    /\ HasMatch(file) => Len(file) = 1

SshdInv ==
    /\ OldLinesAgree(sshd) /\ BrokenIsLast(sshd)
    /\ \A v \in Vm : v \in markers /\ owner = v => sshdExists /\ SettledFile(sshd)
    /\ \A a \in Agent :
        /\ pc[a] = "sshd_write" => sshdExists /\ SettledFile(buf[a]) /\ CutsAreSafe(buf[a])
        /\ pc[a] \in KeysDone \cup {"keys", "keys_write"} => sshdExists /\ SettledFile(sshd)

SshdIInv == OneSetting => SshdInv
=============================================================================
