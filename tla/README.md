# azure-init: a TLA+ verification project

azure-init provisions Linux VMs on Azure: it runs once per boot, asks IMDS who
the VM is, sets the hostname, makes the user, writes sudoers, sshd and SSH key
files, leaves a marker file so that later boots skip all this, and reports to
the wireserver and to the host through a KVP pool file it shares with other
programs. This directory holds models of the parts where the program's
correctness depends on order, concurrency, crashes and restarts, the TLC
configurations that check them, and TLAPS proofs.

Paths below are relative to the repository. `kvp/` stands for
`libazureinit-kvp/src/`, `lib/` for `libazureinit/src/`.

## 1. The system

| Component | Source | State it keeps | Operations | What is hard | What makes it correct |
|---|---|---|---|---|---|
| KVP pool store | `kvp/store.rs` | the pool file: fixed-size records; nothing in memory between calls | `append`, `append_multiple`, `load`, `insert`, `delete`, `delete_multiple`, `clear`, `clear_if_stale`, `dump`/`entries`/`read`, `len`/`is_empty`/`is_stale` | two lock domains (flock, fcntl) shared with hv_kvp_daemon and cloud-init; crashes between system calls; in-place edit by swap-remove; reboot and mtime | every call acts at one instant; a crash loses nothing but what was being edited; stale records go, fresh ones stay |
| Provisioning lifecycle | `src/main.rs`, `lib/status.rs` | marker files `{vm_id}.provisioned` | `main`, `provision`, `clean` | crashes between any two steps, VM changes under the disk, reports after the marker, `clean` beside the agent | the marker and Ready stand for a provisioned host; the host gets provisioned; exit code and report agree |
| Provisioners | `lib/provision/*.rs` | hostname, accounts, lock, sudoers file | `set_hostname`, `useradd`, sudoers, `lock_user` | failure in the middle without undo, truncate-then-write | running again on a half done disk completes it |
| SSH provisioning | `lib/provision/ssh.rs` | sshd configuration file, authorized_keys | `update_sshd_config`, `provision_ssh`, `extract_authorized_keys_file_path` | the second update of a file it wrote; what `sshd -G` prints | sshd obeys the setting asked for and reads the keys |
| Health reporting | `lib/health.rs` | none; the wireserver keeps the last report | `report_ready`, `report_failure`, `report_in_progress` (not called by azure-init) | lost answers, retries, posts that arrive late | a Ready is not taken back; a report taken for delivered was |
| Logging setup, report layer | `src/logging.rs` | the `PROVISIONING_REPORT` record in the pool | `setup_layers`, filters, `write_provisioning_report` | records of earlier boots; layers that cannot be had; a report that does not fit | the host reads the report of this boot, whatever the filters |
| HTTP retries, IMDS | `lib/http.rs`, `lib/imds.rs` | remaining time | `request`, `query` | timeout racing an answer, malformed body | bounded time and rate, not given up early |
| OVF media | `lib/media.rs` | mounted devices | `mount`, `read`, `unmount`, `get_environment` | failure between mount and unmount, stacked mounts | the device used is released; the right one is unmounted |
| Configuration | `lib/config.rs` | none | `Config::load` | order of base file, drop-ins, command line; types of merged values | the last source wins |
| Error reports | `lib/error.rs`, `lib/health.rs`, `kvp/report.rs` | none | encode (twice), parse | delimiters in values, two encoders, the cut | what is encoded parses back; a cut report says nothing else |
| Diagnostics | `kvp/diagnostics/*.rs` | records in the pool | `emit_start`, `emit_finish`, `emit_event`, `entries` | chunking at byte limits, regrouping records in any order, missing and duplicate chunks, two cloud-init formats | decoded = emitted, no record lost |
| Tracing layer | `src/tracing_layer.rs` | per-span fields and outcome | `on_new_span`, `on_record`, `on_event`, `on_close` | order of events and closes, threads, filters | starts and finishes pair up; the outcome is the span's |
| KVP command line | `kvp/cli.rs` | none | one store operation per command | exit codes when something fails in the middle; quoting | all or refused; documented quoting |
| VM id | `lib/status.rs`, `kvp/vm_id.rs` | none | byte swap on Gen1 | two implementations, spellings | they agree |

How they interact: `main` reads the VM id and loads the configuration, sets up
the layers (which opens the pool and clears it if stale), looks for the marker,
asks IMDS, searches the OVF media, walks through the provisioners, writes the
marker, and reports: through the report layer to the pool, then to the
wireserver. Diagnostics go to the same pool through the tracing layer. The KVP
command line and the programs of Hyper-V and cloud-init use the pool file
beside it.

The hazards of this code, each at its line and with the properties aimed at it,
are in `PROJECT.json`.

## 2. Modules

| Module | What it models | Uses |
|---|---|---|
| `KvpStore` | `KvpPoolStore`, one action per system call that changes the file or a lock, with the other programs on the file, clock and reboots | |
| `KvpAtomicStore` | what the documentation of the store promises: a list on which each call acts at one instant | |
| `KvpStoreRefinement` | the mapping from the first to the second | both |
| `SshdConfig` | `update_sshd_config` as a function on the lines of the file, which line sshd obeys, and the path taken from `sshd -G` | |
| `Provisioning` | the program over boots, crashes and changes of VM | `SshdConfig` |
| `HttpRetry` | `request`, `query` and `_report` over a clock, against a server that may do anything | |
| `OvfMedia` | `get_environment` and `mount_parse_ovf_env` over devices and a mount table | |
| `Acquisition` | one run of `main` against servers and devices, to its exit code | `HttpRetry`, `OvfMedia` |
| `AzureConfig` | `Config::load_from` as a function of its sources | |
| `VmId` | both `get_vm_id`, byte by byte | |
| `Startup` | one process from its VM id and configuration to its exit: layers, filters, events, reports | `AzureConfig`, `VmId`, `SshdConfig` |
| `DiagRecords` | framing, encodings, and the reader's decoding, as functions | |
| `Diagnostics` | a pool into which writers and cloud-init emit, from which others delete, and what the reader returns | `DiagRecords` |
| `Tracing` | the layer, under any program and tracing's registry | |
| `ReportCodec` | both encoders of the report, the parser, the cut, and the splitting of `--supporting-data`, as functions | |
| `KvpCli` | a command of libazureinit-kvp and the report layer on one pool | `ReportCodec` |
| `KvpStoreProofs` | inductive invariants and theorems of the store and its refinement (section 5) | `KvpStoreRefinement` |
| `ReportCodecProofs` | what the encoders write and the parser reads, for any texts | `ReportCodec` |
| `ProvisioningProofs`, `AcquisitionProofs`, `TracingProofs`, `StartupProofs`, `KvpCliProofs`, `DiagnosticsProofs` | the same for those modules | |
| `MC*` | values for the constants | |

The detailed models and the ones above them meet at named steps. What is one
step of `Diagnostics` and `KvpCli` (a store call that happens at once, or leaves
a first part of its effect with an I/O error) is what `KvpStoreRefinement` shows
of `KvpStore`. `Provisioning` takes a query and a report as one step each, which
`Acquisition` takes apart; `Acquisition` and `Startup` take provisioning as one
step, which `Provisioning` takes apart. `Tracing` says which calls of the writer
are made, `Diagnostics` what they leave.

### KvpStore

The file is `pool` (its whole records) and `torn` (a part of a record at its
end). A record is a key and a value from small sets; `Mixed` stands for a field
of which a crash left half. `flock` and `fcntl` are the modes each actor holds.
A process in an operation has `pc` (where it is), `call` (the operation and its
arguments), the fields of `KvpPoolIter` (`idx`, `cnt`), the local variables of
the operation (`hits`, `uniq`, `acc`), and, as history, `snap`: the pool when
it had its locks.

`append` ... `dump` are the public calls: they validate, open the file and go
to the locks. `FlockStep` and `FcntlStep` are `lock_for_writing` and
`lock_for_reading`: flock first, then fcntl, both blocking. `IterNew` is
`KvpPoolIter::new` (and `BadFraming` its refusal). `ReadNext`, `ScanEnd`,
`OverwriteStart/End`, `SwapStart/End`, `Shrink`, `AppendStart/End` and
`Truncate` are the iterator's methods cut at their writes: a write has a state
in its middle, since a crash can leave it there. `Fail` is an I/O error or the
end of the process at any point: the descriptor closes and both locks go.
`DaemonLock` (fcntl, reads) and `CloudInitLock/Append` (flock, appends) are the
programs the comments of store.rs name. They are not part of this repository
and are modelled by what the store relies on; they take one lock each.

The value limits, UTF-8 and NUL checks are left out: an invalid argument
returns before the file is opened. `read` and `entries` are `dump` and a choice
among its records. `len`, `is_empty` and `is_stale` take no lock and change
nothing; `is_stale`'s comparison is the one of `clear_if_stale`.

### KvpAtomicStore and the refinement

The abstract store has the records, a flag for a broken framing, and for each
process the call it is in and its answer. A call acts once (`Append_`, `Load`,
`Insert`, `InsertFull`, `Delete`, `Clear`, `NotStale`, `Dump`) and then
returns; a call that returns without having acted failed and may have been
`Cut` in the ways the documentation allows. The mapping shows, while a process
edits, the records it found (`snap`); the action takes effect at the step that
reaches `done`. The specification is the `PROPERTY ImplementsAtomicStore`, so
every step of the detailed store must be a step of the abstract one.

### Provisioning

State is the platform (`vm`, the last health report of each VM), the disk
(hostname, accounts, locked accounts, sudoers, sshd file, authorized_keys,
markers), the KVP report, and the processes: `Agent`s, which the service
starts, and `Cleaner`s, `azure-init clean`. One action is one call that leaves
something behind; files that are truncated and then written take two. Every
call may fail (before or after its effect where the command can do either),
which takes the error to the failure report as `?` does, and nothing is undone.
`Crash` ends all processes anywhere, `Move` starts the disk as another VM,
`Reboot` starts the next boot. The VM id is `Zero` when it cannot be read. The
KVP report is taken as `KvpStore` promises: replaced as a whole, removed at the
start if an earlier boot wrote it; that no other program writes pool 1 before
azure-init in the same boot is assumed here, since `clear_if_stale` judges the
whole file by its mtime. IMDS answers with the metadata of the VM or not at
all.

### SshdConfig

A line is a setting, a commented setting, a setting with azure-init's comment
behind it, or something else; that is what the pattern and sshd tell apart. The
last line may lack its newline, in the image or because a write was cut short
(`Cuts`, `AppendCuts`: any first part of what was to be written, also of one
line). What is then appended becomes part of that line (`Glued`), or of the
comment if it ends in one. A first part of a setting may be a line sshd cannot
read (`BrokenLine`, sshd then refuses the file), and what sshd makes of a glued line
is left open. Match blocks and Include are not modelled: every line counts as
one of the global section of one file. A line of `sshd -G` is a keyword and
words.

### HttpRetry, OvfMedia and Acquisition

`HttpRetry` has one client in a call (`query` or `report`), which is where
`http` says: an attempt is `sent`, it `sleep`s, it reads a `body`, it is `done`.
`left` and `began` are `retry_for` and `now` of the current `request`. `Answer`,
`NoAnswer`, `Wake` and `OuterTimeout` are the loop of `request` and the timeout
around it; `GoodBody` and `BadBody` are the loop of `query`; `_report` has the
same loop, whose second round its statuses never reach. `Tick` is the clock,
which does not pass a timer that is due: the model takes tokio's timers as exact
(a late one only lengthens a call). Statuses are the classes the code tells
apart. `posted` is history: a POST of this call may still be on its way, also
when the client has given it up. The client of `_report` keeps reqwest's default
policy and follows redirects: after `Redirect` the answer it waits for is one to
the report sent on to another server, or to the GET that the redirect made of it
(`route`), and a 2xx that comes then does not say that the wireserver has taken
anything. `_report` returns Ok all the same. The limit of ten redirects ends in
an error like any other attempt without an answer.

`OvfMedia` numbers the mounts in the order they were made, since a mount point
shows its newest one, and has one action per command or file operation, each of
which may fail. A device's `ovf-env.xml` is missing, malformed, has a password
(which the parser refuses), or is good.

`Acquisition` is `main`: `Start`, `query`, the search, `get_username`,
`provision`, `reported`. `Take` is the wireserver taking a POST, at any time
while one may be under way.

### Startup, AzureConfig, VmId

The process draws what it finds (`env`): the DMI text, the sources, the two
filter variables, the command, what `sshd -G` answers. `load` is
`Config::load_from`, a function of the sources: a figment is the values so far
and whether a source failed. A setting has a type; values of other types may
stand in any file. `layers_in` gives each layer the kinds of event it takes
(`report` is the health event, `status` azure-init's own, `foreign` other
crates' information, and warnings and errors). Each command then emits what it
emits; `Panics` is `Duration::from_secs_f64` on a negative timeout, and with a
total of zero `_report` makes no attempt (`Mute` names both). `VmId` has
the two implementations as two functions of the same text.

### DiagRecords and Diagnostics

A key is the list of its fields, a value a list of letters with their widths in
bytes. `frame_records` cuts the payload as the code does; base64 text is its
origin and a position in it, so that a decompressor accepts a whole text and
nothing else. Numbers are printed as `Numeral` says, for as many of them as are
in use. `decode_entries` is `DiagnosticReader::entries`: `Place` says what
a record is, `Group` decodes the records under one base key, entries are put
back in the order of positions. `Diagnostics` lets calls of the writer succeed,
stop after any record or be refused, cloud-init append its messages record by
record, others append records that break a format, and anybody delete, with
`remove_current`'s moving of the last record into the hole (`Keeping`) and so
out of order. `Settled` assumes that a native diagnostic's record is not deleted
within the unit of time it carries: with it deleted and emitted again in the
same instant, two payloads could be mixed under one key. `deletes` counts the
steps that may have moved records, a report that replaces several among them.
What the constants are allowed to be is stated by `EmissionsAssumption` (the
types of the writer's calls), `MessagesAssumption` (what a message of cloud-init
is: one record, or numbered ones with the same metadata) and `OthersAssumption`
(the rest of the pool is anything that does not bear the writer's or a message's
name).

### Tracing

State is what the registry knows of spans (`phase`, `parent`, `held`, and
`entered`: the stack of each thread), the layer's `SpanState`, and the calls it
makes of the writer. The program is any program: spans inside each other,
entered and exited in any order on any thread, fields recorded, events, handles
dropped. A span closes when its last handle and child are gone, on a thread that
may be unwinding. `event_span` is the function of tracing_subscriber that
tracing_layer.rs:114 calls: of the spans around an event it gives the newest
that the layer sees. Around an event are the spans its thread has entered; the
one it names, if it names a parent; or none. The tree of parents is not climbed:
an ERROR of a hidden span that was entered without its parent on that thread is
no error of the parent.

### ReportCodec and KvpCli

Reports are lists of letters; standard field names and words are one letter
each. Encoders, `validate_report_quoting`, the CSV reader and `from_str` are
functions, checked against what was meant. `KvpCli` runs every command
(`dispatch` is the set of pools, exit codes and outputs it may leave) beside the
report layer and other programs. The three looks of `info` at the unlocked file
are one here.

## 3. Runs

| Run | Bounds | What it shows |
|---|---|---|
| `kvp_edit` | 1 process, pools of up to 4 records over 2 keys and 2 values, 2 calls, limit of 1 distinct key | `Completed` (with the limit on keys), `NothingElseLost`, `TornPoolFrozen`, `TypeOK` for every operation on every pool, stopped at any write |
| `kvp_shared` | 2 processes, 1 daemon, 1 cloud-init, 3 calls | `Exclusion`, `CursorCurrent`, `SnapshotRead`, `NoCircularWait`, `ImplementsAtomicStore` |
| `kvp_stale` | 2 processes, 1 daemon, 3 seconds, 3 calls, 1 key | `StaleCleared`, `ImplementsAtomicStore` over reboots, and `CallsReturn` under fairness |
| `provisioning` | 1 agent, 1 cleaner, 2 VMs that differ in everything but the password setting, 4 sshd files or none, 2 faults, 1 move, 1 clean | the invariants of the lifecycle and `ReadyStays` |
| `provisioning_live` | as above, 1 fault, 1 sshd file | `EventuallyMarked` under fairness |
| `acquisition` | attempts of 2 ticks, intervals of 2 (IMDS) and 1, totals of 5 and 3; 3 devices, mounted twice, in either order, or not at all | `WithinBudget`, `GivesUpLate` and `RateLimited` of calls; `MountsReleased`; `OutcomeIsTrue` of the exit code and of what was delivered; `Exits` |
| `diagnostics` | 2 calls of the writer out of 9, 2 steps of others, chunks of 2 bytes, at most 3 of them | what was written is read (`WrittenIsRead`), nothing else is (`OnlyEmitted`), and every record of the pool is accounted for in its place (`EntriesStandForPool`) |
| `tracing` | 2 seen spans and a hidden one, 2 threads in up to 2 spans each, 1 event, 1 explicit outcome | `StartsAndFinishes` pair up, `FinishIsOutcome` |
| `cli` | 1 command of about 500, 1 step of the report layer or another program, in either order, on 3 pools, values of 34 bytes | `AllOrRefused` of exit codes, `NewestReportStands`, `ReportReadBack`, `TruncationShows`, `SupportingDataRead` |
| `startup` | 4 base files, 4 drop-in directories, 5 `--config` arguments, 6 DMI texts, filters set, blank, invalid or not, all commands | which settings and filters are in force (`SourcesTakePrecedence`), which id (`SameVmSameId`), and whether a run's end is told (`OutcomeIsTold`) |

Why the bounds are enough. Four records are enough for a pool because an edit
touches the record at the cursor and the last one: with four, a duplicate can be
first, last, both, adjacent and everything. Two calls let the second meet what
an interrupted first one left; three let two processes meet with another program
in between. In `provisioning`, two faults allow a failed step and a crash, or a
lost answer and a failure later; one move allows a disk written for one VM to
come up as another. In `acquisition`, the total is used up in the middle of a
pause, of an attempt and of a body, and in three rounds of them; the proofs
remove the bound. In `diagnostics`, the letter of two bytes does not fit behind
one of one byte in a chunk, a name one byte longer makes the second chunk's key
too long, and two calls with two steps between them give every order of a
duplicate, a deletion and a foreign chunk of the same group. In `tracing`, a
hidden span may be above, below or between the seen ones and entered by itself,
in a seen one or around one, by either thread; that a later outcome replaces an
earlier one is left to the proof. In `cli`, one command and one report meet in
either order, and every `--supporting-data` of up to two letters and every value
of up to three is read. `MaxCalls`, `MaxTime`, `MaxFaults`, `MaxMoves`,
`MaxCleans`, `MaxEmissions`, `MaxExtra`, `MaxClock`, `MaxEvents`, `MaxSaid`,
`MaxDepth`, `MaxCommands` and `MaxOthers` are the only bounds, and they are guards.

Several properties are conjunctions with named parts (`OutcomeIsTrue`,
`WrittenIsRead`, `OutcomeIsTold`, ...): the module states each part with a
comment of its own. Type correctness is checked and proved for the store and the
lifecycle; in the other modules it is a part of the inductive invariants
(`HttpTypeOK`, `Typed`, `LayersInv`).

Every property has a mutant in `PROJECT.json`: a definition changed as a
plausible bug would change it, under which TLC reports that property. Deadlock
is checked in `provisioning` and `provisioning_live`. It is not in the others,
where a run ends: a process exits, or the bounded calls run out. A store that
waits forever is the subject of `NoCircularWait` and `CallsReturn`, a program
that does not end that of `Exits`.

### Where the code and its documentation disagree

Two of these have a run that shows the disagreement:

| Run | The documentation | The code |
|---|---|---|
| `sshd_doc` | lib/provision/ssh.rs:245-246: "If true, sets `PasswordAuthentication no`. If false, sets `PasswordAuthentication yes`." | the pattern does not match the line azure-init itself appends, so the update for the next VM appends another, and sshd goes on obeying the first |
| `sshd_newline_doc` | the same lines | the setting is appended without a look at the end of the file; behind a last line without newline it becomes part of that line, and sshd does not have it |

Others were met while modelling; the models follow the code:

- doc/kvp.md:132 clears records if `mtime` < boot; the code compares with `<=`
  (`StaleCleared` says which records that costs).
- lib/status.rs:20 promises that provisioning runs again when the VM id changes;
  markers stay, so an id that changes and changes back is skipped.
- The marker comes before the report, and a report that is lost is never
  repeated by a later boot.
- doc/configuration.md:8-9 names `/etc/azure-init/azure-init.toml` and
  `/etc/azure-init/azure-init.toml.d/`; lib/config.rs:387-388 reads
  `/etc/azure-init.toml` and `/etc/azure-init.d/`. The complete example has
  `imds.read_timeout_secs`, which no setting has and which is passed over in
  spite of the "strict validation" it announces; a negative timeout is accepted
  and panics later. `provisioning_media.enable` and `azure_proxy_agent.enable`
  are not read by anything.
- After a malformed body `query` asks again at once, not after the retry
  interval, and the reading of a body does not count against the total.
- A configuration that does not load is reported with the error of sshd's
  configuration. main.rs:388 (`NonEmptyPassword`) cannot be reached: the search
  for an environment drops every error.
- The default filter of the diagnostics lists `status::retrieved_vm_id` and
  `config::success`; both are emitted before there is a layer to take them.
  A blank AZURE_INIT_LOG is a filter, a blank AZURE_INIT_KVP_FILTER is none.

## 4. Fairness

`KvpStore`: `WF` of each process's steps (locks are released by the kernel when
the descriptor closes, and a blocked lock call returns when the lock is free),
of the daemon's unlock and of cloud-init's append (both release what they
hold). No fairness on calls, failures, clock or reboots. Weak fairness is
enough because the number of calls is bounded; with lock holders coming for
ever, a waiter could starve, and neither the kernel nor the code promises that
it does not.

`Provisioning`: `WF` of the agent's steps from the start (azure-init.service is
`WantedBy=multi-user.target`, `Type=oneshot`, without restart: it runs at every
boot, to its end), of a started cleaner's steps, and of `Reboot`. The last says
that the machine is booted again some time; without it a run that failed is
final, since nothing starts the service twice in a boot. Faults are bounded: the
steps work from some time on.

`Acquisition`: `WF` of `main`'s steps, of the steps of the search (its commands
end) and of what the client does by itself: timers, the clock, giving up. There
is none on the servers: `Exits` holds when nobody ever answers.

## 5. Proofs

### The store

`KvpStoreProofs` proves for all processes, keys, values, pools, batches and
limits: type correctness (`TypeCorrect`), the exclusion of the two lock domains
(`MutualExclusion`), that the cached count and the cursor are right
(`CursorIsCurrent`), that a dump is a snapshot (`ReadsAreSnapshots`),
that nobody waits in a circle (`DeadlockFree`), what `clear_if_stale` may leave (`StaleIsCleared`), and that
nothing is edited behind a torn tail (`TornStaysFrozen`).

None of these is inductive. `IInv` adds which locks an actor holds at which
label, that one exclusive holder excludes all others (`LockInv`); which
operations can be at which label and with which counters (`Shape`); where the
cursor is at each label (`CursorInv`), a tighter range inside a removal than
elsewhere, since `remove_current` steps back; that a reader's records are those
behind its cursor (`ReaderInv`); and that a delete has no record of its keys
behind its cursor, but for the one it is removing (`DeleteInv`): the copied
last record is in front of the cursor again. The proof that a step keeps the
invariant has a lemma per action; those of other processes use only that the
step changes the file in no other way than under the exclusive lock.

The assumptions are those of the modules: actors are disjoint, `Mixed` is no
key or value, the limit is a positive natural, pools and batches are lists of
records.

It also proves the two properties about contents, `Completed`
(`CompletedOperations`: what an operation that returns Ok leaves of the pool it
found) and `NothingElseLost` (`CutShortLosesNothing`: an edit that is cut short
anywhere has cost no record of another key). Their invariant is `EditInv`, on
top of `IInv`. Its idea is the hole: while a record is being overwritten or
removed there is one slot whose content does not count (`Hole`: the slot at the
cursor, and after the copy the last slot, which is now there twice). Outside the
hole every record of another key is in the pool exactly as often as it was found
(`KeptInv`), and since each write moves or fills the hole only, a step compares
two sets of slots that differ by the hole and never has to count. `SearchInv`
says of an insert that has met nothing yet that the pool is untouched and that
`unique_keys` are the keys behind the cursor, `ReplacedInv` that afterwards one
slot behind the cursor has the key, `ListInv` how much of a list has been
written.

Last it proves `StoreIsAtomic`, `Spec => ImplementsAtomicStore`: every behaviour of the detailed store, with its locks,
cursors, half done writes, crashes and reboots, is one of the store whose calls
act at once. There is one lemma per action of `KvpStore`: it stutters, or it is
the abstract action its call stands for, at the step that reaches `done` (where
`EditInv` says what the pool has become), or it cuts the call short in one of
the ways `KvpAtomicStore` allows. `LinkInv` is the rest of what the mapping
needs.

### The lifecycle

`ProvisioningProofs` proves for all VMs, metadata, images, numbers of cleaners
and bounds: type correctness, `MarkedIsProvisioned` (`MarkerIsTrue`),
`ReadyIsProvisioned` (`ReadyIsTrue`), `KvpReadyIsTrue` (`KvpReportIsTrue`),
`CleanRemovesMarkers` (`CleanIsComplete`) and the action property `ReadyStays`
(`ReadyIsNotTakenBack`).

Its `IInv` says, for each label of the agent, which steps of provisioning are
on the disk (`HostDone`, `UserDone`, ...), that the run's metadata is that of
the VM it is on, that its id is the VM's or `Zero`, and that from the decision
to the marker its id has no marker: this is why a run that writes the disk
cannot falsify a marker it would be blamed for, since whatever it writes makes
it the disk's `owner`. For a cleaner it relates the markers to those it has
still to remove and those made meanwhile. For the pool it says that a success
written in this boot is by an agent past its last write. The last needs
`OneAgent`: with two agents provisioning at once neither it nor the marker's
meaning would hold. The other assumptions are types, that agents and cleaners
are different processes, and that the zero id is no VM's.

`MarkerCoversSshd` proves `MarkedHasSshd`: under the marker, sshd obeys what the
VM asked for. It has two premises (`OneSetting`): the VMs the disk serves ask for
the same, and so do the lines an earlier azure-init left in the image, which are
never edited again. And it has an exception: a file in which the setting was
written on behind an unended line (`HasGlued`), which can happen to any image
whose file has no newline at its end and to any file an append was cut short in.
Otherwise it holds wherever a write ended: `SshdInv` says that a file on which a
marker stands has an active line, that all its active lines agree, so that it
does not matter which of them comes first, and that a first part of a line stays
the last of a file, where the next run overwrites it or glues to it.

### A run against servers

`AcquisitionProofs` proves for all timeouts, intervals, totals and devices, and
for any number of rounds: `WithinBudget`, `GivesUpLate`, `RateLimited` and
`OutcomeIsTrue`, which is `ExitCodeIsTrue` and `DeliveredStays`. The latter
speaks of reports whose answer was one to the report itself: of an Ok behind a
followed redirect nothing can be said. It also proves
`MountsReleased` (`DevicesAreReleased`), from `MediaInv`: between the mount and
the umount the newest mount is the one of the device being tried, so that the
umount, which takes the newest, takes the right one; a device that stays mounted
had a file that was no good, or its umount failed. The time properties need to
know what a request that is under way still has: `IInv` says at each place of
the client how `began + left` compares with the start of the call plus its
total, less an interval for each body refused (`Running`, `Reading`, `Over`),
and that the attempts made have each had their interval. The products of a count
and an interval are named (`RI`, `RR`, `AI`), since the provers do linear
arithmetic. `TimesAssumption` (the times are naturals) is all it assumes of
them.

### The tracing layer

`TracingProofs` proves `StartsAndFinishes`, which is `Paired` and `Accounted`,
for all spans, hidden or not, and any program. `IInv` ties the starts and
finishes written to the phase of each span (`Emissions`), the layer's state to
what the span was given (`Layer`), and uses what the registry guarantees: an
open child keeps its parent open (`Registry`), which is why a parent's finish
comes last.

`FinishesTellTheOutcome` proves `FinishIsOutcome`: a finish of a span that
unwinds is an error, any other tells the explicit outcome if there is one, else
an error exactly if the span was the newest seen one around an ERROR. `errors`
keeps for each ERROR what was around it, and `ErrorInv` says that `saw_error` of
an open span is set exactly if there is such an error (`SawError`), which
`event_span` finds as the seen span at the greatest place in the stack
(`EventSpan`, `Greatest`). That the outcome of a closed span does not change any
more needs that a thread is only in spans the program holds (`EnteredAreHeld`),
which are open.

### A process and its layers

`StartupProofs` proves for all configurations, filters, ids and answers of sshd:
`OutcomeIsTold` (`ReportReaches` and `FailuresAreReported`, which excuses
no exit, panics included, but for `Mute` settings) and
`SourcesTakePrecedence`, which is `LastSourceWins` and `FilterPrecedence`.
`IInv` says what each layer takes from the time it is set up, that it has taken
its part of what was emitted, and what can have been posted at each label.
`ShowsAssumption` says that the program's own filters parse and that the default
one shows warnings.

`LastSourceWins` says what the merge of base file, drop-in directory and
`--config` argument amounts to, setting by setting, without the order of
merging. `MergeStands` is its step (a file of a higher rank overrides what it
sets and leaves the rest), `DirectoryStands` the induction over the files of a
directory. The numbers of files are naturals up to `LastName`
(`NamesAssumption`, `SourcesAssumption`).

`SameVmHasTheSameId` proves `SameVmSameId`: azure-init and the KVP command, each
with code of its own, take the same id from the same DMI text, however it is
spelled, or one falls back to zeros where the other refuses. It rests on
`SwapTwice`: swapping the bytes of the first three fields twice gives the id
back, for every list of 16 bytes (`DmiAssumption`: what `Uuid::parse_str` takes
has 16).

### The command

`KvpCliProofs` proves for all pools, files, commands, limits and reports, and
any number of writers: `AllOrRefused` (`CodesTellWhatWasWritten`) and
`NewestReportStands` (`TheNewestReportStands`). The first has a lemma for each
operation of the store and one (`CommandLeaves`) for all commands. The second
rests on `InsertAlone`: whatever pool an insert finds, the new record is the
only one of its key in what it leaves. That is an induction over the pool
(`SliceKeeps`), since what is left is put together record by record.

`ReportReadBack` (`ReportsAreReadBack`) and `TruncationShows` (`ACutShows`) are
proved for reports of any texts, whatever quotes, separators and line ends are
in them, and for a cut at any letter. They follow from `ReportsAreEncoded`: the
newest report is the encoding of the fields it means. The rest of the argument
is about `ReportCodec` and stands in `ReportCodecProofs`, in the order of the
parser. `TextParts` says where the fields begin in an encoded text.
`StateAt` gives the state of `validate_report_quoting` behind each letter: inside
a field never "start", so the bars found are those between fields (`CutBars`),
and inside quotes "quoted" or, behind every other quote, "closed". Hence a text
that is cut and still accepted is cut outside quotes or at the second of two, and
its last field without quotes is a beginning of the field (`Unquotes`); the
fields before it are whole (`RecordOfCut`). Split at the first `=`, they are the
pairs (`FieldsOfCut`), and since the names of the supporting data are other
names, each standard field is found where it was put (`SuccessRead`,
`FailureRead`). The last piece is `TruncatedBegins`: the cut at the size limit is a
beginning of the text.

`DataIsRead` proves `SupportingDataRead` for any text: the parser of
`--supporting-data`, which walks from letter to letter, against the documented
grammar, which says what a field is and leaves the choice of the commas open.
Where a field can be read as `key=value`, bare or in quotes, the parser finds its
end there (`ReadEndsThere`) and its split at the first `=` is the only reading
(`OneReading`); a field that the parser ends and whose key is not empty can be
read (`FieldRead`). Counting the chosen places in their order (`Counted`, an
induction over their number), a choice of commas is a sequence of ends
(`ChoiceIsCut`), and the other way round (`CutIsChoice`). If all its fields can be
read or are empty, the parser ends a field at each of them (`ParsedAt`), and since
its fields follow one another up to the end of the text (`SplitWalks`), they are
these and no more (`SameCuts`, `ChoiceIsParsed`). Conversely, the ends of a text
that the parser accepts are such a choice (`SplitCuts`, `ParsedIsChoice`).

`TextsAssumption` says what the texts are. Those of azure-init have no NUL: the
store refuses one in front of any write (store.rs:892), so that there would be
no report. Nor have the agent and the VM id of the command, which are arguments
of a process. The names of its supporting data are identifiers in the source
(`error.rs`), hence not empty and without `=`. The reason, the URL and the
supporting data given to `report-success` and `report-failure` are any texts.

### The diagnostics

`DiagnosticsProofs` proves for all payloads, limits, time units, messages and
foreign records, and any number of calls, deletions and reports:
`ReadWasEmitted` (`OnlyEmitted`), `WrittenAreRead` (`WrittenIsRead`) and
`EntriesAreThePool` (`EntriesStandForPool`).

Half of it is about the functions of `DiagRecords`. The chunks of a text, joined
again, are the text (`ChunksJoin`, from `FrameFacts`: each cut is the end of a
letter, and goes forward since a chunk has room for the widest letter). A set
of chunks that passes `ChunkError` is numbered from 0 without gap (`Numbered`), so
that what is joined is determined by the indices and not by the order found. A
group that has exactly the records of a call is decoded to what the call was
given (`IntactGroup`); a group that has some of them, to a beginning of it
(`OwnGroup`), or to all of it if it is compressed, since a part of a base64 text
does not decompress. Each entry of `decode_entries` has one record at which it
stands, and these go up (`FoundAt`), which gives `NothingLost` and the order.

The other half is the pool. `SeqInv` says that the reader answers from the pool
as it is; every step appends records, takes some out and moves others, or
replaces a report (`StepShapes`), and the invariants need no more than that.
`CallInv` says that what a call was to write is the frame of its arguments at
some time up to now, `OwnInv` that every record under the writer's name is from
a call. These are not enough: chunks of two calls under one base key could fill
each other's gaps and be taken for a whole. `FirstInv` excludes it. Calls under
one base key carry one time unit. While that lasts nothing of theirs is deleted,
and afterwards a delete takes all records of a key at once; so the first records
of such calls are all there, and the reader sees duplicates, or all gone, and it
sees a gap. `MessageInv` says that cloud-init's chunks are each there once at
most. `OrderInv` says that, while nothing was removed, the calls' first records
are in the order of the calls, and that no chunk of a group is in front of the
first call's that wrote to it.

The assumptions are those of the modules. `LimitsAssumption` asks that a chunk has
room for the widest letter and that there is a numeral for every index.

### Induction over data

The library's induction theorems take a predicate as a parameter, which the
installed provers cannot give them. Where a proof needs induction over a number
it states the predicate as a set of numbers and uses that a set of naturals has
a least element (`WFMin`, of sets and relations): `UptoInduction` in
`ReportCodecProofs` and `DiagnosticsProofs`, `MergedExists` in `StartupProofs`,
`Greatest` in `TracingProofs`. The same shows that the recursive functions of the models have a
value at all.

### Only model-checked

Liveness: `CallsReturn`, `EventuallyMarked`, `Exits`. Fairness and ENABLED are
out of the prover's reach. Every invariant and action property of the passing
runs is proved.

The invariants of the proofs were checked by TLC before they were proved:
`EditInv`, `LinkInv`, `SshdIInv` and `MediaInv` stand in the modules they are
about and can be added to the INVARIANTS of the runs `kvp_edit`, `kvp_shared`,
`provisioning` and `acquisition`.

## 6. Not modelled

- The build, the packaging, the test servers and the fakes of the tests: no
  state of their own.
- `set_user_password` and `report_in_progress`, which azure-init does not call.
- The layout and wording of logs, errors and printed answers.
- `info`'s three looks at an unlocked file as three steps: they only print.
- A `--supporting-data` option given more than once: each is split by itself.
- sshd's Match blocks and Include, and what sshd makes of a line with a setting
  written on behind it.
- figment's search for a relative `--config` path in parent directories.
- Two azure-init processes provisioning at the same time: nothing in the code
  keeps them apart, and systemd starts one.
- Fields of the IMDS document beyond those that provisioning uses, the HTTP
  connection below an attempt, and gzip, base64 and JSON as byte formats: the
  models have what they do to a payload, whole, cut or mixed.
