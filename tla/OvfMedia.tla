------------------------------ MODULE OvfMedia -------------------------------
(***************************************************************************)
(* The search for an OVF environment: main's get_environment over the      *)
(* devices get_mount_device lists, each mounted, read, parsed, unmounted   *)
(* and ejected by mount_parse_ovf_env.  Every command and file operation   *)
(* may fail; an error drops the device and the loop goes on.               *)
(***************************************************************************)
EXTENDS Naturals, Sequences

CONSTANTS
    Device,
    NoDevice,
    Cdrom,       \* devices with a file system of CDROM_VALID_FS
    Ovf,         \* ovf-env.xml on each device: Body
    InitialMtab  \* mount tables the system may come up with

(* No file; not the XML expected; with a password; as it has to be. *)
Body == {"missing", "malformed", "password", "good"}

(* A device is mounted at the mount point of the program, or elsewhere. *)
Mount == [dev : Device, at : {"media", "elsewhere"}]

ASSUME MediaAssumption ==
    /\ NoDevice \notin Device /\ Cdrom \subseteq Device /\ Ovf \in [Device -> Body]
    /\ InitialMtab \subseteq Seq({m \in Mount : m.at = "elsewhere"})

VARIABLES
    mtab,     \* the mounts, by the number each had when it was made
    mounts,   \* the number of the newest mount made so far
    ejected,  \* devices with an open tray
    media,    \* where it is: "idle", "list", "next", "mounted", "parsed", "umounted", "over"
    pending,  \* devices get_mount_device listed and not yet tried
    dev,      \* the one being tried
    env,      \* the device whose environment is kept
    stuck     \* history: devices mounted whose file was no good, or not unmounted

mountVars == <<mtab, mounts, ejected>>
mediaVars == <<mountVars, media, pending, dev, env, stuck>>

MediaInit ==
    /\ mtab \in InitialMtab /\ mounts = Len(mtab)
    /\ ejected = {} /\ media = "idle"
    /\ pending = <<>> /\ dev = NoDevice /\ env = NoDevice /\ stuck = {}

-----------------------------------------------------------------------------
(* The next device, what was found kept: `Err(_) => continue`. *)
Continue == media' = "next" /\ UNCHANGED env

(* get_mount_device reads the mount table, before anything is changed in  *)
(* it: devices somebody has mounted, oldest mount first.                  *)
get_mount_device ==
    /\ media = "list"
    /\ \/ /\ media' = "next"
          /\ pending' = [i \in DOMAIN SelectSeq(mtab, LAMBDA m : m.dev \in Cdrom) |->
                            SelectSeq(mtab, LAMBDA m : m.dev \in Cdrom)[i].dev]
       \/ media' = "over" /\ UNCHANGED pending
    /\ UNCHANGED <<mountVars, dev, env, stuck>>

(* Media::mount *)
mount ==
    /\ media = "next" /\ pending # <<>>
    /\ dev' = Head(pending) /\ pending' = Tail(pending)
    /\ \/ /\ Head(pending) \notin ejected
          /\ mounts' = mounts + 1
          /\ mtab' = [i \in DOMAIN mtab \cup {mounts + 1} |->
                        IF i = mounts + 1 THEN [dev |-> Head(pending), at |-> "media"]
                        ELSE mtab[i]]
          /\ media' = "mounted" /\ UNCHANGED env
       \/ UNCHANGED <<mtab, mounts>> /\ Continue
    /\ UNCHANGED <<ejected, stuck>>

(* read_ovf_env_to_string and parse_ovf_env: an error leaves the device    *)
(* mounted.  A password is an error.                                       *)
read_and_parse ==
    /\ media = "mounted"
    /\ \/ Ovf[dev] = "good" /\ media' = "parsed" /\ UNCHANGED <<env, stuck>>
       \/ Continue /\ stuck' = stuck \cup {dev}
    /\ UNCHANGED <<mountVars, pending, dev>>

(* Mutation: umount takes the mount that was there first. *)
TopMount_Oldest == CHOOSE i \in DOMAIN mtab :
    /\ mtab[i].at = "media"
    /\ \A j \in DOMAIN mtab : mtab[j].at = "media" => i <= j

(* The mount point shows the newest mount, which is the one umount takes. *)
TopMount == CHOOSE i \in DOMAIN mtab :
    /\ mtab[i].at = "media"
    /\ \A j \in DOMAIN mtab : mtab[j].at = "media" => j <= i

(* Media::unmount, its two commands. *)
umount ==
    /\ media = "parsed"
    /\ \/ /\ mtab' = [i \in DOMAIN mtab \ {TopMount} |-> mtab[i]]
          /\ media' = "umounted" /\ UNCHANGED <<env, stuck>>
       \/ UNCHANGED mtab /\ Continue /\ stuck' = stuck \cup {dev}
    /\ UNCHANGED <<mounts, ejected, pending, dev>>

(* eject takes every mount of the device with it. *)
eject ==
    /\ media = "umounted" /\ media' = "next"
    /\ \/ /\ ejected' = ejected \cup {dev} /\ env' = dev
          /\ mtab' = [i \in {j \in DOMAIN mtab : mtab[j].dev # dev} |-> mtab[i]]
       \/ UNCHANGED <<mtab, ejected, env>>
    /\ UNCHANGED <<mounts, pending, dev, stuck>>

searched == media = "next" /\ pending = <<>> /\ media' = "over"
            /\ UNCHANGED <<mountVars, pending, dev, env, stuck>>

MediaStep == get_mount_device \/ mount \/ read_and_parse \/ umount \/ eject \/ searched

-----------------------------------------------------------------------------
(* Properties *)

(* When the search is over, whatever failed on the way and however mounts  *)
(* were stacked, the device whose environment is used was good, is ejected *)
(* and mounted nowhere; no other device lost its disc unless it was good.  *)
EnvironmentReleased ==
    /\ env # NoDevice => env \in ejected
    /\ \A d \in ejected : Ovf[d] = "good" /\ \A i \in DOMAIN mtab : mtab[i].dev # d

(* What stays at the mount point is a device with an error of its own: the *)
(* device umounted is the one that was parsed, never one below it.         *)
OnlyStuckStayMounted ==
    media \in {"next", "over"} =>
        \A i \in DOMAIN mtab : mtab[i].at = "media" => mtab[i].dev \in stuck

(* No device is left mounted but by an error of its own, and the one that   *)
(* is used is given back (main, Media::unmount).                           *)
MountsReleased == EnvironmentReleased /\ OnlyStuckStayMounted

-----------------------------------------------------------------------------
(* The inductive invariant behind MountsReleased (AcquisitionProofs): from  *)
(* the mount to the umount the newest mount is that of the device being    *)
(* tried, so it is the one umount takes.                                    *)
MediaInv ==
    /\ mounts \in Nat /\ DOMAIN mtab \subseteq 1..mounts
    /\ EnvironmentReleased
    /\ media \in {"mounted", "parsed"} =>
            mounts \in DOMAIN mtab /\ mtab[mounts] = [dev |-> dev, at |-> "media"]
    /\ media \in {"parsed", "umounted"} => Ovf[dev] = "good"
    /\ \A i \in DOMAIN mtab : mtab[i].at = "media" =>
            mtab[i].dev \in stuck \/ (media \in {"mounted", "parsed"} /\ i = mounts)
=============================================================================
