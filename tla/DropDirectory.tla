---------------------------- MODULE DropDirectory ----------------------------
(***************************************************************************)
(* The host's drop directory (fr-files/src/receive.rs, receive/staging.rs,  *)
(* receive/conflict.rs, receive/directory.rs): one private staging object   *)
(* at a time, charged against a shared reservation, and published under a   *)
(* name that nothing else holds.                                            *)
(*                                                                         *)
(* A name is <<file, attempt>>: attempt 0 is the name the sender asked for, *)
(* the others are its conflict names.  An entry is the file it holds,       *)
(* 0 (Local) for one another program made, or None.                         *)
(***************************************************************************)
EXTENDS Integers

CONSTANTS
    None,
    Files,              \* the transfers of the lane, 1..n
    Size,               \* the number of chunks of each file
    KeepBoth,           \* the locally chosen conflict policy
    MaxConflicts,       \* conflict names tried by one publication
    MaxTransfers        \* reservations the directory admits at once

ASSUME DirectoryAssumption ==
    /\ Size \in [Files -> Nat]
    /\ KeepBoth \in BOOLEAN
    /\ MaxConflicts \in Nat /\ MaxTransfers \in Nat \ {0}

Local == 0

Names == Files \X (0..MaxConflicts)

\* entry, synced: the directory and the names that survive a power failure;
\* part: the staging object on disk; reserved: the charges held;
\* failed: CleanupStatus, some charge was kept for good;
\* lost: the files a power failure took.
EmptyDirectory ==
    [entry |-> [n \in Names |-> None], synced |-> {}, part |-> None,
     reserved |-> 0, failed |-> FALSE, lost |-> {}]

DirectoryType ==
    [entry : [Names -> Files \cup {Local, None}], synced : SUBSET Names,
     part : {"unnamed", "named", None}, reserved : Int, failed : BOOLEAN,
     lost : SUBSET (Files \cup {Local})]

\* StagingFile::create: an unnamed inode, or a private name where there are none; a tree
\* is always staged under a private name.
Kinds == {"unnamed", "named"}

----------------------------------------------------------------------------
(* Reservation and PendingFile, PendingDirectory.                          *)

HasQuota(d) == d.reserved < MaxTransfers

Reserve(d, kind) == [d EXCEPT !.reserved = @ + 1, !.part = kind]

Pending(file, kind) ==
    [file |-> file, kind |-> kind, received |-> 0, state |-> "Receiving", attempt |-> 0]

Pendings ==
    [file : Files, kind : Kinds, received : Nat,
     state : {"Receiving", "Verified", "Published"}, attempt : 0..MaxConflicts]

\* An unlink of private names may fail; closing an unnamed inode cannot.
Unlinks(p) == IF p.kind = "named" /\ p.state # "Published" THEN BOOLEAN ELSE {TRUE}

\* A faulty Drop: the charge is given back whatever became of the staging name.
DropAlwaysReleases(d, ok) ==
    [d EXCEPT !.part = IF ok THEN None ELSE @, !.failed = @ \/ ~ok, !.reserved = @ - 1]

\* Drop of a pending object: cleanup touches only its private names, and a charge is
\* given back only with the disk space it stands for.
Drop(d, ok) ==
    IF ok THEN [d EXCEPT !.part = None, !.reserved = @ - 1]
    ELSE [d EXCEPT !.failed = TRUE]

\* A tree whose staging could be neither opened nor removed again.
HalfMade(d) == Drop(Reserve(d, "named"), FALSE)

Written(p) == [p EXCEPT !.received = @ + 1]

Complete(p) == p.received = Size[p.file]

Verified(p) == [p EXCEPT !.state = "Verified"]

----------------------------------------------------------------------------
(* Publication.                                                            *)

Target(p) == <<p.file, p.attempt>>

\* linkat, and renameat with NOREPLACE, answer EXIST.
Occupied(d, p) == d.entry[Target(p)] # None

MayRename(p) == KeepBoth /\ p.attempt < MaxConflicts

Renamed(p) == [p EXCEPT !.attempt = @ + 1]

\* The name and its content appear in one step, and the staging name is gone.
Publish(d, p) == [d EXCEPT !.entry[Target(p)] = p.file, !.part = None]

Placing(p) == [p EXCEPT !.state = "Published"]

\* fsync of the directory makes every name in it durable.
SyncDirectory(d) == [d EXCEPT !.synced = {n \in Names : d.entry[n] # None}]

----------------------------------------------------------------------------
(* What happens to the directory from outside.                             *)

\* Another program of the user makes a file.
LocalCreate(d, name) == [d EXCEPT !.entry[name] = Local, !.synced = @ \cup {name}]

\* The process dies: an unnamed inode goes with it, a private name stays for local
\* cleanup.  A power failure also loses some of the names that were never synced.
Unsynced(d) == {n \in Names : d.entry[n] # None} \ d.synced

Crashed(d, gone) ==
    [d EXCEPT !.entry = [n \in Names |-> IF n \in gone THEN None ELSE @[n]],
              !.part = IF @ = "named" THEN @ ELSE None,
              !.lost = {d.entry[n] : n \in gone}]

\* The names a file is published under.
Placed(d, f) == {n \in Names : d.entry[n] = f}

\* The names other programs hold.
Locals(d) == {n \in Names : d.entry[n] = Local}

=============================================================================
