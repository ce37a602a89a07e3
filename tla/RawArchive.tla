------------------------------ MODULE RawArchive ------------------------------
(* Old messages are copied to archive files.  A runner (the worker, or the   *)
(* command of an operator) reads the oldest messages that no archive holds,  *)
(* writes them to a file named after the chat of the first and the second of *)
(* the clock, and then marks them.  Nothing locks the messages meanwhile,    *)
(* and a runner may stop at any point.                                       *)
EXTENDS Integers, Sequences, FiniteSets
LOCAL INSTANCE FiniteSetsExt

CONSTANTS OldMessages,  \* sequence of the chats of the messages, oldest first
          TargetChats,  \* QINTOPIA_PROFILE_TARGET_CHAT_IDS
          Runners,
          ArchiveLimit, \* messages of a batch
          MaxSecond,    \* bound: the clock
          MaxFiles      \* bound: files created

ASSUME LimitNumber == ArchiveLimit \in Nat

VARIABLES aged,      \* how many messages are older than the cutoff
          marks,     \* message |-> the file its row names
          files,     \* name |-> the messages in the file, {} while it is written
          archives,  \* rows of raw_message_archives: [name, of]
          batch_,    \* runner |-> [at, of, name]
          second,
          created    \* name |-> how often a file of that name was created
avars == <<aged, marks, files, archives, batch_, second, created>>

NoBatch == [at |-> "idle", of |-> {}, name |-> <<>>]

ArchiveInit ==
    /\ aged = 0 /\ marks = <<>> /\ files = <<>> /\ archives = {}
    /\ batch_ = [r \in Runners |-> NoBatch]
    /\ second = 0 /\ created = <<>>

Keep(f, k, v) == [i \in DOMAIN f \cup {k} |-> IF i = k THEN v ELSE f[i]]

Ages == /\ aged < Len(OldMessages) /\ aged' = aged + 1
        /\ UNCHANGED <<marks, files, archives, batch_, second, created>>
NextSecond == /\ second < MaxSecond /\ second' = second + 1
              /\ UNCHANGED <<aged, marks, files, archives, batch_, created>>

\* A request for one chat must name a target.
target_chat_ids(chat_id) ==
    IF chat_id = "all" THEN TargetChats ELSE {chat_id} \cap TargetChats

\* The oldest messages of the chats that are not marked, up to the limit.
Candidates(C) == {i \in 1 .. aged : OldMessages[i] \in C /\ i \notin DOMAIN marks}
load_archive_candidates(C) ==
    {i \in Candidates(C) : Cardinality({j \in Candidates(C) : j < i}) < ArchiveLimit}

\* A dry run, and a run without an archive directory, end here.
run_inner(r, chat_id) ==
    /\ batch_[r].at = "idle"
    /\ \E rows \in {load_archive_candidates(target_chat_ids(chat_id))} :
         /\ rows # {}
         /\ batch_' = [batch_ EXCEPT ![r] = [at |-> "loaded", of |-> rows, name |-> <<>>]]
    /\ UNCHANGED <<aged, marks, files, archives, second, created>>

\* The file is created, or emptied when it exists, and then filled.  What two
\* runners that write one file leave in it is one's, or a mixture, shown as
\* the empty set.
CreateFile(r) ==
    /\ batch_[r].at = "loaded" /\ MapThenSumSet(LAMBDA n : created[n], DOMAIN created) < MaxFiles
    /\ \E name \in {<<OldMessages[Min(batch_[r].of)], second>>} :
         /\ batch_' = [batch_ EXCEPT ![r].at = "writing", ![r].name = name]
         /\ files' = Keep(files, name, {})
         /\ created' = Keep(created, name, 1 + IF name \in DOMAIN created THEN created[name] ELSE 0)
    /\ UNCHANGED <<aged, marks, archives, second>>
write_archive(r) ==
    /\ batch_[r].at = "writing"
    /\ batch_' = [batch_ EXCEPT ![r].at = "written"]
    /\ \E n \in {batch_[r].name} :
         files' \in {Keep(files, n, c) : c \in {batch_[r].of} \cup IF created[n] > 1 THEN {{}, files[n]} ELSE {}}
    /\ UNCHANGED <<aged, marks, archives, second, created>>

\* The rows are marked and the archive is recorded in one transaction.
mark_archived(r) ==
    /\ batch_[r].at = "written"
    /\ marks' = [i \in DOMAIN marks \cup batch_[r].of |-> IF i \in batch_[r].of THEN batch_[r].name ELSE marks[i]]
    /\ archives' = archives \cup {[name |-> batch_[r].name, of |-> batch_[r].of]}
    /\ batch_' = [batch_ EXCEPT ![r] = NoBatch]
    /\ UNCHANGED <<aged, files, second, created>>

RunnerStops(r) ==
    /\ batch_[r].at # "idle"
    /\ batch_' = [batch_ EXCEPT ![r] = NoBatch]
    /\ UNCHANGED <<aged, marks, files, archives, second, created>>

ArchiveNext ==
    \/ Ages \/ NextSecond
    \/ \E r \in Runners :
         \/ \E c \in TargetChats \cup {"all", "other"} : run_inner(r, c)
         \/ CreateFile(r) \/ write_archive(r) \/ mark_archived(r) \/ RunnerStops(r)

Reused(name) == created[name] > 1

(* A message is marked only with an archive that was recorded with it, and   *)
(* the file still holds exactly the messages recorded for it unless another  *)
(* batch got the same name in the same second (raw_archive.rs, run_inner and *)
(* write_archive); no message outside the target chats is ever marked, and   *)
(* none is passed over for a younger one of the same batch.                  *)
ArchiveTrue ==
    /\ \A i \in DOMAIN marks : \E a \in archives : a.name = marks[i] /\ i \in a.of
    /\ \A a \in archives : ~Reused(a.name) => files[a.name] = a.of
    /\ \A a \in archives : \A i \in a.of : OldMessages[i] \in TargetChats /\ i \in DOMAIN marks
    /\ \A a \in archives : Cardinality(a.of) <= ArchiveLimit
    /\ \A a \in archives : \A i \in a.of : \A j \in 1 .. i :
         OldMessages[j] = OldMessages[i] => j \in a.of \cup DOMAIN marks
=============================================================================
