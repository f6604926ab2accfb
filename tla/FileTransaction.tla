-------------------------- MODULE FileTransaction --------------------------
(***************************************************************************)
(* The file mutations of src/src/win32/filesystem.rs: fs_write, fs_patch,  *)
(* fs_copy and fs_move.  A conditional write opens the file, compares its  *)
(* revision with the one the caller read and rewrites it, in place or in   *)
(* an NTFS transaction; the other modes prepare a temporary file and       *)
(* rename it.  Several requests run at once, other programs touch the same *)
(* names, the time budget can run out and the program can crash between    *)
(* any two steps.                                                          *)
(*                                                                         *)
(* A file is what one identity names: its contents ("torn" while they are  *)
(* partly rewritten) and a version that every change raises, which stands  *)
(* for the times, length and digest of a revision.  The parents of a path  *)
(* are pinned for the whole operation, so one directory is modelled.       *)
(***************************************************************************)
EXTENDS Naturals, Sequences

CONSTANTS
    Writers,      \* the requests
    Names,        \* the file names
    MaxOutside,   \* bound on the changes made by other programs
    MaxCrashes    \* bound on the crashes of this one

(* What a caller writes is none of the contents the model tells apart.     *)
ASSUME WritersAssumption ==
    Writers \cap {"old", "empty", "torn", "outside", "deleted", "left", "none"} = {}

Rewriting == {"conditional_in_place", "transactional"}
Publishing == {"create_new", "atomic_replace", "copy"}

Modes == Rewriting \cup Publishing \cup {"move"}

(* A copy and a move lead from one name to another, a write has one name.  *)
Operations == {o \in [mode : Modes, from : Names, to : Names] :
                  o.from # o.to <=> o.mode \in {"copy", "move"}}

VARIABLES
    entry,     \* entry[n]: the file the name leads to, 0 for none
    files,     \* files[f]: contents and version of the file with identity f
    writer,    \* writer[w]: where request w is and what it holds
    outside,   \* how often other programs changed something
    crashes    \* how often the program crashed

vars == <<entry, files, writer, outside, crashes>>

Mode(w) == writer[w].op.mode
Revision(f) == <<f, IF f = 0 THEN 0 ELSE files[f].version>>
NewFile(contents) == [contents |-> contents, version |-> 0]

NoOperation == [mode |-> "none"]

Idle ==
    [pc       |-> "idle",
     op       |-> NoOperation,
     expected |-> <<0, 0>>,   \* the revision the caller gave
     data     |-> "none",     \* what the destination is to hold
     identity |-> 0,          \* the file that is to hold it
     handle   |-> 0,          \* the file opened for writing or renaming
     source   |-> 0,          \* the file a copy reads
     locked   |-> 0,          \* the file an open transaction has changed
     draft    |-> "none",     \* what that transaction wrote
     accepted |-> FALSE,      \* WriteProgress::accepted
     trace    |-> "none",     \* history: what others could see of the write
     report   |-> "none"]     \* the outcome: failed, partial or completed

(* Handles share reading only: while a file is open here nobody else       *)
(* writes, renames or deletes it, and a transaction keeps its lock until   *)
(* it ends.                                                                *)
Owned(f) == \E w \in Writers : f \in {writer[w].handle, writer[w].locked}
\* Seeded fault: transactions and copies leave their files to others.
HeldWhileOpen(f) == \E w \in Writers : f = writer[w].handle
Held(f) == Owned(f) \/ \E w \in Writers : writer[w].source = f

Become(w, state) == writer' = [writer EXCEPT ![w] = state]
Rewrite(f, contents) == files' = [files EXCEPT ![f] = [contents |-> contents, version |-> @.version + 1]]
Released(w) == [writer[w] EXCEPT !.expected = <<0, 0>>, !.handle = 0, !.source = 0, !.locked = 0,
                                 !.draft = "none", !.accepted = FALSE]
Over(w, outcome) == [Released(w) EXCEPT !.pc = "done", !.report = outcome]
At(w, pc, modes) == writer[w].pc = pc /\ Mode(w) \in modes
Quiet == UNCHANGED <<outside, crashes>>

Init ==
    /\ entry = [n \in Names |-> IF n = CHOOSE m \in Names : TRUE THEN 1 ELSE 0]
    /\ files = <<NewFile("old")>>
    /\ writer = [w \in Writers |-> Idle]
    /\ outside = 0
    /\ crashes = 0

-----------------------------------------------------------------------------
(* Requests.                                                               *)

(* The caller reads the file and asks, with the revision it was shown.     *)
Ask(w, op) ==
    /\ writer[w].pc = "idle"
    /\ Become(w, [writer[w] EXCEPT !.pc = "asked", !.op = op, !.data = w,
                                   !.expected = Revision(entry[op.from])])
    /\ Quiet /\ UNCHANGED <<entry, files>>

(* A conditional write and a move open the file for themselves.            *)
Open(w) ==
    /\ At(w, "asked", Rewriting \cup {"move"})
    /\ LET f == entry[writer[w].op.from] IN
        IF f = 0 \/ Held(f)
          THEN Become(w, Over(w, "failed"))
          ELSE Become(w, [writer[w] EXCEPT !.pc = "opened", !.handle = f, !.identity = f,
                                           !.locked = IF Mode(w) = "transactional" THEN f ELSE 0])
    /\ Quiet /\ UNCHANGED <<entry, files>>

(* snapshot and check_revision.                                            *)
Check(w) ==
    /\ writer[w].pc = "opened"
    /\ IF Revision(writer[w].handle) # writer[w].expected
         THEN Become(w, Over(w, "failed"))
         ELSE IF Mode(w) = "move"
         THEN Become(w, [writer[w] EXCEPT !.pc = "written",
                                          !.data = files[writer[w].handle].contents])
         ELSE Become(w, [writer[w] EXCEPT !.pc = "checked"])
    /\ Quiet /\ UNCHANGED <<entry, files>>

(* A new file in the directory of the destination.                         *)
CreateTemporary(w) ==
    /\ At(w, "asked", Publishing \ {"copy"})
    /\ files' = Append(files, NewFile("empty"))
    /\ Become(w, [writer[w] EXCEPT !.pc = "checked", !.handle = Len(files) + 1,
                                   !.identity = Len(files) + 1])
    /\ Quiet /\ UNCHANGED entry

(* A copy reads and checks its source first and keeps it open.             *)
CopySource(w) ==
    /\ At(w, "asked", {"copy"})
    /\ LET f == entry[writer[w].op.from] IN
        IF f = 0 \/ Owned(f) \/ Revision(f) # writer[w].expected
          THEN Become(w, Over(w, "failed")) /\ UNCHANGED files
          ELSE /\ files' = Append(files, NewFile("empty"))
               /\ Become(w, [writer[w] EXCEPT !.pc = "checked", !.source = f,
                                              !.data = files[f].contents, !.handle = Len(files) + 1,
                                              !.identity = Len(files) + 1])
    /\ Quiet /\ UNCHANGED entry

Drafted(w, contents, pc) ==
    [writer[w] EXCEPT !.pc = pc, !.draft = contents, !.accepted = TRUE]

\* What others see of a rewritten file: part of it until all is written.
Traced(w, pc) == IF Mode(w) \notin Rewriting THEN "none"
                 ELSE IF pc = "checked" THEN "torn" ELSE "whole"

\* Seeded fault: only bytes count as accepted, not the new length.
PutBytes(w, contents, pc) ==
    IF Mode(w) = "transactional"
      THEN Become(w, Drafted(w, contents, pc)) /\ UNCHANGED files
      ELSE /\ Rewrite(writer[w].handle, contents)
           /\ Become(w, [writer[w] EXCEPT !.pc = pc, !.accepted = @ \/ contents = "torn",
                                          !.trace = Traced(w, pc)])

\* Seeded fault: the file is opened outside the transaction.
PutUntransacted(w, contents, pc) ==
    /\ Rewrite(writer[w].handle, contents)
    /\ Become(w, [Drafted(w, contents, pc) EXCEPT !.trace = Traced(w, pc)])

(* What the writer's own handle shows: the file, or the transaction's      *)
(* private version of it.                                                  *)
Put(w, contents, pc) ==
    IF Mode(w) = "transactional"
      THEN Become(w, Drafted(w, contents, pc)) /\ UNCHANGED files
      ELSE /\ Rewrite(writer[w].handle, contents)
           /\ Become(w, [writer[w] EXCEPT !.pc = pc, !.accepted = TRUE, !.trace = Traced(w, pc)])

(* Some of the bytes are accepted: write_chunks.                           *)
WriteChunk(w) ==
    /\ writer[w].pc = "checked"
    /\ ~writer[w].accepted
    /\ Put(w, "torn", "checked")
    /\ Quiet /\ UNCHANGED entry

(* The rest of the bytes, or none for empty data, and set_len.             *)
SetLength(w) ==
    /\ writer[w].pc = "checked"
    /\ Put(w, writer[w].data, "written")
    /\ Quiet /\ UNCHANGED entry

(* sync_all, preserve_write_metadata, and the file is closed.              *)
Close(w) ==
    /\ At(w, "written", Rewriting)
    /\ IF Mode(w) = "transactional"
         THEN Become(w, [writer[w] EXCEPT !.pc = "committing", !.handle = 0]) /\ UNCHANGED files
         ELSE /\ Rewrite(writer[w].handle, files[writer[w].handle].contents)
              /\ Become(w, [writer[w] EXCEPT !.pc = "observing", !.handle = 0])
    /\ Quiet /\ UNCHANGED entry

(* What an error makes of a request: a temporary file has to go, an        *)
(* in-place write that has begun is partial, the others changed nothing.   *)
Stopped(w) ==
    CASE Mode(w) \in Publishing -> [writer[w] EXCEPT !.pc = "cleaning"]
      [] Mode(w) = "conditional_in_place" /\ writer[w].accepted -> Over(w, "partial")
      [] OTHER -> Over(w, "failed")

Fail(w) ==
    /\ writer[w].pc \in {"checked", "written", "committing"}
    /\ Become(w, Stopped(w))
    /\ Quiet /\ UNCHANGED <<entry, files>>

Commit(w) ==
    /\ writer[w].pc = "committing"
    /\ Rewrite(writer[w].identity, writer[w].draft)
    /\ Become(w, [writer[w] EXCEPT !.pc = "observing", !.locked = 0, !.draft = "none",
                                   !.trace = "whole"])
    /\ Quiet /\ UNCHANGED entry

(* The rename of a handle onto a name.  It fails on a name that is taken,  *)
(* or, when it may replace, on one whose file is open.                     *)
MayRename(w) ==
    LET f == entry[writer[w].op.to] IN f = 0 \/ (Mode(w) = "atomic_replace" /\ ~Held(f))

Publish(w) ==
    /\ At(w, "written", Publishing \cup {"move"})
    /\ MayRename(w)
    /\ entry' = [entry EXCEPT ![writer[w].op.from] = IF Mode(w) = "move" THEN 0 ELSE @,
                              ![writer[w].op.to] = writer[w].handle]
    /\ Become(w, [writer[w] EXCEPT !.pc = "observing", !.handle = 0, !.trace = "whole"])
    /\ Quiet /\ UNCHANGED files

(* The temporary file is deleted; when that fails, once more as it is      *)
(* dropped, and then it stays.                                             *)
Discard(w) ==
    /\ writer[w].pc \in {"cleaning", "dropping"}
    /\ files' = [files EXCEPT ![writer[w].handle].contents = "deleted"]
    /\ Become(w, Over(w, "failed"))
    /\ Quiet /\ UNCHANGED entry

DiscardFails(w) ==
    /\ writer[w].pc \in {"cleaning", "dropping"}
    /\ IF writer[w].pc = "cleaning"
         THEN Become(w, [writer[w] EXCEPT !.pc = "dropping"]) /\ UNCHANGED files
         ELSE /\ files' = [files EXCEPT ![writer[w].handle].contents = "left"]
              /\ Become(w, Over(w, "failed"))
    /\ Quiet /\ UNCHANGED entry

(* observe_written: the name is opened again, and must lead to the same    *)
(* file with the same contents.                                            *)
Observed(w) ==
    LET f == entry[writer[w].op.to] IN
    f = writer[w].identity /\ ~Owned(f) /\ files[f].contents = writer[w].data

Observe(w) ==
    /\ writer[w].pc = "observing"
    /\ \E inTime \in BOOLEAN :
        Become(w, Over(w, IF inTime /\ Observed(w) THEN "completed" ELSE "partial"))
    /\ Quiet /\ UNCHANGED <<entry, files>>

-----------------------------------------------------------------------------
(* Everybody else.                                                         *)

OutsideChanges(n) ==
    /\ outside < MaxOutside
    /\ entry[n] # 0 /\ ~Held(entry[n])
    /\ Rewrite(entry[n], "outside")
    /\ outside' = outside + 1
    /\ UNCHANGED <<entry, writer, crashes>>

OutsideRemoves(n) ==
    /\ outside < MaxOutside
    /\ entry[n] # 0 /\ ~Held(entry[n])
    /\ entry' = [entry EXCEPT ![n] = 0]
    /\ outside' = outside + 1
    /\ UNCHANGED <<files, writer, crashes>>

OutsideCreates(n) ==
    /\ outside < MaxOutside
    /\ entry[n] = 0
    /\ files' = Append(files, NewFile("outside"))
    /\ entry' = [entry EXCEPT ![n] = Len(files) + 1]
    /\ outside' = outside + 1
    /\ UNCHANGED <<writer, crashes>>

(* The program dies: the system closes its handles and rolls its           *)
(* transactions back.  Requests that come later find what it left.         *)
Running(w) == writer[w].pc \notin {"idle", "done", "lost"}

Crash ==
    /\ crashes < MaxCrashes
    /\ \E w \in Writers : Running(w)
    /\ crashes' = crashes + 1
    /\ writer' = [w \in Writers |->
         IF Running(w)
           THEN [Released(w) EXCEPT !.pc = "lost"]
           ELSE writer[w]]
    /\ UNCHANGED <<entry, files, outside>>

Request(w) ==
    \/ \E op \in Operations : Ask(w, op)
    \/ Open(w) \/ Check(w) \/ CreateTemporary(w) \/ CopySource(w)
    \/ WriteChunk(w) \/ SetLength(w) \/ Close(w) \/ Fail(w) \/ Commit(w)
    \/ Publish(w) \/ Discard(w) \/ DiscardFails(w) \/ Observe(w)

Next ==
    \/ \E w \in Writers : Request(w)
    \/ \E n \in Names : OutsideChanges(n) \/ OutsideRemoves(n) \/ OutsideCreates(n)
    \/ Crash

Spec == Init /\ [][Next]_vars

-----------------------------------------------------------------------------
(* Properties.                                                             *)

(* Every name leads to a file that exists, every request is at one of its  *)
(* steps and holds files that exist.                                       *)
Contents == Writers \cup {"old", "empty", "torn", "outside", "deleted", "left"}

Steps == {"idle", "asked", "opened", "checked", "written", "committing", "cleaning", "dropping",
          "observing", "done", "lost"}

States(count) ==
    [pc : Steps, op : Operations \cup {NoOperation}, expected : Nat \X Nat,
     data : Contents \cup {"none"}, identity : 0..count, handle : 0..count, source : 0..count,
     locked : 0..count, draft : Contents \cup {"none"}, accepted : BOOLEAN,
     trace : {"none", "torn", "whole"}, report : {"none", "failed", "partial", "completed"}]

TypeOK ==
    /\ files \in Seq([contents : Contents, version : Nat])
    /\ entry \in [Names -> 0..Len(files)]
    /\ writer \in [Writers -> States(Len(files))]
    /\ outside \in Nat /\ crashes \in Nat

(* No update is lost: at the first moment others can see anything of a     *)
(* write, a copy or a move, the file it goes by still has the revision its *)
(* caller read, whatever other requests and programs did since.            *)
NoUpdateIsLost ==
    [][\A w \in Writers :
        writer[w].trace = "none" /\ writer'[w].trace # "none" =>
            CASE Mode(w) \in Rewriting \cup {"move"} -> Revision(writer[w].identity) = writer[w].expected
              [] Mode(w) = "copy" -> Revision(writer[w].source) = writer[w].expected
              [] OTHER -> TRUE]_vars

(* What mutation_result and the errors tell the caller is what happened: a *)
(* request that failed changed nothing, one that is partial or unobserved  *)
(* left something, a completed one all of it.                              *)
OutcomesAreTrue ==
    \A w \in Writers :
        /\ writer[w].report = "failed" => writer[w].trace = "none"
        /\ writer[w].report = "partial" => writer[w].trace # "none"
        /\ writer[w].report = "completed" => writer[w].trace = "whole"

(* Only conditional_in_place, which says so, leaves a file half written:   *)
(* what the other modes put under a name is whole, through every failure   *)
(* and crash.  (A copy of such a file is as it is.)                        *)
OnlyInPlaceTears ==
    \A n \in Names :
        /\ entry[n] # 0 => files[entry[n]].contents \notin {"empty", "deleted", "left"}
        /\ entry[n] # 0 /\ files[entry[n]].contents = "torn" =>
              \E w \in Writers :
                 /\ writer[w].identity = entry[n]
                 /\ \/ Mode(w) = "conditional_in_place" /\ writer[w].trace = "torn"
                    \/ Mode(w) = "copy" /\ writer[w].data = "torn"
=============================================================================
