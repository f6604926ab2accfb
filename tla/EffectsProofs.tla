--------------------------- MODULE EffectsProofs ----------------------------
(***************************************************************************)
(* Theorems of FileTransaction and of HostLifecycle, for every set of      *)
(* requests, names and connections, every limit, and every number of       *)
(* changes made by other programs and of crashes.  In FileTransaction the  *)
(* inductive invariant says which file a request relies on once it has     *)
(* compared the revision, and that nobody else may change that file.  In   *)
(* HostLifecycle it says who is registered with which manager, and that    *)
(* whoever may still start something can be canceled or has been.          *)
(***************************************************************************)
EXTENDS MCEffects, SequenceTheorems, FiniteSetTheorems, TLAPS

----------------------------------------------------------------------------
(* The inductive invariant.                                                *)

Owns(w) == {writer[w].handle, writer[w].locked}

\* What one request has open for writing no other has open at all.
LockInv ==
    \A w, v \in Writers : \A f \in Owns(w) :
        w # v /\ f # 0 => f \notin Owns(v) \cup {writer[v].source}

Compared == {"checked", "written", "committing"}
Guarded == Rewriting \cup {"move"}

\* A request that compared a revision holds the file it belongs to.
PinOf(w) ==
    /\ writer[w].pc \in {"idle", "asked"} =>
          writer[w].handle = 0 /\ writer[w].locked = 0 /\ writer[w].source = 0
    /\ writer[w].pc \in {"opened", "checked", "written"} /\ Mode(w) \in Guarded =>
          writer[w].handle = writer[w].identity /\ writer[w].identity # 0
    /\ writer[w].pc \in {"opened"} \cup Compared /\ Mode(w) = "transactional" =>
          writer[w].locked = writer[w].identity /\ writer[w].identity # 0
    /\ writer[w].pc \in {"checked", "written", "cleaning", "dropping"} => writer[w].handle # 0
    /\ writer[w].pc = "opened" => Mode(w) \in Guarded
    /\ writer[w].pc = "checked" => Mode(w) # "move"
    /\ writer[w].pc = "committing" => Mode(w) = "transactional"
    /\ writer[w].pc \in Compared /\ Mode(w) = "copy" =>
          writer[w].source # 0 /\ writer[w].source # writer[w].handle
    /\ writer[w].pc \in {"asked", "opened", "checked"} => writer[w].data \in Contents
    /\ writer[w].pc \in {"written", "committing"} /\ Mode(w) = "transactional" =>
          writer[w].draft \in Contents

\* Until others see anything of it, the file still has the revision that was compared.
RevisionOf(w) ==
    /\ writer[w].pc \in Compared /\ Mode(w) \in Guarded /\ writer[w].trace = "none" =>
          Revision(writer[w].identity) = writer[w].expected
    /\ writer[w].pc \in Compared /\ Mode(w) = "copy" =>
          Revision(writer[w].source) = writer[w].expected

\* How far a request is says what others can see of it.
TraceOf(w) ==
    /\ writer[w].pc # "done" => writer[w].report = "none"
    /\ writer[w].pc \in {"idle", "asked", "opened", "committing", "cleaning", "dropping"} =>
          writer[w].trace = "none"
    /\ writer[w].pc \in {"checked", "written"} /\ Mode(w) # "conditional_in_place" =>
          writer[w].trace = "none"
    /\ writer[w].pc = "checked" /\ Mode(w) = "conditional_in_place" =>
          (writer[w].accepted <=> writer[w].trace # "none")
    /\ writer[w].pc = "written" /\ Mode(w) = "conditional_in_place" =>
          writer[w].accepted /\ writer[w].trace = "whole"
    /\ writer[w].pc = "observing" => writer[w].trace = "whole"
    /\ writer[w].pc \in {"idle", "asked", "opened"} => ~writer[w].accepted

OutcomeOf(w) ==
    /\ writer[w].report = "failed" => writer[w].trace = "none"
    /\ writer[w].report = "partial" => writer[w].trace # "none"
    /\ writer[w].report = "completed" => writer[w].trace = "whole"

PinInv == \A w \in Writers : PinOf(w)
RevisionInv == \A w \in Writers : RevisionOf(w)
TraceInv == \A w \in Writers : TraceOf(w)

Inv == TypeOK /\ LockInv /\ PinInv /\ RevisionInv /\ TraceInv /\ OutcomesAreTrue

----------------------------------------------------------------------------
(* Files.                                                                  *)

File == [contents : Contents, version : Nat]

\* What a new file is added to and what becomes of one that is changed.
LEMMA FilesGrow ==
    ASSUME files \in Seq(File), NEW g \in File
    PROVE  /\ Append(files, g) \in Seq(File)
           /\ Len(Append(files, g)) = Len(files) + 1
           /\ \A f \in 1..Len(files) : Append(files, g)[f] = files[f]
BY AppendProperties

LEMMA FilesChange ==
    ASSUME files \in Seq(File), NEW f \in 1..Len(files), NEW g \in File
    PROVE  /\ [files EXCEPT ![f] = g] \in Seq(File)
           /\ Len([files EXCEPT ![f] = g]) = Len(files)
           /\ \A h \in 1..Len(files) \ {f} : [files EXCEPT ![f] = g][h] = files[h]
BY ExceptSeq

\* What a rewrite of an existing file does.
LEMMA FileRewritten ==
    ASSUME files \in Seq(File), NEW f \in 1..Len(files), NEW contents \in Contents,
           Rewrite(f, contents)
    PROVE  /\ files' \in Seq(File)
           /\ Len(files') = Len(files)
           /\ \A h \in 1..Len(files) \ {f} : files'[h] = files[h]
<1> DEFINE g == [contents |-> contents, version |-> files[f].version + 1]
<1>1. files[f] \in File
  BY ElementOfSeq
<1>2. g \in File
  BY <1>1 DEF File
<1>3. files' = [files EXCEPT ![f] = g]
  BY DEF Rewrite
<1> HIDE DEF g
<1> QED
  BY <1>2, <1>3, FilesChange

----------------------------------------------------------------------------
(* The frame of a step of one request: its own record, and no file that it *)
(* does not own.                                                           *)

Moves(w) ==
    /\ Len(files) <= Len(files')
    /\ files' \in Seq(File)
    /\ writer' \in [Writers -> States(Len(files'))]
    /\ \A v \in Writers \ {w} : writer'[v] = writer[v]
    /\ \A f \in 1..Len(files) \ Owns(w) : files'[f].version = files[f].version
    /\ entry' \in [Names -> 0..Len(files')]
    /\ outside' \in Nat /\ crashes' \in Nat

\* What it opens was open to nobody, what it reads is written by nobody.
Takes(w) ==
    /\ \A f \in Owns(w)' : f = 0 \/ f \in Owns(w) \/ f = Len(files) + 1 \/ ~Held(f)
    /\ writer'[w].source \in {0, writer[w].source} \/ ~Owned(writer'[w].source)

Own(w) == PinOf(w) /\ RevisionOf(w) /\ TraceOf(w) /\ OutcomeOf(w)

\* What NoUpdateIsLost says of one request.
KeepsUpdates(w) ==
    writer[w].trace = "none" /\ writer'[w].trace # "none" =>
        CASE Mode(w) \in Rewriting \cup {"move"} -> Revision(writer[w].identity) = writer[w].expected
          [] Mode(w) = "copy" -> Revision(writer[w].source) = writer[w].expected
          [] OTHER -> TRUE

RequestMoves(w) == Moves(w) /\ Takes(w) /\ Own(w)' /\ KeepsUpdates(w)

LEMMA StatesGrow ==
    ASSUME NEW m \in Nat, NEW n \in Nat, m <= n, NEW r \in States(m)
    PROVE  r \in States(n)
<1>1. 0..m \subseteq 0..n
  OBVIOUS
<1> QED
  BY <1>1 DEF States

\* A step that gives the request a record of the right type.
LEMMA Becomes ==
    ASSUME TypeOK, NEW w \in Writers, NEW r, r \in States(Len(files')), Become(w, r),
           files' \in Seq(File), Len(files) <= Len(files')
    PROVE  /\ writer' \in [Writers -> States(Len(files'))]
           /\ writer'[w] = r
           /\ \A v \in Writers \ {w} : writer'[v] = writer[v]
<1>1. Len(files) \in Nat /\ Len(files') \in Nat
  BY LenProperties DEF TypeOK, File
<1>2. \A v \in Writers : writer[v] \in States(Len(files'))
  BY <1>1, StatesGrow DEF TypeOK
<1> QED
  BY <1>2 DEF TypeOK, Become

\* The files as TypeOK has them.
LEMMA Typed ==
    ASSUME TypeOK
    PROVE  /\ files \in Seq(File)
           /\ Len(files) \in Nat
           /\ \A w \in Writers : writer[w] \in States(Len(files))
           /\ \A w \in Writers : Owns(w) \subseteq 0..Len(files)
           /\ \A w \in Writers : writer[w].source \in 0..Len(files)
           /\ \A f \in 1..Len(files) : files[f] \in File
<1>1. files \in Seq(File)
  BY DEF TypeOK, File
<1>2. Len(files) \in Nat
  BY <1>1, LenProperties
<1>3. \A f \in 1..Len(files) : files[f] \in File
  BY <1>1, ElementOfSeq
<1>4. \A w \in Writers : writer[w] \in States(Len(files))
  BY DEF TypeOK
<1>5. \A w \in Writers : Owns(w) \subseteq 0..Len(files) /\ writer[w].source \in 0..Len(files)
  BY <1>4 DEF States, Owns
<1> QED
  BY <1>1, <1>2, <1>3, <1>4, <1>5

\* What one request does leaves the others what they have.
LEMMA RequestStep ==
    ASSUME Inv, NEW w \in Writers, Moves(w), Takes(w), Own(w)'
    PROVE  Inv'
<1>1. TypeOK'
  BY DEF Moves, TypeOK, File
<1>2. LockInv'
  <2> SUFFICES ASSUME NEW u \in Writers, NEW v \in Writers, NEW f \in Owns(u)', u # v, f # 0
               PROVE  f \notin (Owns(v) \cup {writer[v].source})'
    BY DEF LockInv
  <2>1. \A x \in Writers \ {w} : Owns(x)' = Owns(x) /\ writer'[x] = writer[x]
    BY DEF Moves, Owns
  <2>2. \A x \in Writers : Len(files) + 1 \notin Owns(x) \cup {writer[x].source}
    BY Typed DEF Inv
  <2>3. CASE u = w
    <3>1. v # w
      BY <2>3
    <3>2. f \in Owns(w) \/ f = Len(files) + 1 \/ ~Held(f)
      BY <2>3 DEF Takes
    <3>3. f \notin Owns(v) \cup {writer[v].source}
      BY <3>1, <3>2, <2>2 DEF Held, Owned, Owns, Inv, LockInv
    <3> QED
      BY <3>1, <3>3, <2>1
  <2>4. CASE v = w
    <3>1. u # w /\ f \in Owns(u)
      BY <2>4, <2>1
    <3>2. f \notin Owns(w) /\ f # writer[w].source /\ f # Len(files) + 1
      BY <3>1, <2>2 DEF Inv, LockInv
    <3>3. Held(f) /\ Owned(f)
      BY <3>1 DEF Held, Owned, Owns
    <3>4. f \notin Owns(w)'
      BY <3>2, <3>3 DEF Takes
    <3>5. f # writer'[w].source
      BY <3>2, <3>3 DEF Takes
    <3> QED
      BY <2>4, <3>4, <3>5
  <2>5. CASE u # w /\ v # w
    BY <2>5, <2>1 DEF Inv, LockInv
  <2> QED
    BY <2>3, <2>4, <2>5
<1>3. \A v \in Writers \ {w} : Own(v)'
  <2> SUFFICES ASSUME NEW v \in Writers \ {w}
               PROVE  Own(v)'
    OBVIOUS
  <2>1. writer'[v] = writer[v]
    BY DEF Moves
  <2>2. PinOf(v) /\ RevisionOf(v) /\ TraceOf(v) /\ OutcomeOf(v)
    BY DEF Inv, PinInv, RevisionInv, TraceInv, OutcomesAreTrue, OutcomeOf
  <2>3. PinOf(v)' /\ TraceOf(v)' /\ OutcomeOf(v)'
    BY <2>1, <2>2 DEF PinOf, TraceOf, OutcomeOf, Mode
  <2>4. \A f \in (Owns(v) \cup {writer[v].source}) \ {0} :
           f \in 1..Len(files) /\ f \notin Owns(w)
    BY Typed DEF Inv, LockInv
  <2>5. \A f \in (Owns(v) \cup {writer[v].source}) \ {0} : Revision(f)' = Revision(f)
    BY <2>4 DEF Moves, Revision
  <2>6. writer[v].pc \in Compared /\ Mode(v) \in Guarded =>
           writer[v].identity \in Owns(v) \ {0}
    BY <2>2 DEF PinOf, Owns, Compared, Guarded, Rewriting
  <2>7. writer[v].pc \in Compared /\ Mode(v) = "copy" => writer[v].source # 0
    BY <2>2 DEF PinOf
  <2>8. RevisionOf(v)'
    BY <2>1, <2>2, <2>5, <2>6, <2>7 DEF RevisionOf, Mode, Revision
  <2> QED
    BY <2>3, <2>8 DEF Own
<1>4. \A v \in Writers : Own(v)'
  BY <1>3
<1> QED
  BY <1>1, <1>2, <1>4 DEF Inv, Own, PinInv, RevisionInv, TraceInv, OutcomesAreTrue, OutcomeOf

----------------------------------------------------------------------------
(* The three ways in which a step of a request changes the files: not at   *)
(* all, by rewriting one that it owns, by creating a new one.              *)

LEMMA FilesStay ==
    ASSUME Inv, NEW w \in Writers, NEW r \in States(Len(files)), Become(w, r), Quiet,
           files' = files, entry' \in [Names -> 0..Len(files)]
    PROVE  /\ Moves(w)
           /\ writer'[w] = r
           /\ \A f : Revision(f)' = Revision(f)
<1>1. files \in Seq(File) /\ Len(files) \in Nat
  BY Typed DEF Inv
<1>2. /\ writer' \in [Writers -> States(Len(files'))]
      /\ writer'[w] = r
      /\ \A v \in Writers \ {w} : writer'[v] = writer[v]
  BY <1>1, Becomes DEF Inv
<1>3. outside' \in Nat /\ crashes' \in Nat
  BY DEF Quiet, Inv, TypeOK
<1> QED
  BY <1>1, <1>2, <1>3 DEF Moves, Revision

LEMMA OwnFileChanges ==
    ASSUME Inv, NEW w \in Writers, NEW f \in Owns(w) \ {0}, NEW contents \in Contents,
           Rewrite(f, contents), NEW r \in States(Len(files)), Become(w, r), Quiet, entry' = entry
    PROVE  /\ Moves(w)
           /\ writer'[w] = r
           /\ \A g \in 0..Len(files) : g # f => Revision(g)' = Revision(g)
<1>1. files \in Seq(File) /\ Len(files) \in Nat /\ f \in 1..Len(files)
  BY Typed DEF Inv
<1>2. files' \in Seq(File) /\ Len(files') = Len(files)
      /\ \A h \in 1..Len(files) \ {f} : files'[h] = files[h]
  BY <1>1, FileRewritten
<1>3. /\ writer' \in [Writers -> States(Len(files'))]
      /\ writer'[w] = r
      /\ \A v \in Writers \ {w} : writer'[v] = writer[v]
  BY <1>1, <1>2, Becomes DEF Inv
<1>4. outside' \in Nat /\ crashes' \in Nat /\ entry' \in [Names -> 0..Len(files')]
  BY <1>2 DEF Quiet, Inv, TypeOK
<1>5. Moves(w)
  BY <1>1, <1>2, <1>3, <1>4 DEF Moves
<1>6. \A g \in 0..Len(files) : g # f => Revision(g)' = Revision(g)
  BY <1>1, <1>2 DEF Revision
<1> QED
  BY <1>3, <1>5, <1>6

LEMMA FileCreated ==
    ASSUME Inv, NEW w \in Writers, files' = Append(files, NewFile("empty")),
           NEW r \in States(Len(files) + 1), Become(w, r), Quiet, entry' = entry
    PROVE  /\ Moves(w)
           /\ writer'[w] = r
           /\ \A g \in 0..Len(files) : Revision(g)' = Revision(g)
<1>1. files \in Seq(File) /\ Len(files) \in Nat
  BY Typed DEF Inv
<1>2. NewFile("empty") \in File
  BY DEF NewFile, File, Contents
<1>3. files' \in Seq(File) /\ Len(files') = Len(files) + 1
      /\ \A h \in 1..Len(files) : files'[h] = files[h]
  BY <1>1, <1>2, FilesGrow
<1>4. /\ writer' \in [Writers -> States(Len(files'))]
      /\ writer'[w] = r
      /\ \A v \in Writers \ {w} : writer'[v] = writer[v]
  BY <1>1, <1>3, Becomes DEF Inv
<1>5. 0..Len(files) \subseteq 0..Len(files')
  BY <1>1, <1>3
<1>6. outside' \in Nat /\ crashes' \in Nat /\ entry' \in [Names -> 0..Len(files')]
  BY <1>5 DEF Quiet, Inv, TypeOK
<1>7. Len(files) <= Len(files')
  BY <1>1, <1>3
<1>8. Moves(w)
  BY <1>1, <1>3, <1>4, <1>6, <1>7 DEF Moves
<1>9. \A g \in 0..Len(files) : Revision(g)' = Revision(g)
  BY <1>1, <1>3 DEF Revision
<1> QED
  BY <1>4, <1>8, <1>9

\* A request that is over holds nothing.
LEMMA OverTyped ==
    ASSUME Inv, NEW w \in Writers, NEW outcome \in {"failed", "partial", "completed"}
    PROVE  Over(w, outcome) \in States(Len(files))
<1>1. writer[w] \in States(Len(files)) /\ Len(files) \in Nat
  BY Typed DEF Inv
<1>2. 0 \in Nat /\ <<0, 0>> \in Nat \X Nat /\ 0 \in 0..Len(files)
  BY <1>1
<1> QED
  BY ZenonT(60), <1>1, <1>2 DEF Over, Released, States, Steps

LEMMA IsOver ==
    ASSUME Inv, NEW w \in Writers, NEW outcome \in {"failed", "partial", "completed"},
           Become(w, Over(w, outcome)), Quiet, files' = files, entry' = entry,
           outcome = "failed" => writer[w].trace = "none",
           outcome = "partial" => writer[w].trace # "none",
           outcome = "completed" => writer[w].trace = "whole"
    PROVE  RequestMoves(w)
<1>1. entry' \in [Names -> 0..Len(files)]
  BY DEF Inv, TypeOK
<1>2. Moves(w) /\ writer'[w] = Over(w, outcome)
  BY <1>1, OverTyped, FilesStay
<1>3. writer'[w] = [writer[w] EXCEPT !.expected = <<0, 0>>, !.handle = 0, !.source = 0,
                                     !.locked = 0, !.draft = "none", !.accepted = FALSE,
                                     !.pc = "done", !.report = outcome]
  BY <1>2 DEF Over, Released
<1>4. /\ writer'[w].pc = "done" /\ writer'[w].handle = 0 /\ writer'[w].locked = 0
      /\ writer'[w].source = 0 /\ writer'[w].report = outcome /\ writer'[w].trace = writer[w].trace
  BY <1>3, Typed DEF Inv, States
<1>5. Takes(w)
  BY <1>4 DEF Takes, Owns
<1>6. Own(w)'
  BY <1>4 DEF Own, PinOf, RevisionOf, TraceOf, OutcomeOf, Compared
<1> QED
  BY <1>2, <1>4, <1>5, <1>6 DEF RequestMoves, KeepsUpdates

----------------------------------------------------------------------------
(* The steps of a request.                                                 *)

LEMMA AskMoves ==
    ASSUME Inv, NEW w \in Writers, NEW op \in Operations, Ask(w, op)
    PROVE  RequestMoves(w)
<1> DEFINE r == [writer[w] EXCEPT !.pc = "asked", !.op = op, !.data = w,
                                  !.expected = Revision(entry[op.from])]
<1>1. writer[w] \in States(Len(files)) /\ entry' \in [Names -> 0..Len(files)]
  BY Typed DEF Inv, TypeOK, Ask
<1>2. Revision(entry[op.from]) \in Nat \X Nat
  <2>1. op.from \in Names
    BY DEF Operations
  <2>2. entry[op.from] \in 0..Len(files)
    BY <2>1 DEF Inv, TypeOK
  <2>3. entry[op.from] # 0 => files[entry[op.from]].version \in Nat
    BY <2>2, Typed DEF Inv, File
  <2> QED
    BY <2>2, <2>3, Typed DEF Revision, Inv
<1>3. r \in States(Len(files))
  BY ZenonT(60), <1>1, <1>2 DEF States, Steps, Contents
<1>4. Moves(w) /\ writer'[w] = r
  BY <1>1, <1>3, FilesStay DEF Ask
<1>5. writer[w].pc = "idle" /\ PinOf(w) /\ TraceOf(w) /\ OutcomeOf(w)
  BY DEF Ask, Inv, PinInv, TraceInv, OutcomesAreTrue, OutcomeOf
<1>6. /\ writer'[w].pc = "asked" /\ writer'[w].handle = writer[w].handle
      /\ writer'[w].locked = writer[w].locked /\ writer'[w].source = writer[w].source
      /\ writer'[w].trace = writer[w].trace /\ writer'[w].report = writer[w].report
      /\ writer'[w].accepted = writer[w].accepted /\ writer'[w].data = w
  BY <1>1, <1>4 DEF States
<1>7. Takes(w)
  BY <1>6 DEF Takes, Owns
<1>8. Own(w)'
  BY <1>5, <1>6 DEF Own, PinOf, RevisionOf, TraceOf, OutcomeOf, Compared, Contents
<1> QED
  BY <1>4, <1>6, <1>7, <1>8 DEF RequestMoves, KeepsUpdates

LEMMA OpenMoves ==
    ASSUME Inv, NEW w \in Writers, Open(w)
    PROVE  RequestMoves(w)
<1> DEFINE f == entry[writer[w].op.from]
           l == IF Mode(w) = "transactional" THEN f ELSE 0
           r == [writer[w] EXCEPT !.pc = "opened", !.handle = f, !.identity = f, !.locked = l]
<1>1. writer[w] \in States(Len(files)) /\ entry' \in [Names -> 0..Len(files)]
  BY Typed DEF Inv, TypeOK, Open
<1>2. writer[w].pc = "asked" /\ Mode(w) \in Guarded /\ PinOf(w) /\ TraceOf(w) /\ OutcomeOf(w)
  BY DEF Open, At, Guarded, Inv, PinInv, TraceInv, OutcomesAreTrue, OutcomeOf
<1>3. f \in 0..Len(files)
  <2>1. writer[w].op # NoOperation
    BY <1>2 DEF Mode, Guarded, Rewriting, NoOperation
  <2>2. writer[w].op.from \in Names
    BY <1>1, <2>1 DEF States, Operations
  <2> QED
    BY <2>2 DEF Inv, TypeOK
<1>4. CASE f = 0 \/ Held(f)
  BY <1>2, <1>4, IsOver DEF Open, TraceOf
<1>5. CASE f # 0 /\ ~Held(f)
  <2>1. r \in States(Len(files))
    <3>1. l \in 0..Len(files)
      BY <1>3, Typed DEF Inv
    <3> HIDE DEF f, l
    <3> QED
      BY <1>1, <1>3, <3>1 DEF States, Steps
  <2>2. Moves(w) /\ writer'[w] = r
    BY <1>1, <1>5, <2>1, FilesStay DEF Open
  <2>3. /\ writer'[w].pc = "opened" /\ writer'[w].op = writer[w].op
        /\ writer'[w].handle = f /\ writer'[w].identity = f
        /\ writer'[w].locked = (IF Mode(w) = "transactional" THEN f ELSE 0)
        /\ writer'[w].source = writer[w].source /\ writer'[w].trace = writer[w].trace
        /\ writer'[w].report = writer[w].report /\ writer'[w].accepted = writer[w].accepted
        /\ writer'[w].data = writer[w].data
    BY <1>1, <2>2 DEF States
  <2>4. Takes(w)
    BY <1>5, <2>3 DEF Takes, Owns
  <2>5. PinOf(w)'
    BY <1>2, <1>5, <2>3 DEF PinOf, Compared, Mode
  <2>6. Own(w)'
    BY <1>2, <2>3, <2>5 DEF Own, RevisionOf, TraceOf, OutcomeOf, Compared
  <2> QED
    BY <2>2, <2>3, <2>4, <2>6 DEF RequestMoves, KeepsUpdates
<1> QED
  BY <1>4, <1>5

LEMMA CheckMoves ==
    ASSUME Inv, NEW w \in Writers, Check(w)
    PROVE  RequestMoves(w)
<1>1. writer[w] \in States(Len(files)) /\ entry' \in [Names -> 0..Len(files)]
  BY Typed DEF Inv, TypeOK, Check
<1>2. writer[w].pc = "opened" /\ PinOf(w) /\ TraceOf(w) /\ OutcomeOf(w)
  BY DEF Check, Inv, PinInv, TraceInv, OutcomesAreTrue, OutcomeOf
<1>3. /\ Mode(w) \in Guarded /\ writer[w].handle = writer[w].identity /\ writer[w].identity # 0
      /\ Mode(w) = "transactional" => writer[w].locked = writer[w].identity
  BY <1>2 DEF PinOf
<1>4. CASE Revision(writer[w].handle) # writer[w].expected
  BY <1>2, <1>4, IsOver DEF Check, TraceOf
<1>5. CASE Revision(writer[w].handle) = writer[w].expected
  <2>1. PICK pc \in {"checked", "written"}, data \in Contents :
           /\ Become(w, [writer[w] EXCEPT !.pc = pc, !.data = data])
           /\ pc = "written" <=> Mode(w) = "move"
    <3>1. CASE Mode(w) = "move"
      <4>1. writer[w].handle \in 1..Len(files)
        BY <1>1, <1>3 DEF States
      <4>2. files[writer[w].handle].contents \in Contents
        BY <4>1, Typed DEF Inv, File
      <4> QED
        BY <1>5, <3>1, <4>2 DEF Check
    <3>2. CASE Mode(w) # "move"
      <4>1. writer[w].data \in Contents
        BY <1>2 DEF PinOf
      <4>2. [writer[w] EXCEPT !.pc = "checked"]
              = [writer[w] EXCEPT !.pc = "checked", !.data = writer[w].data]
        BY <1>1 DEF States
      <4> QED
        BY <1>5, <3>2, <4>1, <4>2 DEF Check
    <3> QED
      BY <3>1, <3>2
  <2> DEFINE r == [writer[w] EXCEPT !.pc = pc, !.data = data]
  <2>2. r \in States(Len(files))
    BY <1>1 DEF States, Steps
  <2>3. Moves(w) /\ writer'[w] = r /\ \A f : Revision(f)' = Revision(f)
    BY <1>1, <2>1, <2>2, FilesStay DEF Check
  <2>4. /\ writer'[w].pc = pc /\ writer'[w].op = writer[w].op
        /\ writer'[w].handle = writer[w].handle /\ writer'[w].identity = writer[w].identity
        /\ writer'[w].locked = writer[w].locked /\ writer'[w].expected = writer[w].expected
        /\ writer'[w].source = writer[w].source /\ writer'[w].trace = writer[w].trace
        /\ writer'[w].report = writer[w].report /\ writer'[w].accepted = writer[w].accepted
        /\ writer'[w].data = data
    BY <1>1, <2>3 DEF States
  <2>5. Takes(w)
    BY <2>4 DEF Takes, Owns
  <2>6. Mode(w)' = Mode(w)
    BY <2>4 DEF Mode
  <2>7. PinOf(w)'
    BY <1>3, <2>1, <2>4, <2>6 DEF PinOf, Compared, Guarded, Rewriting
  <2>8. RevisionOf(w)'
    <3>1. (Revision(writer[w].identity) = writer[w].expected)'
      BY <1>3, <1>5, <2>3, <2>4
    <3>2. Mode(w)' # "copy"
      BY <1>3, <2>6 DEF Guarded, Rewriting
    <3> QED
      BY <3>1, <3>2 DEF RevisionOf
  <2>9. TraceOf(w)' /\ OutcomeOf(w)'
    BY <1>2, <2>1, <2>4, <2>6 DEF TraceOf, OutcomeOf
  <2> QED
    BY <2>3, <2>4, <2>5, <2>7, <2>8, <2>9 DEF RequestMoves, KeepsUpdates, Own
<1> QED
  BY <1>4, <1>5

LEMMA CreateTemporaryMoves ==
    ASSUME Inv, NEW w \in Writers, CreateTemporary(w)
    PROVE  RequestMoves(w)
<1> DEFINE n == Len(files) + 1
           r == [writer[w] EXCEPT !.pc = "checked", !.handle = n, !.identity = n]
<1>1. writer[w] \in States(Len(files)) /\ Len(files) \in Nat
  BY Typed DEF Inv
<1>2. /\ writer[w].pc = "asked" /\ Mode(w) \in {"create_new", "atomic_replace"}
      /\ PinOf(w) /\ TraceOf(w) /\ OutcomeOf(w)
  BY DEF CreateTemporary, At, Publishing, Inv, PinInv, TraceInv, OutcomesAreTrue, OutcomeOf
<1>3. r \in States(n)
  <2>1. n \in Nat /\ n \in 0..n /\ writer[w] \in States(n)
    BY <1>1, StatesGrow
  <2> HIDE DEF n
  <2> QED
    BY <2>1 DEF States, Steps
<1>4. Moves(w) /\ writer'[w] = r
  BY <1>3, FileCreated DEF CreateTemporary
<1>5. /\ writer'[w].pc = "checked" /\ writer'[w].op = writer[w].op /\ writer'[w].handle = n
      /\ writer'[w].locked = writer[w].locked /\ writer'[w].source = writer[w].source
      /\ writer'[w].trace = writer[w].trace /\ writer'[w].report = writer[w].report
      /\ writer'[w].accepted = writer[w].accepted /\ writer'[w].data = writer[w].data
  BY <1>1, <1>4 DEF States
<1>6. n # 0
  BY <1>1
<1>7. Takes(w)
  BY <1>5 DEF Takes, Owns
<1>8. Mode(w)' \in {"create_new", "atomic_replace"}
  BY <1>2, <1>5 DEF Mode
<1>9. Own(w)'
  BY <1>2, <1>5, <1>6, <1>8
     DEF Own, PinOf, RevisionOf, TraceOf, OutcomeOf, Compared, Guarded, Rewriting
<1> QED
  BY <1>4, <1>5, <1>7, <1>9 DEF RequestMoves, KeepsUpdates

LEMMA CopySourceMoves ==
    ASSUME Inv, NEW w \in Writers, CopySource(w)
    PROVE  RequestMoves(w)
<1> DEFINE n == Len(files) + 1
           f == entry[writer[w].op.from]
           r == [writer[w] EXCEPT !.pc = "checked", !.source = f, !.data = files[f].contents,
                                  !.handle = n, !.identity = n]
<1>1. writer[w] \in States(Len(files)) /\ Len(files) \in Nat
  BY Typed DEF Inv
<1>2. writer[w].pc = "asked" /\ Mode(w) = "copy" /\ PinOf(w) /\ TraceOf(w) /\ OutcomeOf(w)
  BY DEF CopySource, At, Inv, PinInv, TraceInv, OutcomesAreTrue, OutcomeOf
<1>3. f \in 0..Len(files)
  <2>1. writer[w].op # NoOperation
    BY <1>2 DEF Mode, NoOperation
  <2>2. writer[w].op.from \in Names
    BY <1>1, <2>1 DEF States, Operations
  <2> QED
    BY <2>2 DEF Inv, TypeOK
<1>4. CASE f = 0 \/ Owned(f) \/ Revision(f) # writer[w].expected
  BY <1>2, <1>4, IsOver DEF CopySource, TraceOf
<1>5. CASE f # 0 /\ ~Owned(f) /\ Revision(f) = writer[w].expected
  <2>1. files' = Append(files, NewFile("empty")) /\ Become(w, r) /\ Quiet /\ entry' = entry
    BY <1>5 DEF CopySource
  <2>2. r \in States(n)
    <3> DEFINE d == files[f].contents
    <3>1. n \in Nat /\ n \in 0..n /\ f \in 0..n /\ writer[w] \in States(n)
      BY <1>1, <1>3, StatesGrow
    <3>2. d \in Contents
      BY <1>3, <1>5, Typed DEF Inv, File
    <3>3. [writer[w] EXCEPT !.pc = "checked", !.source = f, !.data = d,
                            !.handle = n, !.identity = n] \in States(n)
      <4> HIDE DEF n, f, d
      <4> QED
        BY <3>1, <3>2 DEF States, Steps
    <3> QED
      BY <3>3
  <2>3. Moves(w) /\ writer'[w] = r /\ \A g \in 0..Len(files) : Revision(g)' = Revision(g)
    BY <2>1, <2>2, FileCreated
  <2>4. /\ writer'[w].pc = "checked" /\ writer'[w].op = writer[w].op /\ writer'[w].handle = n
        /\ writer'[w].locked = writer[w].locked /\ writer'[w].source = f
        /\ writer'[w].expected = writer[w].expected
        /\ writer'[w].trace = writer[w].trace /\ writer'[w].report = writer[w].report
        /\ writer'[w].accepted = writer[w].accepted /\ writer'[w].data \in Contents
    <3>1. files[f].contents \in Contents
      BY <1>3, <1>5, Typed DEF Inv, File
    <3> QED
      BY <1>1, <2>3, <3>1 DEF States
  <2>5. n # 0 /\ f # n
    BY <1>1, <1>3
  <2>6. Takes(w)
    BY <1>5, <2>4 DEF Takes, Owns
  <2>7. Mode(w)' = "copy"
    BY <1>2, <2>4 DEF Mode
  <2>8. (Revision(writer[w].source) = writer[w].expected)'
    BY <1>3, <1>5, <2>3, <2>4
  <2>9. Own(w)'
    BY <1>2, <1>5, <2>4, <2>5, <2>7, <2>8
       DEF Own, PinOf, RevisionOf, TraceOf, OutcomeOf, Compared, Guarded, Rewriting
  <2> QED
    BY <2>3, <2>4, <2>6, <2>9 DEF RequestMoves, KeepsUpdates
<1> QED
  BY <1>4, <1>5

LEMMA PutMoves ==
    ASSUME Inv, NEW w \in Writers, writer[w].pc = "checked", NEW contents \in Contents,
           NEW pc \in {"checked", "written"}, Put(w, contents, pc), Quiet, entry' = entry
    PROVE  RequestMoves(w)
<1>1. writer[w] \in States(Len(files)) /\ Len(files) \in Nat
  BY Typed DEF Inv
<1>2. PinOf(w) /\ RevisionOf(w) /\ TraceOf(w) /\ OutcomeOf(w)
  BY DEF Inv, PinInv, RevisionInv, TraceInv, OutcomesAreTrue, OutcomeOf
<1>3. entry' \in [Names -> 0..Len(files)]
  BY DEF Inv, TypeOK
<1>4. CASE Mode(w) = "transactional"
  <2> DEFINE r == [writer[w] EXCEPT !.pc = pc, !.draft = contents, !.accepted = TRUE]
  <2>1. r \in States(Len(files))
    BY <1>1 DEF States, Steps
  <2>2. Become(w, r) /\ files' = files
    BY <1>4 DEF Put, Drafted
  <2>3. Moves(w) /\ writer'[w] = r /\ \A f : Revision(f)' = Revision(f)
    BY <1>3, <2>1, <2>2, FilesStay
  <2>4. /\ writer'[w].pc = pc /\ writer'[w].op = writer[w].op
        /\ writer'[w].handle = writer[w].handle /\ writer'[w].identity = writer[w].identity
        /\ writer'[w].locked = writer[w].locked /\ writer'[w].expected = writer[w].expected
        /\ writer'[w].source = writer[w].source /\ writer'[w].trace = writer[w].trace
        /\ writer'[w].report = writer[w].report
        /\ writer'[w].data = writer[w].data /\ writer'[w].draft = contents
    BY <1>1, <2>3 DEF States
  <2>5. Takes(w)
    BY <2>4 DEF Takes, Owns
  <2>6. Mode(w)' = "transactional"
    BY <1>4, <2>4 DEF Mode
  <2>7. PinOf(w)'
    BY <1>2, <1>4, <2>4, <2>6 DEF PinOf, Compared, Guarded, Rewriting
  <2>8. RevisionOf(w)'
    BY <1>2, <1>4, <2>3, <2>4, <2>6 DEF RevisionOf, Compared, Guarded, Rewriting
  <2>9. TraceOf(w)' /\ OutcomeOf(w)'
    BY <1>2, <1>4, <2>4, <2>6 DEF TraceOf, OutcomeOf
  <2> QED
    BY <2>3, <2>4, <2>5, <2>7, <2>8, <2>9 DEF RequestMoves, KeepsUpdates, Own
<1>5. CASE Mode(w) # "transactional"
  <2> DEFINE t == Traced(w, pc)
             r == [writer[w] EXCEPT !.pc = pc, !.accepted = TRUE, !.trace = t]
  <2>1. /\ t \in {"none", "torn", "whole"}
        /\ t # "none" <=> Mode(w) = "conditional_in_place"
        /\ Mode(w) = "conditional_in_place" /\ pc = "written" => t = "whole"
    BY <1>5 DEF Traced, Rewriting
  <2>2. Rewrite(writer[w].handle, contents) /\ Become(w, r)
    BY <1>5 DEF Put
  <2> HIDE DEF t
  <2>3. r \in States(Len(files))
    BY <1>1, <2>1 DEF States, Steps
  <2>4. writer[w].handle \in Owns(w) \ {0}
    BY <1>2 DEF PinOf, Owns
  <2>5. /\ Moves(w) /\ writer'[w] = r
        /\ \A g \in 0..Len(files) : g # writer[w].handle => Revision(g)' = Revision(g)
    BY <2>2, <2>3, <2>4, OwnFileChanges
  <2>6. /\ writer'[w].pc = pc /\ writer'[w].op = writer[w].op
        /\ writer'[w].handle = writer[w].handle /\ writer'[w].identity = writer[w].identity
        /\ writer'[w].locked = writer[w].locked /\ writer'[w].expected = writer[w].expected
        /\ writer'[w].source = writer[w].source /\ writer'[w].trace = t
        /\ writer'[w].report = writer[w].report /\ writer'[w].accepted = TRUE
        /\ writer'[w].data = writer[w].data
    BY <1>1, <2>5 DEF States
  <2>7. Takes(w)
    BY <2>6 DEF Takes, Owns
  <2>8. Mode(w)' = Mode(w) /\ Mode(w) # "move"
    BY <1>2, <2>6 DEF Mode, PinOf
  <2>9. PinOf(w)'
    BY <1>2, <1>5, <2>6, <2>8 DEF PinOf, Compared, Guarded, Rewriting
  <2>10. RevisionOf(w)'
    <3>1. Mode(w) = "copy" =>
             /\ writer[w].source \in 0..Len(files) /\ writer[w].source # writer[w].handle
             /\ Revision(writer[w].source) = writer[w].expected
      BY <1>2, Typed DEF PinOf, RevisionOf, Compared, Inv
    <3>2. Mode(w) = "copy" => (Revision(writer[w].source) = writer[w].expected)'
      BY <2>5, <2>6, <3>1
    <3>3. Mode(w) \in Guarded => writer'[w].trace # "none"
      BY <1>5, <2>1, <2>6, <2>8 DEF Guarded, Rewriting
    <3> QED
      BY <2>8, <3>2, <3>3 DEF RevisionOf
  <2>11. TraceOf(w)' /\ OutcomeOf(w)'
    BY <1>2, <2>1, <2>6, <2>8 DEF TraceOf, OutcomeOf
  <2>12. KeepsUpdates(w)
    <3>1. writer'[w].trace # "none" => Mode(w) = "conditional_in_place"
      BY <2>1, <2>6
    <3>2. Mode(w) = "conditional_in_place" /\ writer[w].trace = "none" =>
             Revision(writer[w].identity) = writer[w].expected
      BY <1>2 DEF RevisionOf, Compared, Guarded, Rewriting
    <3> QED
      BY <3>1, <3>2 DEF KeepsUpdates, Rewriting
  <2> QED
    BY <2>5, <2>7, <2>9, <2>10, <2>11, <2>12 DEF RequestMoves, Own
<1> QED
  BY <1>4, <1>5

LEMMA WriteMoves ==
    ASSUME Inv, NEW w \in Writers, WriteChunk(w) \/ SetLength(w)
    PROVE  RequestMoves(w)
<1>1. CASE WriteChunk(w)
  BY <1>1, PutMoves DEF WriteChunk, Contents
<1>2. CASE SetLength(w)
  <2>1. writer[w].data \in Contents
    BY <1>2 DEF SetLength, Inv, PinInv, PinOf
  <2> QED
    BY <1>2, <2>1, PutMoves DEF SetLength
<1> QED
  BY <1>1, <1>2

\* What a step that changes the whereabouts and the handle keeps.
Same(w) ==
    /\ writer'[w].op = writer[w].op /\ writer'[w].identity = writer[w].identity
    /\ writer'[w].source = writer[w].source /\ writer'[w].expected = writer[w].expected
    /\ writer'[w].data = writer[w].data /\ writer'[w].report = writer[w].report

LEMMA CloseMoves ==
    ASSUME Inv, NEW w \in Writers, Close(w)
    PROVE  RequestMoves(w)
<1>1. writer[w] \in States(Len(files)) /\ Len(files) \in Nat /\ 0 \in 0..Len(files)
      /\ entry' \in [Names -> 0..Len(files)]
  BY Typed DEF Inv, TypeOK, Close
<1>2. /\ writer[w].pc = "written" /\ Mode(w) \in Rewriting
      /\ PinOf(w) /\ RevisionOf(w) /\ TraceOf(w) /\ OutcomeOf(w)
  BY DEF Close, At, Inv, PinInv, RevisionInv, TraceInv, OutcomesAreTrue, OutcomeOf
<1>3. CASE Mode(w) = "transactional"
  <2> DEFINE r == [writer[w] EXCEPT !.pc = "committing", !.handle = 0]
  <2>1. r \in States(Len(files))
    BY <1>1 DEF States, Steps
  <2>2. Moves(w) /\ writer'[w] = r /\ \A f : Revision(f)' = Revision(f)
    BY <1>1, <1>3, <2>1, FilesStay DEF Close
  <2>3. /\ writer'[w].pc = "committing" /\ writer'[w].handle = 0 /\ Same(w)
        /\ writer'[w].locked = writer[w].locked /\ writer'[w].draft = writer[w].draft
        /\ writer'[w].trace = writer[w].trace
    BY <1>1, <2>2 DEF States, Same
  <2>4. Mode(w)' = "transactional"
    BY <1>3, <2>3 DEF Mode, Same
  <2>5. Takes(w)
    BY <2>3 DEF Takes, Owns, Same
  <2>6. PinOf(w)'
    BY <1>2, <1>3, <2>3, <2>4 DEF PinOf, Compared, Same
  <2>7. RevisionOf(w)'
    BY <1>2, <1>3, <2>2, <2>3, <2>4 DEF RevisionOf, Compared, Guarded, Rewriting, Same
  <2>8. TraceOf(w)' /\ OutcomeOf(w)'
    BY <1>2, <1>3, <2>3, <2>4 DEF TraceOf, OutcomeOf, Same
  <2> QED
    BY <2>2, <2>3, <2>5, <2>6, <2>7, <2>8 DEF RequestMoves, KeepsUpdates, Own
<1>4. CASE Mode(w) = "conditional_in_place"
  <2> DEFINE r == [writer[w] EXCEPT !.pc = "observing", !.handle = 0]
             contents == files[writer[w].handle].contents
  <2>1. writer[w].handle \in Owns(w) \ {0} /\ contents \in Contents
    <3>1. writer[w].handle \in 1..Len(files)
      BY <1>1, <1>2 DEF PinOf, States
    <3> QED
      BY <3>1, Typed DEF Inv, File, Owns
  <2>2. r \in States(Len(files))
    BY <1>1 DEF States, Steps
  <2>3. Rewrite(writer[w].handle, contents) /\ Become(w, r) /\ Quiet /\ entry' = entry
    BY <1>4 DEF Close
  <2>4. Moves(w) /\ writer'[w] = r
    <3> HIDE DEF contents, r
    <3> QED
      BY <2>1, <2>2, <2>3, OwnFileChanges
  <2>5. /\ writer'[w].pc = "observing" /\ writer'[w].handle = 0 /\ Same(w)
        /\ writer'[w].locked = writer[w].locked /\ writer'[w].trace = writer[w].trace
    BY <1>1, <2>4 DEF States, Same
  <2>6. Takes(w)
    BY <2>5 DEF Takes, Owns, Same
  <2>7. Own(w)'
    BY <1>2, <1>4, <2>5 DEF Own, PinOf, RevisionOf, TraceOf, OutcomeOf, Compared, Same
  <2> QED
    BY <2>4, <2>5, <2>6, <2>7 DEF RequestMoves, KeepsUpdates
<1> QED
  BY <1>2, <1>3, <1>4 DEF Rewriting

LEMMA FailMoves ==
    ASSUME Inv, NEW w \in Writers, Fail(w)
    PROVE  RequestMoves(w)
<1>1. writer[w] \in States(Len(files)) /\ Len(files) \in Nat /\ 0 \in 0..Len(files)
      /\ entry' \in [Names -> 0..Len(files)]
  BY Typed DEF Inv, TypeOK, Fail
<1>2. /\ writer[w].pc \in {"checked", "written", "committing"}
      /\ PinOf(w) /\ TraceOf(w) /\ OutcomeOf(w)
  BY DEF Fail, Inv, PinInv, TraceInv, OutcomesAreTrue, OutcomeOf
<1>3. CASE Mode(w) \in Publishing
  <2> DEFINE r == [writer[w] EXCEPT !.pc = "cleaning"]
  <2>1. r \in States(Len(files))
    BY <1>1 DEF States, Steps
  <2>2. Moves(w) /\ writer'[w] = r
    <3>1. Mode(w) # "conditional_in_place"
      BY <1>3 DEF Publishing
    <3>2. r = Stopped(w)
      BY <1>3, <3>1, Zenon DEF Stopped
    <3> QED
      BY <1>1, <2>1, <3>2, FilesStay DEF Fail
  <2>3. /\ writer'[w].pc = "cleaning" /\ writer'[w].handle = writer[w].handle /\ Same(w)
        /\ writer'[w].locked = writer[w].locked /\ writer'[w].trace = writer[w].trace
    BY <1>1, <2>2 DEF States, Same
  <2>4. Takes(w)
    BY <2>3 DEF Takes, Owns, Same
  <2>5. Own(w)'
    BY <1>2, <1>3, <2>3
       DEF Own, PinOf, RevisionOf, TraceOf, OutcomeOf, Compared, Same, Publishing
  <2> QED
    BY <2>2, <2>3, <2>4, <2>5 DEF RequestMoves, KeepsUpdates
<1>4. CASE Mode(w) = "conditional_in_place" /\ writer[w].accepted
  <2>1. writer[w].trace # "none"
    BY <1>2, <1>4 DEF TraceOf, PinOf
  <2>2. Become(w, Over(w, "partial"))
    BY <1>4 DEF Fail, Stopped, Publishing
  <2> QED
    BY <2>1, <2>2, IsOver DEF Fail
<1>5. CASE Mode(w) \notin Publishing /\ ~(Mode(w) = "conditional_in_place" /\ writer[w].accepted)
  <2>1. writer[w].trace = "none"
    BY <1>2, <1>5 DEF TraceOf
  <2>2. Become(w, Over(w, "failed"))
    BY <1>5 DEF Fail, Stopped
  <2> QED
    BY <2>1, <2>2, IsOver DEF Fail
<1> QED
  BY <1>3, <1>4, <1>5

LEMMA CommitMoves ==
    ASSUME Inv, NEW w \in Writers, Commit(w)
    PROVE  RequestMoves(w)
<1> DEFINE r == [writer[w] EXCEPT !.pc = "observing", !.locked = 0, !.draft = "none",
                                  !.trace = "whole"]
<1>1. writer[w] \in States(Len(files)) /\ Len(files) \in Nat /\ 0 \in 0..Len(files)
  BY Typed DEF Inv
<1>2. writer[w].pc = "committing" /\ PinOf(w) /\ RevisionOf(w) /\ TraceOf(w) /\ OutcomeOf(w)
  BY DEF Commit, Inv, PinInv, RevisionInv, TraceInv, OutcomesAreTrue, OutcomeOf
<1>3. /\ Mode(w) = "transactional" /\ writer[w].identity \in Owns(w) \ {0}
      /\ writer[w].draft \in Contents
  BY <1>2 DEF PinOf, Owns, Compared
<1>4. r \in States(Len(files))
  BY <1>1 DEF States, Steps
<1>5. Moves(w) /\ writer'[w] = r
  BY <1>3, <1>4, OwnFileChanges DEF Commit
<1>6. /\ writer'[w].pc = "observing" /\ writer'[w].locked = 0 /\ Same(w)
      /\ writer'[w].handle = writer[w].handle /\ writer'[w].trace = "whole"
  BY <1>1, <1>5 DEF States, Same
<1>7. Takes(w)
  BY <1>6 DEF Takes, Owns, Same
<1>8. Own(w)'
  BY <1>2, <1>6 DEF Own, PinOf, RevisionOf, TraceOf, OutcomeOf, Compared, Same
<1>9. KeepsUpdates(w)
  BY <1>2, <1>3 DEF KeepsUpdates, RevisionOf, Compared, Guarded, Rewriting
<1> QED
  BY <1>5, <1>7, <1>8, <1>9 DEF RequestMoves

LEMMA PublishMoves ==
    ASSUME Inv, NEW w \in Writers, Publish(w)
    PROVE  RequestMoves(w)
<1> DEFINE r == [writer[w] EXCEPT !.pc = "observing", !.handle = 0, !.trace = "whole"]
<1>1. writer[w] \in States(Len(files)) /\ Len(files) \in Nat /\ 0 \in 0..Len(files)
  BY Typed DEF Inv
<1>2. /\ writer[w].pc = "written" /\ Mode(w) \in Publishing \cup {"move"}
      /\ RevisionOf(w) /\ TraceOf(w) /\ OutcomeOf(w)
  BY DEF Publish, At, Inv, RevisionInv, TraceInv, OutcomesAreTrue, OutcomeOf
<1>3. entry' \in [Names -> 0..Len(files)]
  <2>1. entry \in [Names -> 0..Len(files)] /\ writer[w].handle \in 0..Len(files)
    BY <1>1 DEF Inv, TypeOK, States
  <2> QED
    BY <1>1, <2>1 DEF Publish
<1>4. r \in States(Len(files))
  BY <1>1 DEF States, Steps
<1>5. Moves(w) /\ writer'[w] = r
  BY <1>3, <1>4, FilesStay DEF Publish
<1>6. /\ writer'[w].pc = "observing" /\ writer'[w].handle = 0 /\ Same(w)
      /\ writer'[w].locked = writer[w].locked /\ writer'[w].trace = "whole"
  BY <1>1, <1>5 DEF States, Same
<1>7. Takes(w)
  BY <1>6 DEF Takes, Owns, Same
<1>8. Own(w)'
  BY <1>2, <1>6 DEF Own, PinOf, RevisionOf, TraceOf, OutcomeOf, Compared, Same
<1>9. KeepsUpdates(w)
  BY <1>2 DEF KeepsUpdates, RevisionOf, Compared, Guarded, Rewriting, Publishing
<1> QED
  BY <1>5, <1>7, <1>8, <1>9 DEF RequestMoves

\* The files after the contents of one that the request owns were changed.
LEMMA ContentsChange ==
    ASSUME Inv, NEW w \in Writers, NEW f \in Owns(w) \ {0}, NEW contents \in Contents,
           files' = [files EXCEPT ![f].contents = contents],
           NEW r \in States(Len(files)), Become(w, r), Quiet, entry' = entry
    PROVE  Moves(w) /\ writer'[w] = r
<1> DEFINE g == [files[f] EXCEPT !.contents = contents]
<1>1. files \in Seq(File) /\ Len(files) \in Nat /\ f \in 1..Len(files)
  BY Typed DEF Inv
<1>2. files[f] \in File
  BY <1>1, ElementOfSeq
<1>3. g \in File /\ g.version = files[f].version
  BY <1>2 DEF File
<1>4. files' = [files EXCEPT ![f] = g]
  OBVIOUS
<1> HIDE DEF g
<1>5. files' \in Seq(File) /\ Len(files') = Len(files)
      /\ \A h \in 1..Len(files) \ {f} : files'[h] = files[h]
  BY <1>1, <1>3, <1>4, FilesChange
<1>6. /\ writer' \in [Writers -> States(Len(files'))]
      /\ writer'[w] = r
      /\ \A v \in Writers \ {w} : writer'[v] = writer[v]
  BY <1>1, <1>5, Becomes DEF Inv
<1>7. outside' \in Nat /\ crashes' \in Nat /\ entry' \in [Names -> 0..Len(files')]
  BY <1>5 DEF Quiet, Inv, TypeOK
<1> QED
  BY <1>1, <1>5, <1>6, <1>7 DEF Moves

\* The record of a request that is over shows nothing new.
LEMMA OverShowsNothing ==
    ASSUME Inv, NEW w \in Writers, Moves(w), writer'[w] = Over(w, "failed"),
           writer[w].trace = "none"
    PROVE  RequestMoves(w)
<1>1. writer'[w] = [writer[w] EXCEPT !.expected = <<0, 0>>, !.handle = 0, !.source = 0,
                                     !.locked = 0, !.draft = "none", !.accepted = FALSE,
                                     !.pc = "done", !.report = "failed"]
  BY DEF Over, Released
<1>2. /\ writer'[w].pc = "done" /\ writer'[w].handle = 0 /\ writer'[w].locked = 0
      /\ writer'[w].source = 0 /\ writer'[w].report = "failed" /\ writer'[w].trace = "none"
  BY <1>1, Typed DEF Inv, States
<1>3. Takes(w)
  BY <1>2 DEF Takes, Owns
<1>4. Own(w)'
  BY <1>2 DEF Own, PinOf, RevisionOf, TraceOf, OutcomeOf, Compared
<1> QED
  BY <1>2, <1>3, <1>4 DEF RequestMoves, KeepsUpdates

LEMMA DiscardMoves ==
    ASSUME Inv, NEW w \in Writers, Discard(w) \/ DiscardFails(w)
    PROVE  RequestMoves(w)
<1>1. writer[w] \in States(Len(files)) /\ Len(files) \in Nat
  BY Typed DEF Inv
<1>2. /\ writer[w].pc \in {"cleaning", "dropping"}
      /\ PinOf(w) /\ TraceOf(w) /\ OutcomeOf(w)
  BY DEF Discard, DiscardFails, Inv, PinInv, TraceInv, OutcomesAreTrue, OutcomeOf
<1>3. writer[w].handle \in Owns(w) \ {0} /\ writer[w].trace = "none"
  BY <1>2 DEF PinOf, Owns, TraceOf
<1>4. Over(w, "failed") \in States(Len(files))
  BY OverTyped
<1>5. CASE Discard(w)
  <2>1. "deleted" \in Contents
    BY DEF Contents
  <2>2. Moves(w) /\ writer'[w] = Over(w, "failed")
    BY <1>3, <1>4, <1>5, <2>1, ContentsChange DEF Discard
  <2> QED
    BY <1>3, <2>2, OverShowsNothing
<1>6. CASE DiscardFails(w) /\ writer[w].pc = "dropping"
  <2>1. "left" \in Contents
    BY DEF Contents
  <2>2. Moves(w) /\ writer'[w] = Over(w, "failed")
    BY <1>3, <1>4, <1>6, <2>1, ContentsChange DEF DiscardFails
  <2> QED
    BY <1>3, <2>2, OverShowsNothing
<1>7. CASE DiscardFails(w) /\ writer[w].pc = "cleaning"
  <2> DEFINE r == [writer[w] EXCEPT !.pc = "dropping"]
  <2>1. r \in States(Len(files))
    BY <1>1 DEF States, Steps
  <2>2. entry' \in [Names -> 0..Len(files)]
    BY <1>7 DEF DiscardFails, Inv, TypeOK
  <2>3. Moves(w) /\ writer'[w] = r
    BY <1>7, <2>1, <2>2, FilesStay DEF DiscardFails
  <2>4. /\ writer'[w].pc = "dropping" /\ writer'[w].handle = writer[w].handle /\ Same(w)
        /\ writer'[w].locked = writer[w].locked /\ writer'[w].trace = writer[w].trace
    BY <1>1, <2>3 DEF States, Same
  <2>5. Takes(w)
    BY <2>4 DEF Takes, Owns, Same
  <2>6. Own(w)'
    BY <1>2, <1>3, <2>4 DEF Own, PinOf, RevisionOf, TraceOf, OutcomeOf, Compared, Same
  <2> QED
    BY <2>3, <2>4, <2>5, <2>6 DEF RequestMoves, KeepsUpdates
<1> QED
  BY <1>2, <1>5, <1>6, <1>7

LEMMA ObserveMoves ==
    ASSUME Inv, NEW w \in Writers, Observe(w)
    PROVE  RequestMoves(w)
<1>1. writer[w].trace = "whole"
  BY DEF Observe, Inv, TraceInv, TraceOf
<1>2. PICK outcome \in {"completed", "partial"} : Become(w, Over(w, outcome))
  BY DEF Observe
<1> QED
  BY <1>1, <1>2, IsOver DEF Observe

LEMMA RequestMovesAlways ==
    ASSUME Inv, NEW w \in Writers, Request(w)
    PROVE  RequestMoves(w)
BY AskMoves, OpenMoves, CheckMoves, CreateTemporaryMoves, CopySourceMoves, WriteMoves,
   CloseMoves, FailMoves, CommitMoves, PublishMoves, DiscardMoves, ObserveMoves DEF Request

----------------------------------------------------------------------------
(* The steps of everybody else.                                            *)

\* Other programs change no file that a request has open.
Spares ==
    /\ TypeOK'
    /\ writer' = writer
    /\ \A f \in 1..Len(files) : Held(f) => files'[f].version = files[f].version

LEMMA OutsideStep ==
    ASSUME Inv, Spares
    PROVE  Inv'
<1> SUFFICES ASSUME NEW w \in Writers
             PROVE  RevisionOf(w)'
  BY DEF Inv, Spares, LockInv, PinInv, RevisionInv, TraceInv, OutcomesAreTrue, Owns, PinOf,
         TraceOf, Mode
<1>1. PinOf(w) /\ RevisionOf(w) /\ writer'[w] = writer[w]
  BY DEF Inv, PinInv, RevisionInv, Spares
<1>2. \A f \in (Owns(w) \cup {writer[w].source}) \ {0} : Revision(f)' = Revision(f)
  <2>1. \A f \in (Owns(w) \cup {writer[w].source}) \ {0} : Held(f) /\ f \in 1..Len(files)
    BY Typed DEF Inv, Held, Owned, Owns
  <2> QED
    BY <2>1 DEF Spares, Revision
<1>3. writer[w].pc \in Compared /\ Mode(w) \in Guarded => writer[w].identity \in Owns(w) \ {0}
  BY <1>1 DEF PinOf, Owns, Compared, Guarded, Rewriting
<1>4. writer[w].pc \in Compared /\ Mode(w) = "copy" => writer[w].source # 0
  BY <1>1 DEF PinOf
<1> QED
  BY <1>1, <1>2, <1>3, <1>4 DEF RevisionOf, Mode, Revision

LEMMA OutsideSpares ==
    ASSUME Inv, NEW n \in Names, OutsideChanges(n) \/ OutsideRemoves(n) \/ OutsideCreates(n)
    PROVE  Spares
<1>1. /\ files \in Seq(File) /\ Len(files) \in Nat /\ outside \in Nat /\ crashes \in Nat
      /\ entry \in [Names -> 0..Len(files)] /\ writer \in [Writers -> States(Len(files))]
  BY Typed DEF Inv, TypeOK
<1>2. CASE OutsideChanges(n)
  <2>1. entry[n] \in 1..Len(files) /\ ~Held(entry[n])
    BY <1>1, <1>2 DEF OutsideChanges
  <2>2. "outside" \in Contents
    BY DEF Contents
  <2>3. files' \in Seq(File) /\ Len(files') = Len(files)
        /\ \A h \in 1..Len(files) \ {entry[n]} : files'[h] = files[h]
    BY <1>1, <1>2, <2>1, <2>2, FileRewritten DEF OutsideChanges
  <2>4. entry' = entry /\ writer' = writer /\ outside' = outside + 1 /\ crashes' = crashes
    BY <1>2 DEF OutsideChanges
  <2>5. TypeOK'
    BY <1>1, <2>3, <2>4 DEF TypeOK, File
  <2> QED
    BY <2>1, <2>3, <2>4, <2>5 DEF Spares
<1>3. CASE OutsideRemoves(n)
  <2>1. 0 \in 0..Len(files)
    BY <1>1
  <2>2. TypeOK'
    BY <1>1, <1>3, <2>1 DEF OutsideRemoves, TypeOK, File
  <2> QED
    BY <1>3, <2>2 DEF OutsideRemoves, Spares
<1>4. CASE OutsideCreates(n)
  <2>1. NewFile("outside") \in File
    BY DEF NewFile, File, Contents
  <2>2. files' \in Seq(File) /\ Len(files') = Len(files) + 1
        /\ \A h \in 1..Len(files) : files'[h] = files[h]
    BY <1>1, <1>4, <2>1, FilesGrow DEF OutsideCreates
  <2>3. 0..Len(files) \subseteq 0..Len(files') /\ Len(files) + 1 \in 0..Len(files')
        /\ Len(files) <= Len(files') /\ Len(files') \in Nat
    BY <1>1, <2>2
  <2>4. writer' = writer /\ outside' = outside + 1 /\ crashes' = crashes
        /\ entry' = [entry EXCEPT ![n] = Len(files) + 1]
    BY <1>4 DEF OutsideCreates
  <2>5. entry' \in [Names -> 0..Len(files')]
    BY <1>1, <2>3, <2>4
  <2>6. writer' \in [Writers -> States(Len(files'))]
    BY <1>1, <2>3, <2>4, StatesGrow
  <2>7. TypeOK'
    BY <1>1, <2>2, <2>4, <2>5, <2>6 DEF TypeOK, File
  <2> QED
    BY <2>2, <2>4, <2>7 DEF Spares
<1> QED
  BY <1>2, <1>3, <1>4

LEMMA CrashStep ==
    ASSUME Inv, Crash
    PROVE  Inv'
<1>1. /\ files' = files /\ entry' = entry /\ outside' = outside /\ crashes' = crashes + 1
      /\ Len(files) \in Nat /\ 0 \in 0..Len(files)
  BY Typed DEF Inv, Crash
<1>2. \A w \in Writers :
         /\ Running(w) => writer'[w] = [Released(w) EXCEPT !.pc = "lost"]
         /\ ~Running(w) => writer'[w] = writer[w]
  BY DEF Crash
<1>3. \A w \in Writers : writer'[w] \in States(Len(files))
  <2> SUFFICES ASSUME NEW w \in Writers
               PROVE  writer'[w] \in States(Len(files))
    OBVIOUS
  <2>1. writer[w] \in States(Len(files)) /\ <<0, 0>> \in Nat \X Nat
    BY Typed DEF Inv
  <2>2. [Released(w) EXCEPT !.pc = "lost"] \in States(Len(files))
    BY <1>1, <2>1 DEF Released, States, Steps
  <2> QED
    BY <1>2, <2>1, <2>2
<1>4. TypeOK'
  <2>1. DOMAIN writer' = Writers /\ writer' = [w \in Writers |-> writer'[w]]
    BY DEF Crash
  <2>2. writer' \in [Writers -> States(Len(files))]
    BY <1>3, <2>1
  <2> QED
    BY <1>1, <2>2 DEF Inv, TypeOK
<1>5. \A w \in Writers :
         /\ Owns(w)' \subseteq Owns(w) \cup {0}
         /\ writer'[w].source \in {0, writer[w].source}
         /\ Own(w)'
  <2> SUFFICES ASSUME NEW w \in Writers
               PROVE  /\ Owns(w)' \subseteq Owns(w) \cup {0}
                      /\ writer'[w].source \in {0, writer[w].source}
                      /\ Own(w)'
    OBVIOUS
  <2>1. /\ writer[w] \in States(Len(files)) /\ PinOf(w) /\ RevisionOf(w) /\ TraceOf(w)
        /\ OutcomeOf(w)
    BY Typed DEF Inv, PinInv, RevisionInv, TraceInv, OutcomesAreTrue, OutcomeOf
  <2>2. CASE Running(w)
    <3>1. /\ writer'[w].pc = "lost" /\ writer'[w].handle = 0 /\ writer'[w].locked = 0
          /\ writer'[w].source = 0 /\ writer'[w].report = writer[w].report
          /\ writer'[w].trace = writer[w].trace
      BY <1>2, <2>1, <2>2 DEF Released, States
    <3>2. writer[w].report = "none"
      BY <2>1, <2>2 DEF Running, TraceOf
    <3>3. Own(w)'
      BY <3>1, <3>2 DEF Own, PinOf, RevisionOf, TraceOf, OutcomeOf, Compared
    <3> QED
      BY <3>1, <3>3 DEF Owns
  <2>3. CASE ~Running(w)
    <3>1. writer'[w] = writer[w] /\ writer[w].pc \in {"idle", "done", "lost"}
      BY <1>2, <2>3 DEF Running
    <3>2. Own(w)'
      BY <2>1, <3>1 DEF Own, PinOf, RevisionOf, TraceOf, OutcomeOf, Compared
    <3> QED
      BY <3>1, <3>2 DEF Owns
  <2> QED
    BY <2>2, <2>3
<1>6. LockInv'
  BY <1>5 DEF Inv, LockInv
<1> QED
  BY <1>4, <1>5, <1>6
     DEF Inv, Own, PinInv, RevisionInv, TraceInv, OutcomesAreTrue, OutcomeOf

----------------------------------------------------------------------------
(* The theorems.                                                           *)

LEMMA InitInv == Init => Inv
<1> SUFFICES ASSUME Init
             PROVE  Inv
  OBVIOUS
<1>1. files = <<NewFile("old")>> /\ NewFile("old") \in File
  BY DEF Init, NewFile, File, Contents
<1>2. files \in Seq(File) /\ Len(files) = 1
  BY <1>1
<1>3. 0 \in 0..1 /\ 1 \in 0..1 /\ <<0, 0>> \in Nat \X Nat
  OBVIOUS
<1>4. Idle \in States(1)
  BY <1>3 DEF Idle, States, Steps
<1>5. entry \in [Names -> 0..1] /\ writer \in [Writers -> States(1)]
  BY <1>3, <1>4 DEF Init
<1>6. TypeOK
  BY <1>2, <1>5 DEF Init, TypeOK, File
<1>7. \A w \in Writers :
         /\ writer[w].pc = "idle" /\ writer[w].handle = 0 /\ writer[w].locked = 0
         /\ writer[w].source = 0 /\ writer[w].trace = "none" /\ writer[w].report = "none"
         /\ ~writer[w].accepted
  BY DEF Init, Idle
<1>8. LockInv
  BY <1>7 DEF LockInv, Owns
<1>9. \A w \in Writers : Own(w)
  BY <1>7 DEF Own, PinOf, RevisionOf, TraceOf, OutcomeOf, Compared
<1> QED
  BY <1>6, <1>8, <1>9 DEF Inv, Own, PinInv, RevisionInv, TraceInv, OutcomesAreTrue, OutcomeOf

LEMMA NextInv == Inv /\ [Next]_vars => Inv'
<1> SUFFICES ASSUME Inv, [Next]_vars
             PROVE  Inv'
  OBVIOUS
<1>1. CASE \E w \in Writers : Request(w)
  BY <1>1, RequestMovesAlways, RequestStep DEF RequestMoves
<1>2. CASE \E n \in Names : OutsideChanges(n) \/ OutsideRemoves(n) \/ OutsideCreates(n)
  BY <1>2, OutsideSpares, OutsideStep
<1>3. CASE Crash
  BY <1>3, CrashStep
<1>4. CASE UNCHANGED vars
  <2>1. entry' = entry /\ files' = files /\ writer' = writer /\ outside' = outside
        /\ crashes' = crashes
    BY <1>4 DEF vars
  <2>2. TypeOK'
    BY <2>1 DEF Inv, TypeOK
  <2> QED
    BY <2>1, <2>2, OutsideStep DEF Spares
<1> QED
  BY <1>1, <1>2, <1>3, <1>4 DEF Next

\* The inductive invariant holds: see Inv.
THEOREM Invariant == Spec => []Inv
BY InitInv, NextInv, PTL DEF Spec

\* The names lead to files that exist, the requests hold files that exist.
THEOREM FilesTyped == Spec => []TypeOK
<1>1. Inv => TypeOK
  BY DEF Inv
<1> QED BY <1>1, Invariant, PTL

\* What mutation_result and the errors tell the caller of a mutation is what happened.
THEOREM OutcomesHold == Spec => []OutcomesAreTrue
<1>1. Inv => OutcomesAreTrue
  BY DEF Inv
<1> QED BY <1>1, Invariant, PTL

\* At the first moment others can see anything of a conditional write, a copy or a move,
\* the file it goes by has the revision its caller read: check_revision is not too early,
\* because nothing can change the file between it and that moment.
THEOREM UpdatesAreKept == Spec => NoUpdateIsLost
<1>1. ASSUME Inv, [Next]_vars
      PROVE  \A w \in Writers : KeepsUpdates(w)
  <2> SUFFICES ASSUME NEW w \in Writers
               PROVE  KeepsUpdates(w)
    OBVIOUS
  <2>1. CASE Request(w)
    BY <1>1, <2>1, RequestMovesAlways DEF RequestMoves
  <2>2. CASE \E v \in Writers : v # w /\ Request(v)
    <3>1. writer'[w] = writer[w]
      BY <1>1, <2>2, RequestMovesAlways DEF RequestMoves, Moves
    <3> QED
      BY <3>1 DEF KeepsUpdates
  <2>3. CASE \E n \in Names : OutsideChanges(n) \/ OutsideRemoves(n) \/ OutsideCreates(n)
    <3>1. writer' = writer
      BY <1>1, <2>3, OutsideSpares DEF Spares
    <3> QED
      BY <3>1 DEF KeepsUpdates
  <2>4. CASE Crash
    <3>1. writer[w] \in States(Len(files))
      BY <1>1, Typed DEF Inv
    <3>2. writer'[w] = writer[w] \/ writer'[w] = [Released(w) EXCEPT !.pc = "lost"]
      BY <2>4 DEF Crash
    <3>3. writer'[w].trace = writer[w].trace
      BY <3>1, <3>2 DEF Released, States
    <3> QED
      BY <3>3 DEF KeepsUpdates
  <2>5. CASE UNCHANGED vars
    BY <2>5 DEF vars, KeepsUpdates
  <2> QED
    BY <1>1, <2>1, <2>2, <2>3, <2>4, <2>5 DEF Next
<1>2. Inv /\ [Next]_vars =>
         [\A w \in Writers :
            writer[w].trace = "none" /\ writer'[w].trace # "none" =>
              CASE Mode(w) \in Rewriting \cup {"move"} ->
                      Revision(writer[w].identity) = writer[w].expected
                [] Mode(w) = "copy" -> Revision(writer[w].source) = writer[w].expected
                [] OTHER -> TRUE]_vars
  BY <1>1 DEF KeepsUpdates
<1> QED BY <1>2, Invariant, PTL DEF Spec, NoUpdateIsLost

----------------------------------------------------------------------------
(* What reaches a name: OnlyInPlaceTears needs to know what a request is   *)
(* about to put there, and who tore what is already there.                 *)

Spoiled == {"empty", "deleted", "left"}
Named(f) == \E n \in Names : entry[n] = f
Drafting == {"checked", "written", "cleaning", "dropping"}

\* A temporary file has no name, and when it is written out it holds the request's data,
\* which is the caller's, or that of the file a copy or a move found under a name.
DraftOf(w) ==
    /\ writer[w].pc = "idle" <=> Mode(w) = "none"
    /\ writer[w].pc \in Drafting /\ Mode(w) \in Publishing =>
          writer[w].identity = writer[w].handle /\ ~Named(writer[w].handle)
    /\ writer[w].pc \in {"cleaning", "dropping"} => Mode(w) \in Publishing
    /\ writer[w].pc = "written" /\ Mode(w) \in Publishing =>
          files[writer[w].handle].contents = writer[w].data
    /\ writer[w].pc = "asked" \/ Mode(w) \in Modes \ {"copy", "move"} => writer[w].data \in Writers
    /\ writer[w].pc \in {"checked", "written"} /\ Mode(w) = "copy" => writer[w].data \notin Spoiled
    /\ writer[w].pc \in {"written", "committing"} /\ Mode(w) = "transactional" =>
          writer[w].draft = writer[w].data
    /\ writer[w].pc \in {"opened", "written"} /\ Mode(w) = "move" =>
          entry[writer[w].op.from] = writer[w].handle

\* The request that left a file half written, or copied one that was.
Witness(w, f) ==
    /\ writer[w].identity = f
    /\ \/ Mode(w) = "conditional_in_place" /\ writer[w].trace = "torn"
       \/ Mode(w) = "copy" /\ writer[w].data = "torn"

Sound(f) ==
    /\ files[f].contents \notin Spoiled
    /\ files[f].contents = "torn" => \E w \in Writers : Witness(w, f)

DraftInv == \A w \in Writers : DraftOf(w)
SoundInv == \A n \in Names : entry[n] # 0 => Sound(entry[n])


\* What a step of a request does to the names and the files of the others: nothing, and
\* whatever has a name afterwards is whole or torn by a witness.
Leaves(w) ==
    /\ \A f \in 1..Len(files) \ Owns(w) : files'[f] = files[f]
    /\ \A n \in Names : entry'[n] # entry[n] =>
          /\ entry[n] = 0 \/ entry[n] \in Owns(w) \/ ~Held(entry[n])
          /\ entry'[n] \in Owns(w) \cup {0}
    /\ \A f : Witness(w, f) => Witness(w, f)' \/ (f \in Owns(w) /\ files'[f].contents \in Writers)
    /\ \A f \in Owns(w) \ {0} : Named(f)' =>
          \/ Named(f) /\ files'[f].contents = files[f].contents
          \/ files'[f].contents \notin Spoiled \cup {"torn"}
          \/ files'[f].contents = "torn" /\ Witness(w, f)'

Whole == Inv /\ DraftInv /\ SoundInv

\* A request whose record and files a step leaves alone.
LEMMA DraftKept ==
    ASSUME Inv, NEW v \in Writers, DraftOf(v), writer'[v] = writer[v],
           \A f \in Owns(v) \ {0} : files'[f] = files[f],
           \A n \in Names : entry'[n] # entry[n] =>
              entry[n] \notin Owns(v) \ {0} /\ entry'[n] \notin Owns(v) \ {0}
    PROVE  DraftOf(v)'
<1>1. PinOf(v) /\ writer[v] \in States(Len(files))
  BY Typed DEF Inv, PinInv
<1>2. Mode(v)' = Mode(v)
  BY DEF Mode
<1>3. writer[v].pc \in Drafting => writer[v].handle \in Owns(v) \ {0}
  BY <1>1 DEF PinOf, Drafting, Owns
<1>4. writer[v].pc \in Drafting /\ ~Named(writer[v].handle) => ~Named(writer[v].handle)'
  BY <1>3 DEF Named
<1>5. writer[v].pc = "written" => files'[writer[v].handle] = files[writer[v].handle]
  BY <1>3 DEF Drafting
<1>6. ASSUME writer[v].pc \in {"opened", "written"}, Mode(v) = "move"
      PROVE  entry'[writer[v].op.from] = writer[v].handle
  <2>1. writer[v].op # NoOperation
    BY <1>6 DEF Mode, NoOperation
  <2>2. writer[v].op.from \in Names
    BY <1>1, <2>1 DEF States, Operations
  <2>3. writer[v].handle \in Owns(v) \ {0}
    BY <1>1, <1>6 DEF PinOf, Guarded, Owns
  <2> QED
    BY <1>6, <2>2, <2>3 DEF DraftOf
<1> QED
  BY <1>2, <1>4, <1>5, <1>6 DEF DraftOf, Named

\* A step of one request keeps the drafts of the others and the names sound.
LEMMA DraftStep ==
    ASSUME Whole, NEW w \in Writers, Moves(w), Leaves(w), DraftOf(w)'
    PROVE  DraftInv' /\ SoundInv'
<1>1. \A v \in Writers \ {w} : DraftOf(v)'
  <2> SUFFICES ASSUME NEW v \in Writers \ {w}
               PROVE  DraftOf(v)'
    OBVIOUS
  <2>1. DraftOf(v) /\ writer'[v] = writer[v]
    BY DEF Whole, DraftInv, Moves
  <2>2. \A f \in Owns(v) \ {0} : f \in 1..Len(files) /\ f \notin Owns(w) /\ Held(f)
    BY Typed DEF Whole, Inv, LockInv, Held, Owned, Owns
  <2>3. \A f \in Owns(v) \ {0} : files'[f] = files[f]
    BY <2>2 DEF Leaves
  <2>4. \A n \in Names : entry'[n] # entry[n] =>
           entry[n] \notin Owns(v) \ {0} /\ entry'[n] \notin Owns(v) \ {0}
    BY <2>2 DEF Leaves
  <2> QED
    BY <2>1, <2>3, <2>4, DraftKept DEF Whole
<1>2. DraftInv'
  BY <1>1 DEF DraftInv
<1>3. \A v \in Writers \ {w} : \A f : Witness(v, f) => Witness(v, f)'
  BY DEF Moves, Witness, Mode
<1>4. ASSUME NEW n \in Names, NEW f, f = entry'[n], f # 0
      PROVE  Sound(f)'
  <2>1. \A m \in Names : entry[m] # 0 =>
           entry[m] \in 1..Len(files) /\ Sound(entry[m])
    BY Typed DEF Whole, SoundInv, Inv, TypeOK
  <2>2. CASE f \in Owns(w)
    <3>1. Named(f)' /\ f # 0
      BY <1>4 DEF Named
    <3>2. CASE Named(f) /\ files'[f].contents = files[f].contents
      <4>1. Sound(f)
        BY <2>1, <3>1, <3>2 DEF Named
      <4>2. files'[f].contents = "torn" => "torn" \notin Writers
        BY WritersAssumption
      <4>3. files'[f].contents = "torn" => \E v \in Writers : Witness(v, f)'
        BY <1>3, <3>2, <4>1, <4>2 DEF Sound, Leaves
      <4> QED
        BY <3>2, <4>1, <4>3 DEF Sound, Witness, Mode
    <3>3. CASE files'[f].contents \notin Spoiled \cup {"torn"}
      BY <3>3 DEF Sound
    <3>4. CASE files'[f].contents = "torn" /\ Witness(w, f)'
      BY <3>4 DEF Sound, Spoiled, Witness, Mode
    <3> QED
      BY <2>2, <3>1, <3>2, <3>3, <3>4 DEF Leaves
  <2>3. CASE f \notin Owns(w)
    <3>1. entry[n] = f
      BY <1>4, <2>3 DEF Leaves
    <3>2. f \in 1..Len(files) /\ Sound(f)
      BY <1>4, <2>1, <3>1
    <3>3. files'[f] = files[f]
      BY <2>3, <3>2 DEF Leaves
    <3>4. files'[f].contents = "torn" => \E v \in Writers : Witness(v, f)'
      BY <1>3, <2>3, <3>2, <3>3 DEF Sound, Leaves
    <3> QED
      BY <3>2, <3>3, <3>4 DEF Sound, Witness, Mode
  <2> QED
    BY <2>2, <2>3
<1>5. SoundInv'
  BY <1>4 DEF SoundInv, Sound, Witness, Mode
<1> QED
  BY <1>2, <1>5

\* What the request itself becomes.
LEMMA Becoming ==
    ASSUME Inv, NEW w \in Writers, NEW r, Become(w, r)
    PROVE  writer'[w] = r
BY DEF Inv, TypeOK, Become

\* The record of a request, as far as its drafts go, is left alone.
Kept(w) ==
    /\ writer'[w].op = writer[w].op /\ writer'[w].identity = writer[w].identity
    /\ writer'[w].data = writer[w].data

LEMMA WitnessKept ==
    ASSUME Inv, NEW w \in Writers, Kept(w), writer'[w].trace = writer[w].trace
    PROVE  \A f : Witness(w, f) => Witness(w, f)'
BY DEF Kept, Witness, Mode

\* A step that changes neither a file nor a name.
LEMMA NothingLeft ==
    ASSUME Inv, NEW w \in Writers, files' = files, entry' = entry,
           \A f : Witness(w, f) => Witness(w, f)'
    PROVE  Leaves(w)
BY DEF Leaves, Named

Drafts(w) == DraftOf(w)' /\ Leaves(w)

LEMMA OverDrafts ==
    ASSUME Whole, NEW w \in Writers, writer[w].pc # "idle",
           NEW outcome \in {"failed", "partial", "completed"},
           Become(w, Over(w, outcome))
    PROVE  /\ DraftOf(w)'
           /\ \A f : Witness(w, f) => Witness(w, f)'
           /\ files' = files /\ entry' = entry => Drafts(w)
<1>1. writer[w] \in States(Len(files)) /\ DraftOf(w)
  BY Typed DEF Whole, Inv, DraftInv
<1>2. writer'[w] = [writer[w] EXCEPT !.expected = <<0, 0>>, !.handle = 0, !.source = 0,
                                     !.locked = 0, !.draft = "none", !.accepted = FALSE,
                                     !.pc = "done", !.report = outcome]
  BY Becoming DEF Over, Released, Whole
<1>3. Kept(w) /\ writer'[w].pc = "done" /\ writer'[w].trace = writer[w].trace
  BY <1>1, <1>2 DEF States, Kept
<1>4. DraftOf(w)'
  BY <1>1, <1>3 DEF DraftOf, Kept, Mode, Drafting
<1>5. \A f : Witness(w, f) => Witness(w, f)'
  BY <1>3, WitnessKept DEF Whole
<1>6. files' = files /\ entry' = entry => Leaves(w)
  BY <1>5, NothingLeft DEF Whole
<1> QED
  BY <1>4, <1>5, <1>6 DEF Drafts

\* Until it touches a file a request has torn none and copied none.
LEMMA NoWitnessYet ==
    ASSUME Whole, NEW w \in Writers, writer[w].pc \in {"idle", "asked", "opened", "committing"},
           Mode(w) = "copy" => writer[w].pc = "asked"
    PROVE  \A f : ~Witness(w, f)
<1>1. writer[w].trace = "none"
  BY DEF Whole, Inv, TraceInv, TraceOf
<1>2. Mode(w) = "copy" => writer[w].data \in Writers
  BY DEF Whole, DraftInv, DraftOf
<1> QED
  BY <1>1, <1>2, WritersAssumption DEF Witness

LEMMA AskDrafts ==
    ASSUME Whole, NEW w \in Writers, NEW op \in Operations, Ask(w, op)
    PROVE  Drafts(w)
<1>1. writer[w] \in States(Len(files)) /\ DraftOf(w) /\ writer[w].pc = "idle"
  BY Typed DEF Whole, Inv, DraftInv, Ask
<1>2. writer'[w] = [writer[w] EXCEPT !.pc = "asked", !.op = op, !.data = w,
                                     !.expected = Revision(entry[op.from])]
  BY Becoming DEF Ask, Whole
<1>3. writer'[w].pc = "asked" /\ writer'[w].op = op /\ writer'[w].data = w
  BY <1>1, <1>2 DEF States
<1>4. Mode(w)' # "none"
  BY <1>3 DEF Mode, Operations, Modes, Rewriting, Publishing
<1>5. DraftOf(w)'
  BY <1>3, <1>4 DEF DraftOf, Drafting
<1>6. Mode(w) # "copy"
  BY <1>1 DEF DraftOf
<1>7. Leaves(w)
  BY <1>1, <1>6, NoWitnessYet, NothingLeft DEF Ask, Whole
<1> QED
  BY <1>5, <1>7 DEF Drafts

LEMMA OpenDrafts ==
    ASSUME Whole, NEW w \in Writers, Open(w)
    PROVE  Drafts(w)
<1> DEFINE f == entry[writer[w].op.from]
<1>1. /\ writer[w] \in States(Len(files)) /\ DraftOf(w) /\ writer[w].pc = "asked"
      /\ Mode(w) \in Rewriting \cup {"move"}
  BY Typed DEF Whole, Inv, DraftInv, Open, At
<1>2. CASE f = 0 \/ Held(f)
  BY <1>1, <1>2, OverDrafts DEF Open
<1>3. CASE f # 0 /\ ~Held(f)
  <2>1. writer'[w] = [writer[w] EXCEPT !.pc = "opened", !.handle = f, !.identity = f,
                                       !.locked = IF Mode(w) = "transactional" THEN f ELSE 0]
    BY <1>3, Becoming DEF Open, Whole
  <2>2. /\ writer'[w].pc = "opened" /\ writer'[w].op = writer[w].op
        /\ writer'[w].data = writer[w].data /\ writer'[w].handle = f
    BY <1>1, <2>1 DEF States
  <2>3. entry' = entry /\ files' = files
    BY DEF Open
  <2>4. DraftOf(w)'
    BY <1>1, <2>2, <2>3 DEF DraftOf, Drafting, Mode
  <2>5. Mode(w) # "copy"
    BY <1>1 DEF Rewriting
  <2>6. Leaves(w)
    BY <1>1, <2>3, <2>5, NoWitnessYet, NothingLeft DEF Whole
  <2> QED
    BY <2>4, <2>6 DEF Drafts
<1> QED
  BY <1>2, <1>3

LEMMA CheckDrafts ==
    ASSUME Whole, NEW w \in Writers, Check(w)
    PROVE  Drafts(w)
<1>1. /\ writer[w] \in States(Len(files)) /\ DraftOf(w) /\ writer[w].pc = "opened"
      /\ PinOf(w) /\ Mode(w) \in Guarded
  BY Typed DEF Whole, Inv, DraftInv, Check, PinInv, PinOf
<1>2. Mode(w) # "copy" /\ Mode(w) \notin Publishing
  BY <1>1 DEF Guarded, Rewriting, Publishing
<1>3. entry' = entry /\ files' = files
  BY DEF Check
<1>4. Leaves(w)
  BY <1>1, <1>2, <1>3, NoWitnessYet, NothingLeft DEF Whole
<1>5. CASE Revision(writer[w].handle) # writer[w].expected
  BY <1>1, <1>3, <1>5, OverDrafts DEF Check
<1>6. CASE Revision(writer[w].handle) = writer[w].expected /\ Mode(w) = "move"
  <2>1. writer'[w] = [writer[w] EXCEPT !.pc = "written",
                                       !.data = files[writer[w].handle].contents]
    BY <1>6, Becoming DEF Check, Whole
  <2>2. /\ writer'[w].pc = "written" /\ writer'[w].op = writer[w].op
        /\ writer'[w].handle = writer[w].handle
    BY <1>1, <2>1 DEF States
  <2>3. DraftOf(w)'
    BY <1>1, <1>3, <1>6, <2>2 DEF DraftOf, Drafting, Mode, Publishing
  <2> QED
    BY <1>4, <2>3 DEF Drafts
<1>7. CASE Revision(writer[w].handle) = writer[w].expected /\ Mode(w) # "move"
  <2>1. writer'[w] = [writer[w] EXCEPT !.pc = "checked"]
    BY <1>7, Becoming DEF Check, Whole
  <2>2. /\ writer'[w].pc = "checked" /\ writer'[w].op = writer[w].op
        /\ writer'[w].data = writer[w].data
    BY <1>1, <2>1 DEF States
  <2>3. DraftOf(w)'
    BY <1>1, <1>2, <1>7, <2>2 DEF DraftOf, Drafting, Mode
  <2> QED
    BY <1>4, <2>3 DEF Drafts
<1> QED
  BY <1>5, <1>6, <1>7

\* A request that creates a file owns none before, and the new one has no name.
LEMMA CreationLeaves ==
    ASSUME Whole, NEW w \in Writers, writer[w].pc = "asked",
           files' = Append(files, NewFile("empty")), entry' = entry
    PROVE  Leaves(w) /\ \A n \in Names : entry'[n] # Len(files) + 1
<1>1. files \in Seq(File) /\ Len(files) \in Nat /\ entry \in [Names -> 0..Len(files)]
  BY Typed DEF Whole, Inv, TypeOK
<1>2. \A g \in 1..Len(files) : files'[g] = files[g]
  <2>1. NewFile("empty") \in File
    BY DEF NewFile, File, Contents
  <2> QED
    BY <1>1, <2>1, FilesGrow
<1>3. Owns(w) = {0}
  BY DEF Whole, Inv, PinInv, PinOf, Owns
<1>4. \A g : ~Witness(w, g)
  BY NoWitnessYet
<1>5. Leaves(w)
  BY <1>2, <1>3, <1>4 DEF Leaves
<1>6. \A n \in Names : entry'[n] # Len(files) + 1
  BY <1>1
<1> QED
  BY <1>5, <1>6

LEMMA CreateTemporaryDrafts ==
    ASSUME Whole, NEW w \in Writers, CreateTemporary(w)
    PROVE  Drafts(w)
<1> DEFINE n == Len(files) + 1
<1>1. /\ writer[w] \in States(Len(files)) /\ DraftOf(w) /\ writer[w].pc = "asked"
      /\ Mode(w) \in {"create_new", "atomic_replace"}
  BY Typed DEF Whole, Inv, DraftInv, CreateTemporary, At, Publishing
<1>2. writer'[w] = [writer[w] EXCEPT !.pc = "checked", !.handle = n, !.identity = n]
  BY Becoming DEF CreateTemporary, Whole
<1>3. /\ writer'[w].pc = "checked" /\ writer'[w].op = writer[w].op /\ writer'[w].handle = n
      /\ writer'[w].identity = n /\ writer'[w].data = writer[w].data
  BY <1>1, <1>2 DEF States
<1>4. Leaves(w) /\ \A m \in Names : entry'[m] # n
  BY <1>1, CreationLeaves DEF CreateTemporary
<1>5. ~Named(writer[w].handle)'
  BY <1>3, <1>4 DEF Named
<1>6. DraftOf(w)'
  BY <1>1, <1>3, <1>5 DEF DraftOf, Drafting, Mode
<1> QED
  BY <1>4, <1>6 DEF Drafts

LEMMA CopySourceDrafts ==
    ASSUME Whole, NEW w \in Writers, CopySource(w)
    PROVE  Drafts(w)
<1> DEFINE n == Len(files) + 1
           f == entry[writer[w].op.from]
<1>1. /\ writer[w] \in States(Len(files)) /\ DraftOf(w) /\ writer[w].pc = "asked"
      /\ Mode(w) = "copy"
  BY Typed DEF Whole, Inv, DraftInv, CopySource, At
<1>2. CASE f = 0 \/ Owned(f) \/ Revision(f) # writer[w].expected
  BY <1>1, <1>2, OverDrafts DEF CopySource
<1>3. CASE f # 0 /\ ~Owned(f) /\ Revision(f) = writer[w].expected
  <2>1. writer'[w] = [writer[w] EXCEPT !.pc = "checked", !.source = f,
                                       !.data = files[f].contents, !.handle = n, !.identity = n]
    BY <1>3, Becoming DEF CopySource, Whole
  <2>2. /\ writer'[w].pc = "checked" /\ writer'[w].op = writer[w].op /\ writer'[w].handle = n
        /\ writer'[w].identity = n /\ writer'[w].data = files[f].contents
    BY <1>1, <2>1 DEF States
  <2>3. Leaves(w) /\ \A m \in Names : entry'[m] # n
    BY <1>1, <1>3, CreationLeaves DEF CopySource
  <2>4. ~Named(writer[w].handle)'
    BY <2>2, <2>3 DEF Named
  <2>5. files[f].contents \notin Spoiled
    <3>1. writer[w].op # NoOperation
      BY <1>1 DEF Mode, NoOperation
    <3>2. writer[w].op.from \in Names
      BY <1>1, <3>1 DEF States, Operations
    <3> QED
      BY <1>3, <3>2 DEF Whole, SoundInv, Sound
  <2>6. DraftOf(w)'
    BY <1>1, <2>2, <2>4, <2>5 DEF DraftOf, Drafting, Mode
  <2> QED
    BY <2>3, <2>6 DEF Drafts
<1> QED
  BY <1>2, <1>3

\* The files after the contents of one of the request's own files changed, no name moving.
LEMMA OwnFileLeaves ==
    ASSUME Whole, NEW w \in Writers, NEW f \in Owns(w) \ {0}, entry' = entry,
           \A g \in 1..Len(files) \ {f} : files'[g] = files[g],
           \A g : Witness(w, g) => Witness(w, g)' \/ (g = f /\ files'[g].contents \in Writers),
           Named(f) =>
              \/ files'[f].contents = files[f].contents
              \/ files'[f].contents \notin Spoiled \cup {"torn"}
              \/ files'[f].contents = "torn" /\ Witness(w, f)'
    PROVE  Leaves(w)
<1>1. Owns(w) \subseteq 0..Len(files) /\ Len(files) \in Nat
  BY Typed DEF Whole, Inv
<1>2. \A g \in Owns(w) \ {0, f} : files'[g] = files[g]
  BY <1>1
<1>3. \A g : Named(g)' <=> Named(g)
  BY DEF Named
<1> QED
  BY <1>2, <1>3 DEF Leaves

\* What a rewritten file holds.
LEMMA Rewritten ==
    ASSUME Inv, NEW f \in 1..Len(files), NEW contents \in Contents, Rewrite(f, contents)
    PROVE  /\ files'[f].contents = contents
           /\ \A g \in 1..Len(files) \ {f} : files'[g] = files[g]
BY Typed, FileRewritten DEF Rewrite, TypeOK, Inv

LEMMA PutDrafts ==
    ASSUME Whole, NEW w \in Writers, writer[w].pc = "checked", NEW contents \in Contents,
           NEW pc \in {"checked", "written"}, Put(w, contents, pc), entry' = entry,
           pc = "checked" => contents = "torn",
           pc = "written" => contents = writer[w].data
    PROVE  Drafts(w)
<1>1. /\ writer[w] \in States(Len(files)) /\ DraftOf(w) /\ PinOf(w) /\ TraceOf(w)
      /\ Mode(w) # "move" /\ Mode(w) # "none"
  BY Typed DEF Whole, Inv, DraftInv, PinInv, TraceInv, PinOf, DraftOf
<1>2. Mode(w) \in Rewriting \cup Publishing
  <2>1. writer[w].op # NoOperation
    BY <1>1 DEF Mode, NoOperation
  <2> QED
    BY <1>1, <2>1 DEF States, Operations, Modes, Mode
<1>3. CASE Mode(w) = "transactional"
  <2>1. writer'[w] = [writer[w] EXCEPT !.pc = pc, !.draft = contents, !.accepted = TRUE]
        /\ files' = files
    BY <1>3, Becoming DEF Put, Drafted, Whole
  <2>2. Kept(w) /\ writer'[w].pc = pc /\ writer'[w].draft = contents
        /\ writer'[w].trace = writer[w].trace
    BY <1>1, <2>1 DEF States, Kept
  <2>3. DraftOf(w)'
    BY <1>1, <1>3, <2>2 DEF DraftOf, Drafting, Mode, Kept, Publishing
  <2>4. Leaves(w)
    BY <2>1, <2>2, WitnessKept, NothingLeft DEF Whole
  <2> QED
    BY <2>3, <2>4 DEF Drafts
<1>4. CASE Mode(w) # "transactional"
  <2>0. PICK h \in 1..Len(files) : h = writer[w].handle
    BY <1>1 DEF PinOf, States
  <2>1. Rewrite(h, contents)
        /\ writer'[w] = [writer[w] EXCEPT !.pc = pc, !.accepted = TRUE, !.trace = Traced(w, pc)]
    BY <1>4, <2>0, Becoming DEF Put, Whole
  <2>2. Kept(w) /\ writer'[w].pc = pc /\ writer'[w].handle = h
        /\ writer'[w].trace = Traced(w, pc)
    BY <1>1, <2>0, <2>1 DEF States, Kept
  <2>3. h \in Owns(w) \ {0}
    BY <1>1, <2>0 DEF PinOf, Owns
  <2>4. files'[h].contents = contents /\ \A g \in 1..Len(files) \ {h} : files'[g] = files[g]
    BY <2>1, Rewritten DEF Whole
  <2>6. CASE Mode(w) = "conditional_in_place"
    <3>1. h = writer[w].identity /\ writer[w].data \in Writers
      BY <1>1, <2>0, <2>6 DEF PinOf, DraftOf, Guarded, Rewriting, Modes
    <3>2. DraftOf(w)'
      BY <1>1, <2>0, <2>2, <2>6 DEF DraftOf, Drafting, Mode, Kept, Publishing
    <3>3. pc = "checked" => Witness(w, h)'
      BY <2>2, <2>6, <3>1 DEF Witness, Traced, Kept, Mode, Rewriting
    <3>4. pc = "written" => contents \in Writers /\ contents \notin Spoiled \cup {"torn"}
      BY <3>1, WritersAssumption DEF Spoiled
    <3>5. \A g : Witness(w, g) => g = h
      BY <3>1 DEF Witness
    <3>6. \A g : Witness(w, g) => Witness(w, g)' \/ (g = h /\ files'[g].contents \in Writers)
      BY <2>4, <3>3, <3>4, <3>5
    <3>7. \/ files'[h].contents \notin Spoiled \cup {"torn"}
          \/ files'[h].contents = "torn" /\ Witness(w, h)'
      BY <2>4, <3>3, <3>4
    <3>8. Leaves(w)
      BY <2>3, <2>4, <3>6, <3>7, OwnFileLeaves
    <3> QED
      BY <3>2, <3>8 DEF Drafts
  <2>7. CASE Mode(w) \in Publishing
    <3>1. ~Named(h) /\ writer[w].identity = h
      BY <1>1, <2>0, <2>7 DEF DraftOf, Drafting
    <3>2. Mode(w)' = Mode(w) /\ writer'[w].trace = "none"
      BY <2>2, <2>7 DEF Mode, Kept, Traced, Publishing, Rewriting
    <3>3. pc = "written" => files'[writer'[w].handle].contents = writer'[w].data
      BY <2>2, <2>4 DEF Kept
    <3>4. ~Named(writer[w].handle)'
      BY <2>2, <3>1 DEF Named
    <3>5. DraftOf(w)'
      BY <1>1, <2>2, <2>7, <3>1, <3>2, <3>3, <3>4 DEF DraftOf, Drafting, Kept, Publishing
    <3>6. \A g : Witness(w, g) => Witness(w, g)'
      BY <2>2, <2>7, <3>2 DEF Witness, Kept, Publishing
    <3>7. Leaves(w)
      BY <2>3, <2>4, <3>1, <3>6, OwnFileLeaves
    <3> QED
      BY <3>5, <3>7 DEF Drafts
  <2> QED
    BY <1>2, <1>4, <2>6, <2>7 DEF Rewriting
<1> QED
  BY <1>3, <1>4

LEMMA WriteDrafts ==
    ASSUME Whole, NEW w \in Writers, WriteChunk(w) \/ SetLength(w)
    PROVE  Drafts(w)
<1>1. CASE WriteChunk(w)
  BY <1>1, PutDrafts DEF WriteChunk, Contents
<1>2. CASE SetLength(w)
  <2>1. writer[w].data \in Contents
    BY <1>2 DEF SetLength, Whole, Inv, PinInv, PinOf
  <2> QED
    BY <1>2, <2>1, PutDrafts DEF SetLength
<1> QED
  BY <1>1, <1>2

LEMMA CloseDrafts ==
    ASSUME Whole, NEW w \in Writers, Close(w)
    PROVE  Drafts(w)
<1> DEFINE h == writer[w].handle
<1>1. /\ writer[w] \in States(Len(files)) /\ DraftOf(w) /\ PinOf(w)
      /\ writer[w].pc = "written" /\ Mode(w) \in Rewriting /\ entry' = entry
  BY Typed DEF Whole, Inv, DraftInv, PinInv, Close, At
<1>2. Mode(w) \notin Publishing \cup {"move"}
  BY <1>1 DEF Rewriting, Publishing
<1>3. CASE Mode(w) = "transactional"
  <2>1. writer'[w] = [writer[w] EXCEPT !.pc = "committing", !.handle = 0] /\ files' = files
    BY <1>3, Becoming DEF Close, Whole
  <2>2. Kept(w) /\ writer'[w].pc = "committing" /\ writer'[w].draft = writer[w].draft
        /\ writer'[w].trace = writer[w].trace
    BY <1>1, <2>1 DEF States, Kept
  <2>3. DraftOf(w)'
    BY <1>1, <1>2, <2>2 DEF DraftOf, Drafting, Mode, Kept
  <2>4. Leaves(w)
    BY <1>1, <2>1, <2>2, WitnessKept, NothingLeft DEF Whole
  <2> QED
    BY <2>3, <2>4 DEF Drafts
<1>4. CASE Mode(w) = "conditional_in_place"
  <2>1. /\ writer'[w] = [writer[w] EXCEPT !.pc = "observing", !.handle = 0]
        /\ Rewrite(h, files[h].contents)
    BY <1>4, Becoming DEF Close, Whole
  <2>2. Kept(w) /\ writer'[w].pc = "observing" /\ writer'[w].trace = writer[w].trace
    BY <1>1, <2>1 DEF States, Kept
  <2>3. DraftOf(w)'
    BY <1>1, <1>2, <2>2 DEF DraftOf, Drafting, Mode, Kept
  <2>4. h \in Owns(w) \ {0} /\ h \in 1..Len(files)
    BY <1>1 DEF PinOf, Owns, States
  <2>5. files[h].contents \in Contents
    BY <2>4, Typed DEF Whole, Inv, File
  <2>6. files'[h].contents = files[h].contents /\ \A g \in 1..Len(files) \ {h} : files'[g] = files[g]
    <3> DEFINE c == files[h].contents
    <3>1. Rewrite(h, c) /\ c \in Contents
      BY <2>1, <2>5
    <3> HIDE DEF c, h
    <3>2. files'[h].contents = c /\ \A g \in 1..Len(files) \ {h} : files'[g] = files[g]
      BY <2>4, <3>1, Rewritten DEF Whole
    <3> QED
      BY <3>2 DEF c
  <2>7. \A g : Witness(w, g) => Witness(w, g)'
    BY <2>2, WitnessKept DEF Whole
  <2>8. Leaves(w)
    <3> HIDE DEF h
    <3> QED
      BY <1>1, <2>4, <2>6, <2>7, OwnFileLeaves
  <2> QED
    BY <2>3, <2>8 DEF Drafts
<1> QED
  BY <1>1, <1>3, <1>4 DEF Rewriting

LEMMA FailDrafts ==
    ASSUME Whole, NEW w \in Writers, Fail(w)
    PROVE  Drafts(w)
<1>1. /\ writer[w] \in States(Len(files)) /\ DraftOf(w) /\ PinOf(w)
      /\ writer[w].pc \in {"checked", "written", "committing"}
      /\ entry' = entry /\ files' = files
  BY Typed DEF Whole, Inv, DraftInv, PinInv, Fail
<1>2. CASE Mode(w) \in Publishing
  <2>1. Mode(w) # "conditional_in_place" /\ Mode(w) # "transactional"
    BY <1>2 DEF Publishing
  <2>2. Stopped(w) = [writer[w] EXCEPT !.pc = "cleaning"]
    BY <1>2, <2>1, Zenon DEF Stopped
  <2>3. writer'[w] = [writer[w] EXCEPT !.pc = "cleaning"]
    BY <2>2, Becoming DEF Fail, Whole
  <2>4. Kept(w) /\ writer'[w].pc = "cleaning" /\ writer'[w].handle = writer[w].handle
        /\ writer'[w].trace = writer[w].trace
    BY <1>1, <2>3 DEF States, Kept
  <2>5. writer[w].identity = writer[w].handle /\ ~Named(writer[w].handle)
    BY <1>1, <1>2, <2>1 DEF DraftOf, PinOf, Drafting
  <2>6. ~Named(writer[w].handle)'
    BY <1>1, <2>4, <2>5 DEF Named
  <2>7. DraftOf(w)'
    BY <1>1, <1>2, <2>4, <2>5, <2>6 DEF DraftOf, Drafting, Mode, Kept
  <2>8. Leaves(w)
    BY <1>1, <2>4, WitnessKept, NothingLeft DEF Whole
  <2> QED
    BY <2>7, <2>8 DEF Drafts
<1>3. CASE Mode(w) \notin Publishing
  <2>1. PICK outcome \in {"partial", "failed"} : Become(w, Over(w, outcome))
    BY <1>3 DEF Fail, Stopped
  <2> QED
    BY <1>1, <2>1, OverDrafts
<1> QED
  BY <1>2, <1>3

LEMMA CommitDrafts ==
    ASSUME Whole, NEW w \in Writers, Commit(w)
    PROVE  Drafts(w)
<1> DEFINE i == writer[w].identity
<1>1. /\ writer[w] \in States(Len(files)) /\ DraftOf(w) /\ PinOf(w)
      /\ writer[w].pc = "committing" /\ Mode(w) = "transactional" /\ entry' = entry
  BY Typed DEF Whole, Inv, DraftInv, PinInv, PinOf, Commit
<1>2. /\ i \in Owns(w) \ {0} /\ i \in 1..Len(files)
      /\ writer[w].draft \in Writers
  BY <1>1 DEF PinOf, DraftOf, Owns, Compared, States, Modes, Rewriting
<1>3. writer[w].draft \in Contents \ (Spoiled \cup {"torn"})
  BY <1>2, WritersAssumption DEF Contents, Spoiled
<1>4. files'[i].contents = writer[w].draft /\ \A g \in 1..Len(files) \ {i} : files'[g] = files[g]
  BY <1>2, <1>3, Rewritten DEF Commit, Whole
<1>5. writer'[w] = [writer[w] EXCEPT !.pc = "observing", !.locked = 0, !.draft = "none",
                                     !.trace = "whole"]
  BY Becoming DEF Commit, Whole
<1>6. Kept(w) /\ writer'[w].pc = "observing"
  BY <1>1, <1>5 DEF States, Kept
<1>7. DraftOf(w)'
  BY <1>1, <1>6 DEF DraftOf, Drafting, Mode, Kept
<1>8. Leaves(w)
  <2>1. \A g : ~Witness(w, g)
    BY <1>1, NoWitnessYet
  <2> HIDE DEF i
  <2> QED
    BY <1>1, <1>2, <1>3, <1>4, <2>1, OwnFileLeaves
<1> QED
  BY <1>7, <1>8 DEF Drafts

LEMMA PublishDrafts ==
    ASSUME Whole, NEW w \in Writers, Publish(w)
    PROVE  Drafts(w)
<1>1. /\ writer[w] \in States(Len(files)) /\ DraftOf(w) /\ PinOf(w)
      /\ writer[w].pc = "written" /\ Mode(w) \in Publishing \cup {"move"} /\ files' = files
  BY Typed DEF Whole, Inv, DraftInv, PinInv, Publish, At
<1>2. PICK h \in 1..Len(files) : h = writer[w].handle
  BY <1>1 DEF PinOf, States
<1>3. PICK from \in Names, to \in Names : writer[w].op.from = from /\ writer[w].op.to = to
  <2>1. writer[w].op # NoOperation
    BY <1>1 DEF Mode, NoOperation, Publishing
  <2> QED
    BY <1>1, <2>1 DEF States, Operations
<1>4. /\ entry[to] = 0 \/ ~Held(entry[to])
      /\ entry' = [entry EXCEPT ![from] = IF Mode(w) = "move" THEN 0 ELSE @, ![to] = h]
  BY <1>2, <1>3 DEF Publish, MayRename
<1>5. writer'[w] = [writer[w] EXCEPT !.pc = "observing", !.handle = 0, !.trace = "whole"]
  BY Becoming DEF Publish, Whole
<1>6. Kept(w) /\ writer'[w].pc = "observing"
  BY <1>1, <1>5 DEF States, Kept
<1>7. DraftOf(w)'
  BY <1>1, <1>6 DEF DraftOf, Drafting, Mode, Kept
<1>8. /\ h \in Owns(w) \ {0}
      /\ Mode(w) = "move" => entry[from] = h
  BY <1>1, <1>2, <1>3 DEF Owns, DraftOf
<1>9. \A n \in Names : entry'[n] # entry[n] =>
         /\ entry[n] = 0 \/ entry[n] = h \/ ~Held(entry[n])
         /\ entry'[n] \in {0, h}
  BY <1>4, <1>8 DEF Whole, Inv, TypeOK
<1>10. \A f : Witness(w, f) => Witness(w, f)'
  <2>1. Mode(w) # "conditional_in_place"
    BY <1>1 DEF Publishing
  <2> QED
    BY <1>6, <2>1 DEF Witness, Kept, Mode
<1>11. \/ Named(h)
       \/ files[h].contents \notin Spoiled \cup {"torn"}
       \/ files[h].contents = "torn" /\ Witness(w, h)'
  <2>1. CASE Mode(w) = "move"
    BY <1>8, <2>1 DEF Named
  <2>2. CASE Mode(w) = "copy"
    <3>1. writer[w].identity = h /\ files[h].contents = writer[w].data
          /\ writer[w].data \notin Spoiled
      BY <1>1, <1>2, <2>2 DEF DraftOf, Drafting, Publishing
    <3>2. writer[w].data = "torn" => Witness(w, h)'
      BY <1>6, <2>2, <3>1 DEF Witness, Kept, Mode
    <3> QED
      BY <3>1, <3>2
  <2>3. CASE Mode(w) \in Publishing \ {"copy"}
    <3>1. files[h].contents = writer[w].data /\ writer[w].data \in Writers
      BY <1>1, <1>2, <2>3 DEF DraftOf, Publishing, Modes
    <3> QED
      BY <3>1, WritersAssumption DEF Spoiled
  <2> QED
    BY <1>1, <2>1, <2>2, <2>3
<1>12. \A f : f # h /\ f # 0 /\ Named(f)' => Named(f)
  <2>1. ASSUME NEW f, NEW n \in Names, f # h, f # 0, entry'[n] = f
        PROVE  entry[n] = f
    BY <1>9, <2>1
  <2> QED
    BY <2>1 DEF Named
<1>13. Leaves(w)
  BY <1>1, <1>8, <1>9, <1>10, <1>11, <1>12 DEF Leaves
<1> QED
  BY <1>7, <1>13 DEF Drafts

\* The contents of a temporary file that has to go.
LEMMA TemporaryLeaves ==
    ASSUME Whole, NEW w \in Writers, writer[w].pc \in {"cleaning", "dropping"},
           NEW contents, files' = [files EXCEPT ![writer[w].handle].contents = contents],
           entry' = entry, Become(w, Over(w, "failed"))
    PROVE  Drafts(w)
<1>1. writer[w] \in States(Len(files)) /\ DraftOf(w) /\ PinOf(w) /\ files \in Seq(File)
  BY Typed DEF Whole, Inv, DraftInv, PinInv
<1>2. PICK h \in 1..Len(files) : h = writer[w].handle
  BY <1>1 DEF PinOf, States
<1>3. h \in Owns(w) \ {0} /\ ~Named(h)
  BY <1>1, <1>2 DEF Owns, DraftOf, Drafting
<1>4. \A g \in 1..Len(files) \ {h} : files'[g] = files[g]
  BY <1>1, <1>2
<1>5. DraftOf(w)' /\ \A f : Witness(w, f) => Witness(w, f)'
  BY OverDrafts
<1>6. Leaves(w)
  BY <1>3, <1>4, <1>5, OwnFileLeaves
<1> QED
  BY <1>5, <1>6 DEF Drafts

LEMMA DiscardDrafts ==
    ASSUME Whole, NEW w \in Writers, Discard(w) \/ DiscardFails(w)
    PROVE  Drafts(w)
<1>1. writer[w] \in States(Len(files)) /\ DraftOf(w) /\ PinOf(w)
  BY Typed DEF Whole, Inv, DraftInv, PinInv
<1>2. CASE Discard(w)
  BY <1>2, TemporaryLeaves DEF Discard
<1>3. CASE DiscardFails(w) /\ writer[w].pc = "dropping"
  BY <1>3, TemporaryLeaves DEF DiscardFails
<1>4. CASE DiscardFails(w) /\ writer[w].pc = "cleaning"
  <2>1. writer'[w] = [writer[w] EXCEPT !.pc = "dropping"] /\ files' = files /\ entry' = entry
    BY <1>4, Becoming DEF DiscardFails, Whole
  <2>2. Kept(w) /\ writer'[w].pc = "dropping" /\ writer'[w].handle = writer[w].handle
        /\ writer'[w].trace = writer[w].trace
    BY <1>1, <2>1 DEF States, Kept
  <2>3. ~Named(writer[w].handle)'
    BY <1>1, <1>4, <2>1, <2>2 DEF Named, DraftOf, Drafting
  <2>4. DraftOf(w)'
    BY <1>1, <1>4, <2>2, <2>3 DEF DraftOf, Drafting, Mode, Kept
  <2>5. Leaves(w)
    BY <2>1, <2>2, WitnessKept, NothingLeft DEF Whole
  <2> QED
    BY <2>4, <2>5 DEF Drafts
<1> QED
  BY <1>2, <1>3, <1>4 DEF DiscardFails

LEMMA ObserveDrafts ==
    ASSUME Whole, NEW w \in Writers, Observe(w)
    PROVE  Drafts(w)
<1>1. PICK outcome \in {"completed", "partial"} : Become(w, Over(w, outcome))
  BY DEF Observe
<1> QED
  BY <1>1, OverDrafts DEF Observe

LEMMA RequestDrafts ==
    ASSUME Whole, NEW w \in Writers, Request(w)
    PROVE  DraftInv' /\ SoundInv'
<1>1. Drafts(w)
  BY AskDrafts, OpenDrafts, CheckDrafts, CreateTemporaryDrafts, CopySourceDrafts, WriteDrafts,
     CloseDrafts, FailDrafts, CommitDrafts, PublishDrafts, DiscardDrafts, ObserveDrafts
     DEF Request
<1>2. Moves(w)
  BY RequestMovesAlways DEF RequestMoves, Whole
<1> QED
  BY <1>1, <1>2, DraftStep DEF Drafts

\* What other programs put under a name is whole, and they spare the files that are open.
LEMMA OutsideDrafts ==
    ASSUME Whole, NEW n \in Names, OutsideChanges(n) \/ OutsideRemoves(n) \/ OutsideCreates(n)
    PROVE  DraftInv' /\ SoundInv'
<1>1. /\ files \in Seq(File) /\ Len(files) \in Nat /\ writer' = writer
      /\ entry \in [Names -> 0..Len(files)]
  BY Typed DEF Whole, Inv, TypeOK, OutsideChanges, OutsideRemoves, OutsideCreates
<1>2. /\ \A f \in 1..Len(files) : files'[f] = files[f] \/ (~Held(f) /\ files'[f].contents = "outside")
      /\ \A m \in Names : entry'[m] # entry[m] =>
            /\ entry[m] = 0 \/ ~Held(entry[m])
            /\ entry'[m] = 0 \/ (entry'[m] = Len(files) + 1 /\ files'[entry'[m]].contents = "outside")
  <2>1. CASE OutsideChanges(n)
    <3>1. entry[n] \in 1..Len(files) /\ ~Held(entry[n]) /\ "outside" \in Contents
      BY <1>1, <2>1 DEF OutsideChanges, Contents
    <3>2. Rewrite(entry[n], "outside") /\ entry' = entry
      BY <2>1 DEF OutsideChanges
    <3> QED
      BY <3>1, <3>2, Rewritten DEF Whole
  <2>2. CASE OutsideRemoves(n)
    BY <1>1, <2>2 DEF OutsideRemoves
  <2>3. CASE OutsideCreates(n)
    <3>1. NewFile("outside") \in File /\ NewFile("outside").contents = "outside"
      BY DEF NewFile, File, Contents
    <3>2. /\ \A f \in 1..Len(files) : files'[f] = files[f]
          /\ files'[Len(files) + 1] = NewFile("outside")
      BY <1>1, <2>3, <3>1, FilesGrow, AppendProperties DEF OutsideCreates
    <3>3. entry' = [entry EXCEPT ![n] = Len(files) + 1] /\ entry[n] = 0
      BY <2>3 DEF OutsideCreates
    <3> QED
      BY <1>1, <3>1, <3>2, <3>3
  <2> QED
    BY <2>1, <2>2, <2>3
<1>3. DraftInv'
  <2> SUFFICES ASSUME NEW v \in Writers
               PROVE  DraftOf(v)'
    BY DEF DraftInv
  <2>1. \A f \in Owns(v) \ {0} : f \in 1..Len(files) /\ Held(f)
    BY Typed DEF Whole, Inv, Held, Owned, Owns
  <2>2. \A f \in Owns(v) \ {0} : files'[f] = files[f]
    BY <1>2, <2>1
  <2>3. \A m \in Names : entry'[m] # entry[m] =>
           entry[m] \notin Owns(v) \ {0} /\ entry'[m] \notin Owns(v) \ {0}
    BY <1>1, <1>2, <2>1
  <2> QED
    BY <1>1, <2>2, <2>3, DraftKept DEF Whole, DraftInv
<1>4. ASSUME NEW m \in Names, NEW f, f = entry'[m], f # 0
      PROVE  Sound(f)'
  <2>1. CASE files'[f].contents = "outside"
    BY <2>1 DEF Sound, Spoiled
  <2>2. CASE files'[f].contents # "outside"
    <3>1. f = entry[m] /\ f \in 1..Len(files)
      BY <1>1, <1>2, <1>4, <2>2
    <3>2. Sound(f) /\ files'[f] = files[f]
      BY <1>2, <1>4, <2>2, <3>1 DEF Whole, SoundInv
    <3> QED
      BY <1>1, <3>2 DEF Sound, Witness, Mode
  <2> QED
    BY <2>1, <2>2
<1>5. SoundInv'
  BY <1>4 DEF SoundInv, Sound, Witness, Mode
<1> QED
  BY <1>3, <1>5

\* A crash takes the requests away, and leaves the files and who tore them.
LEMMA CrashDrafts ==
    ASSUME Whole, Crash
    PROVE  DraftInv' /\ SoundInv'
<1>1. files' = files /\ entry' = entry
  BY DEF Crash
<1>2. ASSUME NEW w \in Writers
      PROVE  DraftOf(w)' /\ \A f : Witness(w, f) => Witness(w, f)'
  <2>1. writer[w] \in States(Len(files)) /\ DraftOf(w)
    BY Typed DEF Whole, Inv, DraftInv
  <2>2. CASE Running(w)
    <3>1. writer'[w] = [writer[w] EXCEPT !.expected = <<0, 0>>, !.handle = 0, !.source = 0,
                                         !.locked = 0, !.draft = "none", !.accepted = FALSE,
                                         !.pc = "lost"]
      BY <2>2 DEF Crash, Released
    <3>2. Kept(w) /\ writer'[w].pc = "lost" /\ writer'[w].trace = writer[w].trace
          /\ writer[w].pc # "idle"
      BY <2>1, <2>2, <3>1 DEF States, Kept, Running
    <3>3. DraftOf(w)'
      BY <2>1, <3>2 DEF DraftOf, Drafting, Mode, Kept
    <3> QED
      BY <3>2, <3>3, WitnessKept DEF Whole
  <2>3. CASE ~Running(w)
    <3>1. writer'[w] = writer[w]
      BY <2>3 DEF Crash
    <3> QED
      BY <1>1, <2>1, <3>1, DraftKept DEF Whole, Witness, Mode
  <2> QED
    BY <2>2, <2>3
<1>3. DraftInv'
  BY <1>2 DEF DraftInv
<1>4. ASSUME NEW n \in Names, NEW f, f = entry[n], f # 0
      PROVE  Sound(f)'
  BY <1>1, <1>2, <1>4 DEF Whole, SoundInv, Sound
<1>5. SoundInv'
  BY <1>1, <1>4 DEF SoundInv, Sound, Witness, Mode
<1> QED
  BY <1>3, <1>5

LEMMA InitWhole == Init => Whole
<1> SUFFICES ASSUME Init
             PROVE  Whole
  OBVIOUS
<1>1. \A w \in Writers : writer[w].pc = "idle" /\ Mode(w) = "none"
  BY DEF Init, Idle, Mode, NoOperation
<1>2. DraftInv
  BY <1>1 DEF DraftInv, DraftOf, Drafting, Modes, Rewriting, Publishing
<1>3. files[1].contents = "old" /\ \A n \in Names : entry[n] \in {0, 1}
  BY DEF Init, NewFile
<1>4. SoundInv
  BY <1>3 DEF SoundInv, Sound, Spoiled
<1> QED
  BY <1>2, <1>4, InitInv DEF Whole

LEMMA NextWhole == Whole /\ [Next]_vars => Whole'
<1> SUFFICES ASSUME Whole, [Next]_vars
             PROVE  DraftInv' /\ SoundInv'
  BY NextInv DEF Whole
<1>1. CASE UNCHANGED vars
  BY <1>1 DEF vars, Whole, DraftInv, SoundInv, DraftOf, Named, Sound, Witness, Mode
<1> QED
  BY <1>1, RequestDrafts, OutsideDrafts, CrashDrafts DEF Next

\* Only conditional_in_place leaves a file half written: what the other modes put under a
\* name is whole, whatever fails, whoever else writes and whenever the program crashes.
THEOREM OnlyInPlaceEverTears == Spec => []OnlyInPlaceTears
<1>1. Whole => OnlyInPlaceTears
  BY DEF Whole, SoundInv, Sound, Witness, Spoiled, OnlyInPlaceTears
<1> QED BY <1>1, InitWhole, NextWhole, PTL DEF Spec

----------------------------------------------------------------------------
(* The resident host: the inductive invariant.                             *)

ClientOf(k) == Resident!Client(k)
ScopeOf(k) == Resident!Scope(k)
Standing == running \cup stopping
HasItem(k) == \E m \in Resident!Managers, l \in Resident!Lifetimes : <<m, k, l>> \in Standing
WorkflowOf(k) == <<"workflows", k, "persistent">>
Early == host \in {"accepting", "draining"}

HandlerTyped ==
    handler \in [Connections -> [manager : Resident!Managers \cup {"none"},
                                 lifetime : Resident!Lifetimes,
                                 step : {"none", "scope", "second", "admit"}]]

\* What a request will start is not there yet.
PendingTyped == \A k \in Connections :
    handler[k].step # "none" =>
        /\ handler[k].manager \in Resident!Managers
        /\ <<handler[k].manager, k, handler[k].lifetime>> \notin running \cup stopping

HostTyped == Resident!TypeOK /\ HandlerTyped /\ PendingTyped

\* A request that opens a scope, or has opened it and starts the workflow.
Opening(k) ==
    /\ handler[k].step # "none"
    /\ handler[k].manager = "workflows" /\ handler[k].lifetime = "persistent"

\* What is closed, and for good.
ClosedInv ==
    /\ "diagnostics" \in closed <=> host \in {"joining", "execution", "ended"}
    /\ "execution" \in closed <=> host = "ended"
    /\ \A m \in closed : registered[m] = {}

\* A connection that was never served has neither requests nor items.
Unserved(k) ==
    \/ task[k] \in {"none", "handshaking", "registering", "registered", "initializing"}
    \/ task[k] = "ended" /\ cleaner[ClientOf(k)] = "none"

\* Where the task of a connection and its cleanup are.
TaskInv ==
    \A k \in Connections :
        /\ task[k] \in {"none", "handshaking", "registering", "registered", "initializing",
                        "serving"} => cleaner[ClientOf(k)] = "none"
        /\ task[k] \in {"disconnecting", "closing"} => cleaner[ClientOf(k)] # "none"
        /\ task[k] = "leaving" => cleaner[ClientOf(k)] = "done"
        /\ task[k] = "ended" => cleaner[ClientOf(k)] \in {"none", "done"}
        /\ IF Early THEN task[k] # "aborted" ELSE task[k] \in {"none", "ended", "aborted"}

RequestInv ==
    \A k \in Connections :
        /\ Unserved(k) => handler[k].step = "none" /\ ~HasItem(k)
        /\ handler[k].step \in {"scope", "second"} => Opening(k)

\* The scope of a workflow is closed once, after the workflow.
ScopeInv ==
    \A k \in Connections :
        /\ Opening(k) => cleaner[ScopeOf(k)] = "none"
        /\ WorkflowOf(k) \in Standing => cleaner[ScopeOf(k)] = "none"

\* A cleanup has left the managers that it is past.
LeftInv ==
    \A o \in Resident!Owners :
        /\ cleaner[o] \in {"join", "execution", "done"} => o \notin registered["diagnostics"]
        /\ cleaner[o] = "done" => o \notin registered["execution"]
        /\ cleaner[o] \notin {"none", "cancel"} => o \in canceled

\* Who may be registered, before the host goes through its managers.
UserInv ==
    Early => \A k \in Connections, m \in {"execution", "diagnostics"} :
        /\ ClientOf(k) \in registered[m] =>
              task[k] \notin {"none", "handshaking", "registering", "ended"}
        /\ ScopeOf(k) \in registered[m] =>
              \/ Opening(k) /\ handler[k].step \in {"second", "admit"}
              \/ WorkflowOf(k) \in Standing
              \/ cleaner[ScopeOf(k)] \notin {"none", "done"}

\* The second registration is never refused: the first manager has fewer places, and
\* whoever is registered with the second is registered with the first.
LimitInv ==
    Early =>
        /\ registered["diagnostics"] \subseteq registered["execution"]
        /\ Resident!Cardinality(registered["execution"]) <= MaxRegistered

\* Who is half registered.
FirstInv ==
    Early =>
        \A k \in Connections :
            /\ task[k] = "registered" => ClientOf(k) \in registered["execution"]
            /\ handler[k].step = "second" => ScopeOf(k) \in registered["execution"]

Reachable(o) == o \in registered["execution"] \cup canceled

\* Whoever may start or has started something is canceled or can still be.
TokenInv ==
    \A k \in Connections :
        /\ task[k] \in {"registered", "initializing", "serving", "disconnecting", "leaving",
                        "closing"} => Reachable(ClientOf(k))
        /\ handler[k].step # "none" \/ HasItem(k) =>
              /\ Reachable(ClientOf(k))
              /\ ~Early => ClientOf(k) \in canceled
        /\ \/ Opening(k) /\ handler[k].step \in {"second", "admit"}
           \/ WorkflowOf(k) \in Standing
           => Reachable(ScopeOf(k))

\* What a cleanup, or the shutdown of the host, has told to stop stays told.
ToldInv ==
    \A k \in Connections :
        /\ cleaner[ClientOf(k)] \in {"leave", "join", "execution", "done"}
           \/ host \in {"diagnostics", "joining", "execution", "ended"}
              => <<"observation", k, "connection">> \notin running
        /\ cleaner[ClientOf(k)] \in {"join", "execution", "done"} =>
              <<"diagnostics", k, "connection">> \notin running
        /\ cleaner[ClientOf(k)] = "done" => <<"execution", k, "connection">> \notin running
        /\ \A l \in Resident!Lifetimes :
              /\ host \in {"joining", "execution", "ended"} =>
                    <<"diagnostics", k, l>> \notin running
              /\ host = "ended" => <<"execution", k, l>> \notin running

HostInv ==
    /\ HostTyped /\ ClosedInv /\ TaskInv /\ RequestInv /\ ScopeInv /\ LeftInv /\ UserInv
    /\ LimitInv /\ FirstInv /\ TokenInv /\ ToldInv

----------------------------------------------------------------------------
(* Each part is preserved.                                                 *)

HostSteps == [Resident!Next]_(Resident!vars)

\* The parts of a step, by who takes it.
ConnectionMoves(k) == Resident!Accept(k) \/ Resident!TaskStep(k) \/ Resident!TransportEnds(k)
RequestActs(k) ==
    \/ \E m \in Resident!Managers, l \in Resident!Lifetimes : Resident!Request(k, m, l)
    \/ Resident!OpenScope(k) \/ Resident!OpenScopeSecond(k) \/ Resident!Admit(k)
HostMoves == Resident!Stop \/ Resident!HostStep

LEMMA HostCases ==
    ASSUME HostSteps
    PROVE  \/ UNCHANGED Resident!vars
           \/ \E k \in Connections : ConnectionMoves(k) \/ RequestActs(k)
           \/ \E o \in Resident!Owners : Resident!CleanerStep(o)
           \/ \E i \in Resident!Items : Resident!Ends(i)
           \/ HostMoves
BY DEF HostSteps, Resident!Next, ConnectionMoves, RequestActs, HostMoves

LEMMA SameCardinality ==
    /\ \A S : Resident!Cardinality(S) = Cardinality(S)
    /\ \A S : Resident!IsFiniteSet(S) = IsFiniteSet(S)
BY DEF Resident!Cardinality, Cardinality, Resident!IsFiniteSet, IsFiniteSet

\* Owners and items by their parts.
LEMMA OwnersAre ==
    /\ \A k \in Connections : ClientOf(k) \in Resident!Owners /\ ScopeOf(k) \in Resident!Owners
    /\ \A o \in Resident!Owners : \E k \in Connections : o = ClientOf(k) \/ o = ScopeOf(k)
    /\ \A k, j : ClientOf(k) # ScopeOf(j)
    /\ \A k, j : ClientOf(k) = ClientOf(j) => k = j
    /\ \A k, j : ScopeOf(k) = ScopeOf(j) => k = j
BY DEF ClientOf, ScopeOf, Resident!Client, Resident!Scope, Resident!Owners

LEMMA ItemsAre ==
    /\ \A m \in Resident!Managers, k \in Connections, l \in Resident!Lifetimes :
          <<m, k, l>> \in Resident!Items
    /\ \A i \in Resident!Items : /\ i[1] \in Resident!Managers /\ i[2] \in Connections
                                 /\ i[3] \in Resident!Lifetimes /\ i = <<i[1], i[2], i[3]>>
BY DEF Resident!Items

LEMMA NamesAre == Resident!First = "execution" /\ Resident!Second = "diagnostics"
BY DEF Resident!First, Resident!Second, Resident!Order

\* What the handler of a request does to the requests.
LEMMA TurnIs ==
    ASSUME HostTyped, NEW j \in Connections, NEW where \in {"second", "admit"},
           Resident!Turn(j, where)
    PROVE  /\ \A k \in Connections \ {j} : handler'[k] = handler[k]
           /\ handler'[j].step = where
           /\ handler'[j].manager = handler[j].manager
           /\ handler'[j].lifetime = handler[j].lifetime
BY DEF HostTyped, HandlerTyped, Resident!Turn

LEMMA AnsweredIs ==
    ASSUME HostTyped, NEW j \in Connections,
           handler' = [handler EXCEPT ![j] = Resident!NoRequest]
    PROVE  /\ \A k \in Connections \ {j} : handler'[k] = handler[k]
           /\ handler'[j].step = "none"
           /\ handler'[j].manager = "none"
BY DEF HostTyped, HandlerTyped, Resident!NoRequest

\* A request starts its item, or is refused; the scope of a refused workflow is closed.
AdmitWith(j, m, l) ==
    /\ handler[j].step = "admit" /\ handler[j].manager = m /\ handler[j].lifetime = l
    /\ <<m, j, l>> \notin Standing
    /\ handler'[j].step = "none"
    /\ \A k \in Connections \ {j} : handler'[k] = handler[k]
    /\ UNCHANGED <<host, task, registered, closed, canceled, stopping>>
    /\ \/ /\ Resident!Admitted(<<m, j, l>>)
          /\ running' = running \cup {<<m, j, l>>} /\ cleaner' = cleaner
       \/ /\ m = "workflows" /\ l = "persistent"
          /\ running' = running
          /\ cleaner' = [cleaner EXCEPT ![ScopeOf(j)] = "cancel"]
       \/ /\ ~(m = "workflows" /\ l = "persistent")
          /\ running' = running /\ cleaner' = cleaner

LEMMA AdmitIs ==
    ASSUME HostTyped, NEW j \in Connections, Resident!Admit(j)
    PROVE  \E m \in Resident!Managers, l \in Resident!Lifetimes : AdmitWith(j, m, l)
<1> DEFINE m == handler[j].manager
           l == handler[j].lifetime
<1>1. /\ m \in Resident!Managers /\ l \in Resident!Lifetimes
      /\ <<m, j, l>> \notin Standing /\ handler[j].step = "admit"
      /\ handler[j].manager = m /\ handler[j].lifetime = l
  BY DEF HostTyped, HandlerTyped, PendingTyped, Resident!Admit, Standing
<1>2. Resident!OwnerOf(<<m, j, l>>) = Resident!Scope(j) <=> m = "workflows" /\ l = "persistent"
  BY OwnersAre DEF Resident!OwnerOf, ScopeOf, ClientOf
<1>3. /\ handler'[j].step = "none" /\ \A k \in Connections \ {j} : handler'[k] = handler[k]
      /\ UNCHANGED <<host, task, registered, closed, canceled, stopping>>
  BY AnsweredIs DEF Resident!Admit
<1>4. \/ /\ Resident!Admitted(<<m, j, l>>)
         /\ running' = running \cup {<<m, j, l>>} /\ cleaner' = cleaner
      \/ /\ m = "workflows" /\ l = "persistent"
         /\ running' = running
         /\ cleaner' = [cleaner EXCEPT ![ScopeOf(j)] = "cancel"]
      \/ /\ ~(m = "workflows" /\ l = "persistent")
         /\ running' = running /\ cleaner' = cleaner
  BY <1>2 DEF Resident!Admit, Resident!Clean, ScopeOf
<1>5. AdmitWith(j, m, l)
  <2> HIDE DEF m, l
  <2> QED
    BY <1>1, <1>3, <1>4 DEF AdmitWith
<1> QED BY <1>1, <1>5

\* A scope is registered with one manager, or the workflow is refused.
OpensWith(j, from, to, m) ==
    /\ handler[j].step = from
    /\ \A k \in Connections \ {j} : handler'[k] = handler[k]
    /\ UNCHANGED <<host, task, cleaner, closed, canceled, running, stopping, Standing>>
    /\ \/ /\ handler'[j].step = "none"
          /\ ~Resident!Admits(m) /\ registered' = registered
       \/ /\ handler'[j].step = to
          /\ handler'[j].manager = handler[j].manager
          /\ handler'[j].lifetime = handler[j].lifetime
          /\ m \notin closed
          /\ registered' = [registered EXCEPT ![m] = @ \cup {ScopeOf(j)}]

LEMMA OpensIs ==
    ASSUME HostTyped, NEW j \in Connections
    PROVE  /\ Resident!OpenScope(j) => OpensWith(j, "scope", "second", "execution")
           /\ Resident!OpenScopeSecond(j) => OpensWith(j, "second", "admit", "diagnostics")
<1>1. ASSUME Resident!OpenScope(j)
      PROVE  OpensWith(j, "scope", "second", "execution")
  <2>1. CASE Resident!Admits("execution")
    <3>1. Resident!Turn(j, "second") /\ Resident!Known("execution", Resident!Scope(j))
      BY <1>1, <2>1, NamesAre DEF Resident!OpenScope
    <3> QED
      BY <1>1, <2>1, <3>1, TurnIs DEF Resident!OpenScope, OpensWith, Standing, Resident!work,
        Resident!Known, ScopeOf, Resident!Admits
  <2>2. CASE ~Resident!Admits("execution")
    BY <1>1, <2>2, NamesAre, AnsweredIs DEF Resident!OpenScope, OpensWith, Standing, Resident!work
  <2> QED BY <2>1, <2>2
<1>2. ASSUME Resident!OpenScopeSecond(j)
      PROVE  OpensWith(j, "second", "admit", "diagnostics")
  <2>1. CASE Resident!Admits("diagnostics")
    <3>1. Resident!Turn(j, "admit") /\ Resident!Known("diagnostics", Resident!Scope(j))
      BY <1>2, <2>1, NamesAre DEF Resident!OpenScopeSecond
    <3> QED
      BY <1>2, <2>1, <3>1, TurnIs DEF Resident!OpenScopeSecond, OpensWith, Standing, Resident!work,
        Resident!Known, ScopeOf, Resident!Admits
  <2>2. CASE ~Resident!Admits("diagnostics")
    BY <1>2, <2>2, NamesAre, AnsweredIs DEF Resident!OpenScopeSecond, OpensWith, Standing,
      Resident!work
  <2> QED BY <2>1, <2>2
<1> QED BY <1>1, <1>2

\* An item ends, and a persistent workflow with it its scope.
EndsWith(m, j, l) ==
    /\ <<m, j, l>> \in Standing
    /\ running' = running \ {<<m, j, l>>} /\ Standing' = Standing \ {<<m, j, l>>}
    /\ UNCHANGED <<host, task, handler, registered, closed, canceled>>
    /\ IF m = "workflows" /\ l = "persistent"
         THEN cleaner' = [cleaner EXCEPT ![ScopeOf(j)] = "cancel"]
         ELSE cleaner' = cleaner

LEMMA EndsIs ==
    ASSUME HostTyped, NEW i \in Resident!Items, Resident!Ends(i)
    PROVE  \E m \in Resident!Managers, j \in Connections, l \in Resident!Lifetimes :
             EndsWith(m, j, l)
<1>1. PICK m \in Resident!Managers, j \in Connections, l \in Resident!Lifetimes : i = <<m, j, l>>
  BY ItemsAre
<1>2. Resident!OwnerOf(i) = Resident!Scope(i[2]) <=> m = "workflows" /\ l = "persistent"
  BY <1>1, OwnersAre DEF Resident!OwnerOf, ScopeOf, ClientOf
<1>3. IF m = "workflows" /\ l = "persistent"
        THEN cleaner' = [cleaner EXCEPT ![ScopeOf(j)] = "cancel"]
        ELSE cleaner' = cleaner
  BY <1>1, <1>2 DEF Resident!Ends, Resident!Clean, ScopeOf
<1>4. i \in Standing /\ running' = running \ {i} /\ Standing' = Standing \ {i}
  BY DEF Resident!Ends, Standing
<1>5. UNCHANGED <<host, task, handler, registered, closed, canceled>>
  BY DEF Resident!Ends
<1>6. EndsWith(m, j, l)
  BY <1>1, <1>3, <1>4, <1>5 DEF EndsWith
<1> QED BY <1>6

LEMMA InitHost == Resident!Init => HostInv
<1> SUFFICES ASSUME Resident!Init PROVE HostInv
  OBVIOUS
<1>1. HostTyped /\ ClosedInv /\ TaskInv /\ RequestInv /\ ScopeInv /\ LeftInv /\ UserInv
      /\ FirstInv /\ TokenInv /\ ToldInv
  BY OwnersAre DEF Resident!Init, HostTyped, HandlerTyped, PendingTyped, Resident!TypeOK, Resident!NoRequest,
    Resident!Managers, Resident!Lifetimes, ClosedInv, TaskInv, RequestInv, ScopeInv, LeftInv,
    UserInv, FirstInv, TokenInv, ToldInv, Early, Standing, HasItem, Unserved, Opening
<1>2. LimitInv
  <2>1. Cardinality({}) = 0
    BY FS_EmptySet
  <2> QED
    BY <2>1, SameCardinality, ResidentAssumption DEF Resident!Init, LimitInv,
      Resident!NoRequest, Resident!HostAssumption
<1> QED BY <1>1, <1>2 DEF HostInv

LEMMA HostTypedStep ==
    ASSUME HostTyped, HostSteps
    PROVE  HostTyped'
<1> USE DEF HostTyped, HandlerTyped, PendingTyped, Resident!TypeOK
<1>1. CASE UNCHANGED Resident!vars
  BY <1>1 DEF Resident!vars
<1>2. ASSUME NEW k \in Connections, ConnectionMoves(k)
      PROVE HostTyped'
  <2>1. Resident!Client(k) \in Resident!Owners
    BY DEF Resident!Client, Resident!Owners
  <2>2. CASE Resident!Accept(k) \/ Resident!Handshake(k) \/ Resident!Disconnected(k)
             \/ Resident!Closed(k) \/ Resident!TransportEnds(k)
    BY <2>1, <2>2 DEF Resident!Accept, Resident!Handshake, Resident!Disconnected,
      Resident!Closed, Resident!TransportEnds, Resident!Go, Resident!work
  <2>3. CASE Resident!RegisterFirst(k) \/ Resident!RegisterSecond(k)
    <3>1. registered' \in [{"execution", "diagnostics"} -> SUBSET Resident!Owners]
      BY <2>1, <2>3, NamesAre DEF Resident!RegisterFirst, Resident!RegisterSecond,
        Resident!Known
    <3> QED
      BY <2>3, <3>1 DEF Resident!RegisterFirst, Resident!RegisterSecond, Resident!Go,
        Resident!work
  <2>4. CASE Resident!Initialize(k) \/ Resident!Disconnect(k) \/ Resident!ServiceEnds(k)
    BY ZenonT(60), <2>1, <2>4 DEF Resident!Initialize, Resident!Disconnect, Resident!ServiceEnds,
      Resident!Go, Resident!Clean, Resident!work
  <2> QED BY <1>2, <2>2, <2>3, <2>4 DEF ConnectionMoves, Resident!TaskStep
<1>3. ASSUME NEW k \in Connections, RequestActs(k)
      PROVE HostTyped'
  <2>1. CASE \E m \in Resident!Managers, l \in Resident!Lifetimes : Resident!Request(k, m, l)
    BY <2>1 DEF Resident!Request, Resident!work
  <2>2. CASE Resident!OpenScope(k) \/ Resident!OpenScopeSecond(k)
    <3>1. registered' \in [{"execution", "diagnostics"} -> SUBSET Resident!Owners]
      BY <2>2, NamesAre, OwnersAre DEF Resident!OpenScope, Resident!OpenScopeSecond,
        Resident!Known, ScopeOf
    <3>2. HandlerTyped' /\ PendingTyped'
      BY <2>2 DEF Resident!OpenScope, Resident!OpenScopeSecond, Resident!Turn,
        Resident!NoRequest, Resident!Lifetimes, Resident!work
    <3> QED
      BY <2>2, <3>1, <3>2 DEF Resident!OpenScope, Resident!OpenScopeSecond, Resident!work
  <2>3. CASE Resident!Admit(k)
    <3> DEFINE i == <<handler[k].manager, k, handler[k].lifetime>>
    <3>1. i \in Resident!Items
      BY <2>3, ItemsAre DEF Resident!Admit
    <3>2. HandlerTyped' /\ PendingTyped'
      BY <2>3 DEF Resident!Admit, Resident!NoRequest, Resident!Lifetimes
    <3>3. cleaner' \in [Resident!Owners -> {"none", "cancel", "workflows", "observation",
                                           "leave", "join", "execution", "done"}]
      BY <2>3 DEF Resident!Admit, Resident!Clean
    <3>4. i \notin stopping
      BY <2>3 DEF Resident!Admit
    <3>5. running' \subseteq running \cup {i} /\ stopping' = stopping
      BY <2>3 DEF Resident!Admit
    <3>6. UNCHANGED <<host, task, registered, closed, canceled>>
      BY <2>3 DEF Resident!Admit
    <3> HIDE DEF HandlerTyped, PendingTyped, i
    <3> QED
      BY <3>1, <3>2, <3>3, <3>4, <3>5, <3>6
  <2> QED BY <1>3, <2>1, <2>2, <2>3 DEF RequestActs
<1>4. ASSUME NEW o \in Resident!Owners, Resident!CleanerStep(o)
      PROVE HostTyped'
  <2>1. CASE Resident!CancelToken(o) \/ Resident!CleanWorkflows(o)
             \/ Resident!CleanObservation(o)
    BY ZenonT(60), <2>1 DEF Resident!CancelToken, Resident!CleanWorkflows, Resident!CleanObservation,
      Resident!Tell, Resident!Clean, Resident!work
  <2>2. CASE Resident!LeaveDiagnostics(o) \/ Resident!JoinDiagnostics(o)
             \/ Resident!LeaveExecution(o)
    <3>1. registered' \in [{"execution", "diagnostics"} -> SUBSET Resident!Owners]
      BY <2>2 DEF Resident!LeaveDiagnostics, Resident!JoinDiagnostics,
        Resident!LeaveExecution
    <3> QED
      BY <2>2, <3>1 DEF Resident!LeaveDiagnostics, Resident!JoinDiagnostics,
        Resident!LeaveExecution, Resident!Tell, Resident!Clean, Resident!work
  <2> QED BY <1>4, <2>1, <2>2 DEF Resident!CleanerStep
<1>5. ASSUME NEW i \in Resident!Items, Resident!Ends(i)
      PROVE HostTyped'
  BY <1>5 DEF Resident!Ends, Resident!Clean
<1>6. CASE HostMoves
  <2>1. CASE Resident!Stop \/ Resident!Drained \/ Resident!Joined
    BY <2>1 DEF Resident!Stop, Resident!Drained, Resident!Joined, Resident!work
  <2>2. CASE Resident!DrainTimesOut
    BY <2>2 DEF Resident!DrainTimesOut, Resident!work
  <2>3. CASE Resident!ShutdownWorkflows \/ Resident!ShutdownObservation
    BY <2>3 DEF Resident!ShutdownWorkflows, Resident!ShutdownObservation, Resident!Tell
  <2>4. CASE Resident!ShutdownDiagnostics \/ Resident!ShutdownExecution
    <3>1. registered' \in [{"execution", "diagnostics"} -> SUBSET Resident!Owners]
      BY <2>4 DEF Resident!ShutdownDiagnostics, Resident!ShutdownExecution
    <3>2. canceled' \subseteq Resident!Owners
      BY <2>4 DEF Resident!ShutdownDiagnostics, Resident!ShutdownExecution
    <3> QED
      BY <2>4, <3>1, <3>2 DEF Resident!ShutdownDiagnostics, Resident!ShutdownExecution,
        Resident!Tell
  <2> QED BY <1>6, <2>1, <2>2, <2>3, <2>4 DEF HostMoves, Resident!HostStep
<1> QED BY <1>1, <1>2, <1>3, <1>4, <1>5, <1>6, HostCases


\* A request that goes on to its second registration was served all along.
LEMMA RequestWhenOpened ==
    ASSUME HostInv, NEW j \in Connections, NEW from \in {"scope", "second"},
         NEW to \in {"second", "admit"}, NEW m, OpensWith(j, from, to, m)
    PROVE  RequestInv'
<1> USE OwnersAre DEF HostInv, RequestInv
<1> SUFFICES ASSUME NEW k \in Connections
             PROVE  /\ Unserved(k)' => handler'[k].step = "none" /\ ~HasItem(k)'
                    /\ handler'[k].step \in {"scope", "second"} => Opening(k)'
  OBVIOUS
<1>0. HasItem(k)' = HasItem(k) /\ Unserved(k)' = Unserved(k)
  BY DEF OpensWith, HasItem, Unserved
<1>1. CASE k # j
  <2>1. handler'[k] = handler[k]
    BY <1>1 DEF OpensWith
  <2> QED BY <1>0, <2>1 DEF Opening
<1>2. CASE k = j
  <2>1. ~Unserved(j) /\ Opening(j)
    BY DEF OpensWith
  <2> QED BY <1>2, <2>1, <1>0 DEF OpensWith, Opening
<1> QED BY <1>1, <1>2

\* A request that is answered has at most started its own item.
LEMMA RequestWhenAdmitted ==
    ASSUME HostInv, NEW j \in Connections, NEW m \in Resident!Managers, NEW l \in Resident!Lifetimes, AdmitWith(j, m, l)
    PROVE  RequestInv'
<1> USE OwnersAre DEF HostInv, RequestInv
<1> SUFFICES ASSUME NEW k \in Connections PROVE
        /\ Unserved(k)' => handler'[k].step = "none" /\ ~HasItem(k)'
        /\ handler'[k].step \in {"scope", "second"} => Opening(k)'
  OBVIOUS
<1>0. Unserved(k)' => Unserved(k)
  BY DEF AdmitWith, Unserved, HostTyped, Resident!TypeOK
<1>1. CASE k # j
  <2>1. handler'[k] = handler[k]
    BY <1>1 DEF AdmitWith
  <2>2. HasItem(k)' => HasItem(k)
    BY <1>1 DEF AdmitWith, HasItem, Standing
  <2> QED
  BY <1>0, <2>1, <2>2 DEF Opening
<1>2. CASE k = j
  <2>1. ~Unserved(j)
    BY DEF AdmitWith
  <2> HIDE DEF Unserved
  <2> QED
    BY <1>2, <2>1, <1>0 DEF AdmitWith
<1> QED BY <1>1, <1>2

\* A failed initialization cleans the client up, not a scope.
LEMMA ScopeWhenInitialized ==
    ASSUME HostInv, NEW j \in Connections, Resident!Initialize(j)
    PROVE  ScopeInv'
<1> USE OwnersAre DEF HostInv, ScopeInv
<1>1. handler' = handler /\ Standing' = Standing
  BY DEF Resident!Initialize, Resident!work, Standing
<1>2. \A k \in Connections : cleaner'[ScopeOf(k)] = cleaner[ScopeOf(k)]
  BY DEF Resident!Initialize, Resident!Clean, ClientOf, HostTyped, Resident!TypeOK
<1> QED BY <1>1, <1>2 DEF Opening

\* A scope is not cleaned while it is opened.
LEMMA ScopeWhenOpened ==
    ASSUME HostInv, NEW j \in Connections, NEW from, NEW to \in {"second", "admit"}, NEW m, OpensWith(j, from, to, m),
         from \in {"scope", "second"}
    PROVE  ScopeInv'
<1> USE OwnersAre DEF HostInv, ScopeInv
<1>1. cleaner' = cleaner /\ Standing' = Standing
  BY DEF OpensWith
<1>2. \A k \in Connections : Opening(k)' => Opening(k)
  BY DEF OpensWith, Opening, RequestInv
<1> QED BY <1>1, <1>2

\* The scope of a refused workflow is cleaned at once.
LEMMA ScopeWhenAdmitted ==
    ASSUME HostInv, NEW j \in Connections, NEW m \in Resident!Managers, NEW l \in Resident!Lifetimes, AdmitWith(j, m, l)
    PROVE  ScopeInv'
<1> USE OwnersAre DEF HostInv, ScopeInv
<1> SUFFICES ASSUME NEW k \in Connections PROVE
        /\ Opening(k)' => cleaner'[ScopeOf(k)] = "none"
        /\ WorkflowOf(k) \in Standing' => cleaner'[ScopeOf(k)] = "none"
  OBVIOUS
<1>1. CASE k # j
  <2>1. handler'[k] = handler[k] /\ cleaner'[ScopeOf(k)] = cleaner[ScopeOf(k)] 
    BY <1>1 DEF AdmitWith, HostTyped, Resident!TypeOK
  <2>2. WorkflowOf(k) \in Standing' => WorkflowOf(k) \in Standing
    BY <1>1 DEF AdmitWith, WorkflowOf, Standing
  <2> QED
  BY <2>1, <2>2 DEF Opening
<1>2. CASE k = j
  <2>1. ~Opening(j)'
    BY DEF AdmitWith, Opening
  <2>2. ASSUME WorkflowOf(j) \in Standing'
        PROVE  cleaner' = cleaner /\ (Opening(j) \/ WorkflowOf(j) \in Standing)
    BY <2>2 DEF AdmitWith, WorkflowOf, Standing, Opening
  <2> QED
    BY <1>2, <2>1, <2>2
<1> QED BY <1>1, <1>2

\* The scope of a workflow is cleaned when the workflow has ended.
LEMMA ScopeWhenEnded ==
    ASSUME HostInv, NEW j \in Connections, NEW m \in Resident!Managers, NEW l \in Resident!Lifetimes, EndsWith(m, j, l)
    PROVE  ScopeInv'
<1> USE OwnersAre DEF HostInv, ScopeInv
<1> SUFFICES ASSUME NEW k \in Connections PROVE
        /\ Opening(k)' => cleaner'[ScopeOf(k)] = "none"
        /\ WorkflowOf(k) \in Standing' => cleaner'[ScopeOf(k)] = "none"
  OBVIOUS
<1>1. Opening(k)' = Opening(k) /\ (WorkflowOf(k) \in Standing' => WorkflowOf(k) \in Standing)
  BY DEF EndsWith, Opening
<1>2. CASE k = j /\ m = "workflows" /\ l = "persistent"
  <2>1. WorkflowOf(j) \notin Standing' /\ WorkflowOf(j) \in Standing
    BY <1>2 DEF EndsWith, WorkflowOf
  <2>2. ~Opening(j)
    BY <2>1 DEF Opening, HostTyped, PendingTyped, WorkflowOf, Standing
  <2> QED BY <1>1, <1>2, <2>1, <2>2
<1>3. CASE ~(k = j /\ m = "workflows" /\ l = "persistent")
  <2>1. cleaner'[ScopeOf(k)] = cleaner[ScopeOf(k)]
    BY <1>3 DEF EndsWith, HostTyped, Resident!TypeOK
  <2> QED BY <1>1, <2>1
<1> QED BY <1>2, <1>3

\* The registrations can be counted.
LEMMA RegisteredIsFinite ==
    ASSUME HostTyped, NEW m \in {"execution", "diagnostics"}
    PROVE  IsFiniteSet(registered[m]) /\ Cardinality(registered[m]) \in Nat
<1>1. IsFiniteSet(Resident!Owners)
  <2>1. IsFiniteSet(Connections)
    BY ResidentAssumption, SameCardinality DEF Resident!HostAssumption
  <2>2. IsFiniteSet({"client", "scope"})
    <3>1. IsFiniteSet({} \cup {"client"})
      BY FS_EmptySet, FS_AddElement
    <3>2. IsFiniteSet(({} \cup {"client"}) \cup {"scope"})
      BY <3>1, FS_AddElement
    <3>3. ({} \cup {"client"}) \cup {"scope"} = {"client", "scope"}
      OBVIOUS
    <3> QED BY <3>2, <3>3
  <2>3. IsFiniteSet(Connections \X {"client", "scope"})
    BY <2>1, <2>2, FS_Product
  <2> QED BY <2>3 DEF Resident!Owners
<1>2. registered[m] \subseteq Resident!Owners
  BY DEF HostTyped, Resident!TypeOK
<1> QED BY <1>1, <1>2, FS_Subset, FS_CardinalityType

\* The second manager has room whenever the first one had.
LEMMA SecondAdmits ==
    ASSUME HostInv, Early
    PROVE  Resident!Admits("diagnostics")
<1> DEFINE D == registered["diagnostics"]
           E == registered["execution"]
<1>1. D \subseteq E /\ Cardinality(E) <= MaxRegistered
  BY SameCardinality DEF HostInv, LimitInv
<1>2. IsFiniteSet(E) /\ Cardinality(E) \in Nat /\ Cardinality(D) \in Nat
  BY RegisteredIsFinite DEF HostInv
<1>3. Cardinality(D) <= Cardinality(E)
  BY <1>1, <1>2, FS_Subset
<1>4. MaxRegistered \in Nat /\ MaxDiagnostics \in Nat /\ MaxRegistered < MaxDiagnostics
  BY ResidentAssumption DEF Resident!HostAssumption
<1>5. Cardinality(D) < MaxDiagnostics
  BY <1>1, <1>2, <1>3, <1>4
<1>6. "diagnostics" \notin closed
  BY DEF HostInv, ClosedInv, Early
<1> QED BY <1>5, <1>6, SameCardinality DEF Resident!Admits, Resident!Limit

\* Registrations come first with the first manager and leave the second one first.
LEMMA LimitStep ==
    ASSUME HostInv, HostSteps
    PROVE  LimitInv'
<1> DEFINE D == registered["diagnostics"]
           E == registered["execution"]
<1> SUFFICES ASSUME Early'
             PROVE  D' \subseteq E' /\ Cardinality(E') <= MaxRegistered
  BY SameCardinality DEF LimitInv
<1>a. D \subseteq E /\ Cardinality(E) <= MaxRegistered /\ Early
  <2>1. Early
    BY HostCases DEF Early, HostInv, HostTyped, Resident!TypeOK, Resident!vars,
      ConnectionMoves, Resident!Accept, Resident!TaskStep, Resident!TransportEnds,
      Resident!Handshake, Resident!RegisterFirst, Resident!RegisterSecond,
      Resident!Initialize, Resident!Disconnect, Resident!Disconnected,
      Resident!ServiceEnds, Resident!Closed, RequestActs, Resident!Request,
      Resident!OpenScope, Resident!OpenScopeSecond, Resident!Admit, Resident!CleanerStep,
      Resident!CancelToken, Resident!CleanWorkflows, Resident!CleanObservation,
      Resident!LeaveDiagnostics, Resident!JoinDiagnostics, Resident!LeaveExecution,
      Resident!Ends, HostMoves, Resident!Stop, Resident!HostStep, Resident!Drained,
      Resident!DrainTimesOut, Resident!ShutdownWorkflows, Resident!ShutdownObservation,
      Resident!ShutdownDiagnostics, Resident!Joined, Resident!ShutdownExecution
  <2> QED BY <2>1, SameCardinality DEF HostInv, LimitInv
<1>b. IsFiniteSet(E) /\ Cardinality(E) \in Nat /\ MaxRegistered \in Nat
  BY RegisteredIsFinite, ResidentAssumption DEF HostInv, Resident!HostAssumption
<1>c. registered \in [{"execution", "diagnostics"} -> SUBSET Resident!Owners]
  BY DEF HostInv, HostTyped, Resident!TypeOK
<1>d. ASSUME NEW q1, Resident!Admits("execution"),
             registered' = [registered EXCEPT !["execution"] = @ \cup {q1}]
      PROVE  D' \subseteq E' /\ Cardinality(E') <= MaxRegistered
  <2>1. Cardinality(E) < MaxRegistered
    BY <1>d, SameCardinality DEF Resident!Admits, Resident!Limit
  <2>2. E' = E \cup {q1} /\ D' = D
    BY <1>c, <1>d
  <2>3. Cardinality(E \cup {q1}) \in {Cardinality(E), Cardinality(E) + 1}
    <3> HIDE DEF E
    <3> QED BY <1>b, FS_AddElement
  <2>4. Cardinality(E \cup {q1}) <= MaxRegistered
    <3> HIDE DEF E
    <3> QED BY <1>b, <2>1, <2>3
  <2> QED BY <1>a, <2>2, <2>4
<1>e. ASSUME NEW q1 \in E,
             registered' = [registered EXCEPT !["diagnostics"] = @ \cup {q1}]
      PROVE  D' \subseteq E' /\ Cardinality(E') <= MaxRegistered
  BY <1>a, <1>c, <1>e
<1>1. CASE registered' = registered
  BY <1>1, <1>a
<1>2. ASSUME NEW j \in Connections, ConnectionMoves(j), registered' # registered
      PROVE  D' \subseteq E' /\ Cardinality(E') <= MaxRegistered
  <2>1. CASE Resident!RegisterFirst(j)
    BY <1>2, <2>1, <1>d, NamesAre DEF Resident!RegisterFirst, Resident!Known
  <2>2. CASE Resident!RegisterSecond(j)
    <3>1. ClientOf(j) \in E
      BY <1>a, <2>2 DEF HostInv, FirstInv, Resident!RegisterSecond
    <3> QED
      BY <1>2, <2>2, <3>1, <1>e, NamesAre DEF Resident!RegisterSecond, Resident!Known, ClientOf
  <2> QED
    BY <1>2, <2>1, <2>2 DEF ConnectionMoves, Resident!Accept, Resident!TaskStep,
      Resident!TransportEnds, Resident!Handshake, Resident!Initialize, Resident!Disconnect,
      Resident!Disconnected, Resident!ServiceEnds, Resident!Closed
<1>3. ASSUME NEW j \in Connections, RequestActs(j), registered' # registered
      PROVE  D' \subseteq E' /\ Cardinality(E') <= MaxRegistered
  <2>1. CASE Resident!OpenScope(j)
    BY <1>3, <2>1, <1>d, NamesAre DEF Resident!OpenScope, Resident!Known
  <2>2. CASE Resident!OpenScopeSecond(j)
    <3>1. ScopeOf(j) \in E
      BY <1>a, <2>2 DEF HostInv, FirstInv, Resident!OpenScopeSecond
    <3> QED
      BY <1>3, <2>2, <3>1, <1>e, NamesAre DEF Resident!OpenScopeSecond, Resident!Known, ScopeOf
  <2> QED
    BY <1>3, <2>1, <2>2 DEF RequestActs, Resident!Request, Resident!Admit
<1>4. ASSUME NEW o \in Resident!Owners, Resident!CleanerStep(o), registered' # registered
      PROVE  D' \subseteq E' /\ Cardinality(E') <= MaxRegistered
  <2>1. CASE Resident!LeaveDiagnostics(o)
    BY <2>1, <1>a, <1>c DEF Resident!LeaveDiagnostics
  <2>2. CASE Resident!LeaveExecution(o)
    <3>1. o \notin D
      BY <2>2 DEF Resident!LeaveExecution, HostInv, LeftInv
    <3>2. E' = E \ {o} /\ D' = D
      BY <2>2, <1>c DEF Resident!LeaveExecution
    <3>3. Cardinality(E \ {o}) <= Cardinality(E) /\ Cardinality(E \ {o}) \in Nat
      BY <1>b, FS_RemoveElement, FS_Subset, FS_CardinalityType
    <3> QED BY <1>a, <1>b, <3>1, <3>2, <3>3
  <2> QED
    BY <1>4, <2>1, <2>2 DEF Resident!CleanerStep, Resident!CancelToken,
      Resident!CleanWorkflows, Resident!CleanObservation, Resident!JoinDiagnostics
<1>5. ASSUME NEW i \in Resident!Items, Resident!Ends(i)
      PROVE  registered' = registered
  BY <1>5 DEF Resident!Ends
<1>6. CASE HostMoves
  BY <1>6, <1>1 DEF HostMoves, Early, Resident!Stop, Resident!HostStep, Resident!Drained,
    Resident!DrainTimesOut, Resident!ShutdownWorkflows, Resident!ShutdownObservation,
    Resident!ShutdownDiagnostics, Resident!Joined, Resident!ShutdownExecution
<1> QED BY <1>1, <1>2, <1>3, <1>4, <1>5, <1>6, HostCases DEF Resident!vars

\* A manager that is closed registers nobody.
LEMMA ClosedWhenOpened ==
    ASSUME HostInv, NEW j \in Connections, NEW from, NEW to,
         NEW m \in {"execution", "diagnostics"}, OpensWith(j, from, to, m)
    PROVE  ClosedInv'
<1>1. UNCHANGED <<host, closed>>
  BY DEF OpensWith
<1>2. \A n \in closed : registered'[n] = registered[n]
  BY DEF OpensWith, HostInv, HostTyped, Resident!TypeOK
<1> QED BY <1>1, <1>2 DEF HostInv, ClosedInv

\* A scope is not cleaned yet when it is registered.
LEMMA LeftWhenOpened ==
    ASSUME HostInv, NEW j \in Connections, NEW from \in {"scope", "second"},
         NEW to \in {"second", "admit"}, NEW m \in {"execution", "diagnostics"},
         OpensWith(j, from, to, m)
    PROVE  LeftInv'
<1> USE OwnersAre DEF HostInv, LeftInv
<1>1. cleaner[ScopeOf(j)] = "none"
  BY DEF OpensWith, RequestInv, ScopeInv
<1>2. UNCHANGED <<cleaner, canceled>>
  BY DEF OpensWith
<1>3. \A n \in {"execution", "diagnostics"} : registered'[n] \subseteq registered[n] \cup {ScopeOf(j)}
  BY DEF OpensWith, HostTyped, Resident!TypeOK
<1> QED BY <1>1, <1>2, <1>3

\* The second registration is of a connection that goes on.
LEMMA UserWhenRegistered ==
    ASSUME HostInv, NEW j \in Connections, Resident!RegisterSecond(j)
    PROVE  UserInv'
<1> USE OwnersAre DEF HostInv, UserInv
<1>1. CASE ~Early
  BY <1>1 DEF Resident!RegisterSecond, Early
<1>2. CASE Early
  <2>1. registered' = [registered EXCEPT !["diagnostics"] = @ \cup {ClientOf(j)}]
    BY <1>2, SecondAdmits, NamesAre DEF Resident!RegisterSecond, Resident!Known, ClientOf
  <2>2. task' = [task EXCEPT ![j] = "initializing"]
    BY <1>2, SecondAdmits, NamesAre DEF Resident!RegisterSecond, Resident!Go
  <2>3. UNCHANGED <<host, handler, cleaner, closed, canceled, Standing>>
    BY DEF Resident!RegisterSecond, Resident!work, Standing
  <2> QED BY <1>2, <2>1, <2>2, <2>3 DEF Early, Opening, HostTyped, Resident!TypeOK
<1> QED BY <1>1, <1>2

\* A request takes nobody out of use.
LEMMA UserWhenRequested ==
    ASSUME HostInv, NEW j \in Connections, NEW m \in Resident!Managers, NEW l \in Resident!Lifetimes, Resident!Request(j, m, l)
    PROVE  UserInv'
<1> USE OwnersAre DEF HostInv, UserInv
<1>1. UNCHANGED <<host, task, cleaner, registered, closed, canceled, Standing>>
  BY DEF Resident!Request, Resident!work, Standing
<1>2. \A k \in Connections \ {j} : handler'[k] = handler[k]
  BY DEF Resident!Request, HostTyped, HandlerTyped
<1>3. ~Opening(j)
  BY DEF Opening, Resident!Request, Resident!NoRequest
<1> QED BY <1>1, <1>2, <1>3 DEF Early, Opening

\* The second registration of a scope is of a workflow that starts.
LEMMA UserWhenOpened ==
    ASSUME HostInv, NEW j \in Connections, Resident!OpenScopeSecond(j)
    PROVE  UserInv'
<1> USE OwnersAre DEF HostInv, UserInv
<1>1. OpensWith(j, "second", "admit", "diagnostics")
  BY OpensIs
<1>2. CASE ~Early
  BY <1>1, <1>2 DEF OpensWith, Early
<1>3. CASE Early
  <2>1. /\ handler'[j].step = "admit" /\ Opening(j)'
        /\ registered' = [registered EXCEPT !["diagnostics"] = @ \cup {ScopeOf(j)}]
    BY <1>1, <1>3, SecondAdmits DEF OpensWith, RequestInv, Opening
  <2>2. UNCHANGED <<host, task, cleaner, Standing>>
    BY <1>1 DEF OpensWith
  <2>3. \A k \in Connections \ {j} : handler'[k] = handler[k]
    BY <1>1 DEF OpensWith
  <2> QED BY <1>3, <2>1, <2>2, <2>3 DEF Early, Opening, HostTyped, Resident!TypeOK
<1> QED BY <1>2, <1>3

\* Who is registered can be canceled.
LEMMA TokenWhenRegistered ==
    ASSUME HostInv, NEW j \in Connections, Resident!RegisterFirst(j) \/ Resident!RegisterSecond(j)
    PROVE  TokenInv'
<1> USE OwnersAre DEF HostInv, TokenInv
<1>1. \/ registered' = registered /\ task' = [task EXCEPT ![j] = "ended"]
      \/ /\ task[j] = "registering" /\ task' = [task EXCEPT ![j] = "registered"]
         /\ registered' = [registered EXCEPT !["execution"] = @ \cup {ClientOf(j)}]
      \/ /\ task[j] = "registered" /\ task' = [task EXCEPT ![j] = "initializing"]
         /\ registered' = [registered EXCEPT !["diagnostics"] = @ \cup {ClientOf(j)}]
  BY NamesAre DEF Resident!RegisterFirst, Resident!RegisterSecond, Resident!Known, Resident!Go, ClientOf
<1>2. UNCHANGED <<host, handler, canceled, Standing>>
  BY DEF Resident!RegisterFirst, Resident!RegisterSecond, Resident!work, Standing
<1>3. registered["execution"] \subseteq registered'["execution"]
  BY <1>1 DEF HostTyped, Resident!TypeOK
<1>4. \A q1 : Reachable(q1) => Reachable(q1)'
  BY <1>2, <1>3 DEF Reachable
<1>5. \A k \in Connections : (Opening(k) <=> Opening(k)') /\ (HasItem(k) <=> HasItem(k)')
  BY <1>2 DEF Opening, HasItem
<1>6. task'[j] \in {"registered", "initializing"} => Reachable(ClientOf(j))'
  BY <1>1, <1>2, <1>4 DEF Reachable, HostTyped, Resident!TypeOK
<1>7. task'[j] \in {"ended", "registered", "initializing"} /\ \A k \in Connections \ {j} : task'[k] = task[k]
  BY <1>1 DEF HostTyped, Resident!TypeOK
<1> QED BY <1>2, <1>4, <1>5, <1>6, <1>7 DEF Early

\* A scope is opened for whom the shutdown can cancel.
LEMMA TokenWhenOpened ==
    ASSUME HostInv, NEW j \in Connections, NEW from, NEW to, NEW m, OpensWith(j, from, to, m),
         \/ from = "scope" /\ to = "second" /\ m = "execution"
         \/ from = "second" /\ to = "admit" /\ m = "diagnostics"
    PROVE  TokenInv'
<1> USE OwnersAre DEF HostInv, TokenInv
<1>1. UNCHANGED <<host, task, cleaner, canceled, Standing>> /\ \A k \in Connections \ {j} : handler'[k] = handler[k]
  BY DEF OpensWith
<1>3. registered["execution"] \subseteq registered'["execution"]
  BY DEF OpensWith, HostTyped, Resident!TypeOK
<1>4. \A q1 : Reachable(q1) => Reachable(q1)'
  BY <1>1, <1>3 DEF Reachable
<1>5. \A k \in Connections : HasItem(k) <=> HasItem(k)'
  BY <1>1 DEF HasItem
<1>6. handler[j].step # "none" /\ Opening(j)
  BY DEF OpensWith, RequestInv
<1>7. handler'[j].step # "none" => handler'[j].step = to /\ Reachable(ScopeOf(j))'
  BY <1>1, <1>4, <1>6 DEF OpensWith, Reachable, HostTyped, Resident!TypeOK
<1>8. \A k \in Connections \ {j} : Opening(k)' <=> Opening(k)
  BY <1>1 DEF Opening
<1> SUFFICES ASSUME NEW k \in Connections
    PROVE
        /\ task'[k] \in {"registered", "initializing", "serving", "disconnecting", "leaving",
                        "closing"} => Reachable(ClientOf(k))'
        /\ handler'[k].step # "none" \/ HasItem(k)' =>
              /\ Reachable(ClientOf(k))'
              /\ ~Early' => ClientOf(k) \in canceled'
        /\ \/ Opening(k)' /\ handler'[k].step \in {"second", "admit"}
           \/ WorkflowOf(k) \in Standing'
           => Reachable(ScopeOf(k))'
  OBVIOUS
<1>9. CASE k = j
  BY <1>1, <1>4, <1>5, <1>6, <1>7, <1>9 DEF Early, Opening
<1>10. CASE k # j
  BY <1>1, <1>4, <1>5, <1>8, <1>10 DEF Early
<1> QED BY <1>9, <1>10

\* What is started can be told to stop.
LEMMA TokenWhenAdmitted ==
    ASSUME HostInv, NEW j \in Connections, NEW m \in Resident!Managers, NEW l \in Resident!Lifetimes, AdmitWith(j, m, l)
    PROVE  TokenInv'
<1> USE OwnersAre DEF HostInv, TokenInv
<1>1. UNCHANGED <<host, task, canceled, registered>> /\ \A k \in Connections \ {j} : handler'[k] = handler[k]
  BY DEF AdmitWith
<1>2. \A q1 : Reachable(q1) <=> Reachable(q1)'
  BY <1>1 DEF Reachable
<1> SUFFICES ASSUME NEW k \in Connections
    PROVE
        /\ task'[k] \in {"registered", "initializing", "serving", "disconnecting", "leaving",
                        "closing"} => Reachable(ClientOf(k))'
        /\ handler'[k].step # "none" \/ HasItem(k)' =>
              /\ Reachable(ClientOf(k))'
              /\ ~Early' => ClientOf(k) \in canceled'
        /\ \/ Opening(k)' /\ handler'[k].step \in {"second", "admit"}
           \/ WorkflowOf(k) \in Standing'
           => Reachable(ScopeOf(k))'
  OBVIOUS
<1>3. CASE k = j
  <2>1. handler[j].step = "admit" /\ ~Opening(j)' /\ handler'[j].step = "none"
    BY DEF AdmitWith, Opening
  <2>2. WorkflowOf(j) \in Standing' => WorkflowOf(j) \in Standing \/ Opening(j)
    BY DEF AdmitWith, Opening, WorkflowOf, Standing
  <2> QED BY <1>1, <1>2, <1>3, <2>1, <2>2 DEF Early
<1>4. CASE k # j
  <2>1. (HasItem(k)' => HasItem(k)) /\ (WorkflowOf(k) \in Standing' => WorkflowOf(k) \in Standing)
    BY <1>4 DEF AdmitWith, HasItem, WorkflowOf, Standing
  <2>2. Opening(k)' <=> Opening(k)
    BY <1>1, <1>4 DEF Opening
  <2> QED BY <1>1, <1>2, <1>4, <2>1, <2>2 DEF Early
<1> QED BY <1>3, <1>4

\* Nothing is started for whom the cleanup has passed the manager.
LEMMA ToldWhenAdmitted ==
    ASSUME HostInv, NEW j \in Connections, NEW m \in Resident!Managers, NEW n \in Resident!Lifetimes, AdmitWith(j, m, n)
    PROVE  ToldInv'
<1> USE OwnersAre DEF HostInv, ToldInv
<1>1. UNCHANGED <<host, task, canceled, registered, closed>>
  BY DEF AdmitWith
<1>2. \A k \in Connections : cleaner'[ClientOf(k)] = cleaner[ClientOf(k)]
  BY DEF AdmitWith, HostTyped, Resident!TypeOK
<1>3. CASE running' = running
  BY <1>1, <1>2, <1>3
<1>4. CASE running' # running
  <2>1. Resident!Admitted(<<m, j, n>>) /\ running' = running \cup {<<m, j, n>>}
    BY <1>4 DEF AdmitWith
  <2>2. ASSUME m = "observation" PROVE ToldInv'
    <3>1. n = "connection" => Resident!Client(j) \notin canceled
      BY <2>1, <2>2 DEF Resident!Admitted
    <3>2. n = "connection" => Early /\ cleaner[ClientOf(j)] \in {"none", "cancel"}
      BY <3>1 DEF TokenInv, LeftInv, AdmitWith, ClientOf
    <3> QED BY <1>1, <1>2, <2>1, <2>2, <3>2 DEF Early
  <2>3. ASSUME m = "diagnostics" PROVE ToldInv'
    <3>1. "diagnostics" \notin closed /\ Resident!Client(j) \in registered["diagnostics"]
      BY <2>1, <2>3 DEF Resident!Admitted
    <3>2. cleaner[ClientOf(j)] \notin {"join", "execution", "done"}
          /\ host \notin {"joining", "execution", "ended"}
      BY <3>1 DEF LeftInv, ClosedInv, ClientOf
    <3> QED BY <1>1, <1>2, <2>1, <2>3, <3>2
  <2>4. ASSUME m = "execution" PROVE ToldInv'
    <3>1. "execution" \notin closed /\ Resident!Client(j) \in registered["execution"]
      BY <2>1, <2>4 DEF Resident!Admitted
    <3>2. cleaner[ClientOf(j)] # "done" /\ host # "ended"
      BY <3>1 DEF LeftInv, ClosedInv, ClientOf
    <3> QED BY <1>1, <1>2, <2>1, <2>4, <3>2
  <2>5. ASSUME m = "workflows" PROVE ToldInv'
    BY <1>1, <1>2, <2>1, <2>5
  <2> QED BY <2>2, <2>3, <2>4, <2>5 DEF Resident!Managers
<1> QED BY <1>3, <1>4

\* An item that ended is not running.
LEMMA ToldWhenEnded ==
    ASSUME HostInv, NEW j \in Connections, NEW m \in Resident!Managers, NEW n \in Resident!Lifetimes, EndsWith(m, j, n)
    PROVE  ToldInv'
<1> USE OwnersAre DEF HostInv, ToldInv
<1>1. host' = host /\ running' \subseteq running
  BY DEF EndsWith
<1>2. \A k \in Connections : cleaner'[ClientOf(k)] = cleaner[ClientOf(k)]
  BY DEF EndsWith, HostTyped, Resident!TypeOK
<1> QED BY <1>1, <1>2

\* The shutdown closes the managers and forgets who is registered.
LEMMA ClosedStep ==
    ASSUME HostInv, HostSteps
    PROVE  ClosedInv'
<1> USE NamesAre DEF HostInv, ClosedInv, HostTyped, Resident!TypeOK
<1>1. CASE UNCHANGED Resident!vars
  BY <1>1 DEF Resident!vars
<1>2. ASSUME NEW j \in Connections, ConnectionMoves(j)
      PROVE  ClosedInv'
  <2>1. CASE Resident!Accept(j) \/ Resident!Handshake(j) \/ Resident!RegisterFirst(j)
             \/ Resident!RegisterSecond(j) \/ Resident!Initialize(j)
    BY <2>1 DEF Resident!Accept, Resident!Handshake, Resident!RegisterFirst,
      Resident!RegisterSecond, Resident!Initialize, Resident!Go, Resident!work,
      Resident!Serving, Resident!Known, Resident!Admits, Resident!Clean
  <2>2. CASE Resident!Disconnect(j) \/ Resident!Disconnected(j) \/ Resident!ServiceEnds(j)
             \/ Resident!Closed(j) \/ Resident!TransportEnds(j)
    BY <2>2 DEF Resident!Disconnect, Resident!Disconnected, Resident!ServiceEnds,
      Resident!Closed, Resident!TransportEnds, Resident!Go, Resident!Clean, Resident!work,
      Resident!Stopped
  <2> QED BY <1>2, <2>1, <2>2 DEF ConnectionMoves, Resident!TaskStep
<1>3. ASSUME NEW j \in Connections, RequestActs(j)
      PROVE  ClosedInv'
  <2>1. ASSUME NEW m \in Resident!Managers, NEW l \in Resident!Lifetimes,
               Resident!Request(j, m, l)
        PROVE  ClosedInv'
    BY <2>1 DEF Resident!Request, Resident!work
  <2>2. CASE Resident!OpenScope(j)
    BY <2>2, OpensIs, ClosedWhenOpened
  <2>3. CASE Resident!OpenScopeSecond(j)
    BY <2>3, OpensIs, ClosedWhenOpened
  <2>4. CASE Resident!Admit(j)
    <3>1. PICK m \in Resident!Managers, l \in Resident!Lifetimes : AdmitWith(j, m, l)
      BY <2>4, AdmitIs
    <3> QED BY <3>1 DEF AdmitWith, Resident!Admitted, Resident!OwnerOf
  <2> QED BY <1>3, <2>1, <2>2, <2>3, <2>4 DEF RequestActs
<1>4. ASSUME NEW o \in Resident!Owners, Resident!CleanerStep(o)
      PROVE  ClosedInv'
  <2>1. CASE Resident!CancelToken(o) \/ Resident!CleanWorkflows(o)
             \/ Resident!CleanObservation(o)
    BY <2>1 DEF Resident!CancelToken, Resident!CleanWorkflows, Resident!CleanObservation,
      Resident!Clean, Resident!work, Resident!Tell
  <2>2. CASE Resident!LeaveDiagnostics(o) \/ Resident!JoinDiagnostics(o)
             \/ Resident!LeaveExecution(o)
    BY <2>2 DEF Resident!LeaveDiagnostics, Resident!JoinDiagnostics, Resident!LeaveExecution,
      Resident!Tell, Resident!Clean, Resident!work
  <2> QED BY <1>4, <2>1, <2>2 DEF Resident!CleanerStep
<1>5. ASSUME NEW i \in Resident!Items, Resident!Ends(i)
      PROVE  ClosedInv'
  <2>1. PICK m \in Resident!Managers, j \in Connections, l \in Resident!Lifetimes :
           EndsWith(m, j, l)
    BY <1>5, EndsIs
  <2> QED BY <2>1 DEF EndsWith
<1>6. CASE HostMoves
  <2>1. CASE Resident!Stop \/ Resident!Drained \/ Resident!Joined \/ Resident!DrainTimesOut
    BY <2>1 DEF Resident!Stop, Resident!Drained, Resident!Joined, Resident!DrainTimesOut,
      Resident!work, Resident!Serving, Resident!Waiting
  <2>2. CASE Resident!ShutdownWorkflows \/ Resident!ShutdownObservation
             \/ Resident!ShutdownDiagnostics \/ Resident!ShutdownExecution
    BY <2>2 DEF Resident!ShutdownWorkflows, Resident!ShutdownObservation,
      Resident!ShutdownDiagnostics, Resident!ShutdownExecution, Resident!Tell
  <2> QED BY <1>6, <2>1, <2>2 DEF HostMoves, Resident!HostStep
<1> QED BY <1>1, <1>2, <1>3, <1>4, <1>5, <1>6, HostCases

\* A task waits for its cleanup.
LEMMA TaskInvStep ==
    ASSUME HostInv, HostSteps
    PROVE  TaskInv'
<1> USE OwnersAre DEF HostInv, TaskInv, HostTyped, Resident!TypeOK, Early, ClientOf, ScopeOf
<1>1. CASE UNCHANGED Resident!vars
  BY <1>1 DEF Resident!vars
<1>2. ASSUME NEW j \in Connections, ConnectionMoves(j)
      PROVE  TaskInv'
  <2>1. CASE Resident!Accept(j) \/ Resident!Handshake(j) \/ Resident!RegisterFirst(j)
             \/ Resident!RegisterSecond(j) \/ Resident!Initialize(j)
    BY <2>1 DEF Resident!Accept, Resident!Handshake, Resident!RegisterFirst,
      Resident!RegisterSecond, Resident!Initialize, Resident!Go, Resident!work,
      Resident!Serving, Resident!Known, Resident!Admits, Resident!Clean
  <2>2. CASE Resident!Disconnect(j) \/ Resident!Disconnected(j) \/ Resident!ServiceEnds(j)
             \/ Resident!Closed(j) \/ Resident!TransportEnds(j)
    BY <2>2 DEF Resident!Disconnect, Resident!Disconnected, Resident!ServiceEnds,
      Resident!Closed, Resident!TransportEnds, Resident!Go, Resident!Clean, Resident!work,
      Resident!Stopped
  <2> QED BY <1>2, <2>1, <2>2 DEF ConnectionMoves, Resident!TaskStep
<1>3. ASSUME NEW j \in Connections, RequestActs(j)
      PROVE  TaskInv'
  <2>1. ASSUME NEW m \in Resident!Managers, NEW l \in Resident!Lifetimes,
               Resident!Request(j, m, l)
        PROVE  TaskInv'
    BY <2>1 DEF Resident!Request, Resident!work
  <2>2. CASE Resident!OpenScope(j)
    BY <2>2, OpensIs DEF OpensWith
  <2>3. CASE Resident!OpenScopeSecond(j)
    BY <2>3, OpensIs DEF OpensWith
  <2>4. CASE Resident!Admit(j)
    <3>1. PICK m \in Resident!Managers, l \in Resident!Lifetimes : AdmitWith(j, m, l)
      BY <2>4, AdmitIs
    <3> QED BY <3>1 DEF AdmitWith, Resident!Admitted, Resident!OwnerOf
  <2> QED BY <1>3, <2>1, <2>2, <2>3, <2>4 DEF RequestActs
<1>4. ASSUME NEW o \in Resident!Owners, Resident!CleanerStep(o)
      PROVE  TaskInv'
  <2>1. CASE Resident!CancelToken(o) \/ Resident!CleanWorkflows(o)
             \/ Resident!CleanObservation(o)
    BY <2>1 DEF Resident!CancelToken, Resident!CleanWorkflows, Resident!CleanObservation,
      Resident!Clean, Resident!work, Resident!Tell
  <2>2. CASE Resident!LeaveDiagnostics(o) \/ Resident!JoinDiagnostics(o)
             \/ Resident!LeaveExecution(o)
    BY <2>2 DEF Resident!LeaveDiagnostics, Resident!JoinDiagnostics, Resident!LeaveExecution,
      Resident!Tell, Resident!Clean, Resident!work
  <2> QED BY <1>4, <2>1, <2>2 DEF Resident!CleanerStep
<1>5. ASSUME NEW i \in Resident!Items, Resident!Ends(i)
      PROVE  TaskInv'
  <2>1. PICK m \in Resident!Managers, j \in Connections, l \in Resident!Lifetimes :
           EndsWith(m, j, l)
    BY <1>5, EndsIs
  <2> QED BY <2>1 DEF EndsWith
<1>6. CASE HostMoves
  <2>1. CASE Resident!Stop \/ Resident!Drained \/ Resident!Joined \/ Resident!DrainTimesOut
    BY <2>1 DEF Resident!Stop, Resident!Drained, Resident!Joined, Resident!DrainTimesOut,
      Resident!work, Resident!Serving, Resident!Waiting
  <2>2. CASE Resident!ShutdownWorkflows \/ Resident!ShutdownObservation
             \/ Resident!ShutdownDiagnostics \/ Resident!ShutdownExecution
    BY <2>2 DEF Resident!ShutdownWorkflows, Resident!ShutdownObservation,
      Resident!ShutdownDiagnostics, Resident!ShutdownExecution, Resident!Tell
  <2> QED BY <1>6, <2>1, <2>2 DEF HostMoves, Resident!HostStep
<1> QED BY <1>1, <1>2, <1>3, <1>4, <1>5, <1>6, HostCases

\* Nobody is registered again after the cleanup.
LEMMA LeftStep ==
    ASSUME HostInv, HostSteps
    PROVE  LeftInv'
<1> USE OwnersAre, NamesAre DEF HostInv, LeftInv, TaskInv, ScopeInv, RequestInv, Opening,
  HostTyped, HandlerTyped, PendingTyped, Resident!TypeOK, ClientOf, ScopeOf
<1>1. CASE UNCHANGED Resident!vars
  BY <1>1 DEF Resident!vars
<1>2. ASSUME NEW j \in Connections, ConnectionMoves(j)
      PROVE  LeftInv'
  <2>1. CASE Resident!Accept(j) \/ Resident!Handshake(j) \/ Resident!RegisterFirst(j)
    BY <2>1 DEF Resident!Accept, Resident!Handshake, Resident!RegisterFirst, Resident!Go,
      Resident!work, Resident!Serving, Resident!Known, Resident!Admits
  <2>2. CASE Resident!RegisterSecond(j) \/ Resident!Initialize(j) \/ Resident!Disconnect(j)
    BY <2>2 DEF Resident!RegisterSecond, Resident!Initialize, Resident!Disconnect, Resident!Go,
      Resident!Known, Resident!work, Resident!Admits, Resident!Clean, Resident!Stopped
  <2>3. CASE Resident!Disconnected(j) \/ Resident!ServiceEnds(j) \/ Resident!Closed(j)
    BY <2>3 DEF Resident!Disconnected, Resident!ServiceEnds, Resident!Closed, Resident!Go,
      Resident!work, Resident!Clean
  <2>4. CASE Resident!TransportEnds(j)
    BY <2>4 DEF Resident!TransportEnds, Resident!work
  <2> QED BY <1>2, <2>1, <2>2, <2>3, <2>4 DEF ConnectionMoves, Resident!TaskStep
<1>3. ASSUME NEW j \in Connections, RequestActs(j)
      PROVE  LeftInv'
  <2>1. ASSUME NEW m \in Resident!Managers, NEW l \in Resident!Lifetimes,
               Resident!Request(j, m, l)
        PROVE  LeftInv'
    BY <2>1 DEF Resident!Request, Resident!work
  <2>2. CASE Resident!OpenScope(j)
    BY <2>2, OpensIs, LeftWhenOpened
  <2>3. CASE Resident!OpenScopeSecond(j)
    BY <2>3, OpensIs, LeftWhenOpened
  <2>4. CASE Resident!Admit(j)
    <3>1. PICK m \in Resident!Managers, l \in Resident!Lifetimes : AdmitWith(j, m, l)
      BY <2>4, AdmitIs
    <3> QED BY <3>1 DEF AdmitWith, Resident!Admitted, Resident!OwnerOf
  <2> QED BY <1>3, <2>1, <2>2, <2>3, <2>4 DEF RequestActs
<1>4. ASSUME NEW o \in Resident!Owners, Resident!CleanerStep(o)
      PROVE  LeftInv'
  <2>1. CASE Resident!CancelToken(o) \/ Resident!CleanWorkflows(o)
    BY <2>1 DEF Resident!CancelToken, Resident!CleanWorkflows, Resident!Clean, Resident!work,
      Resident!Tell
  <2>2. CASE Resident!CleanObservation(o) \/ Resident!LeaveDiagnostics(o)
    BY <2>2 DEF Resident!CleanObservation, Resident!LeaveDiagnostics, Resident!Tell,
      Resident!Clean
  <2>3. CASE Resident!JoinDiagnostics(o) \/ Resident!LeaveExecution(o)
    BY <2>3 DEF Resident!JoinDiagnostics, Resident!LeaveExecution, Resident!Clean,
      Resident!work, Resident!Tell
  <2> QED BY <1>4, <2>1, <2>2, <2>3 DEF Resident!CleanerStep
<1>5. ASSUME NEW i \in Resident!Items, Resident!Ends(i)
      PROVE  LeftInv'
  <2>1. PICK m \in Resident!Managers, j \in Connections, l \in Resident!Lifetimes :
           EndsWith(m, j, l)
    BY <1>5, EndsIs
  <2> QED BY <2>1 DEF EndsWith
<1>6. CASE HostMoves
  <2>1. CASE Resident!Stop \/ Resident!Drained
    BY <2>1 DEF Resident!Stop, Resident!Drained, Resident!work, Resident!Serving
  <2>2. CASE Resident!Joined \/ Resident!DrainTimesOut
    BY <2>2 DEF Resident!Joined, Resident!DrainTimesOut, Resident!work, Resident!Serving,
      Resident!Waiting
  <2>3. CASE Resident!ShutdownWorkflows \/ Resident!ShutdownObservation
    BY <2>3 DEF Resident!ShutdownWorkflows, Resident!ShutdownObservation, Resident!Tell
  <2>4. CASE Resident!ShutdownDiagnostics \/ Resident!ShutdownExecution
    BY <2>4 DEF Resident!ShutdownDiagnostics, Resident!ShutdownExecution, Resident!Tell
  <2> QED BY <1>6, <2>1, <2>2, <2>3, <2>4 DEF HostMoves, Resident!HostStep
<1> QED BY <1>1, <1>2, <1>3, <1>4, <1>5, <1>6, HostCases

\* Requests come from connections that are served.
LEMMA RequestInvStep ==
    ASSUME HostInv, HostSteps
    PROVE  RequestInv'
<1> USE OwnersAre, ItemsAre, NamesAre DEF HostInv, RequestInv, TaskInv, Unserved, Opening,
  HasItem, Standing, Early, HostTyped, HandlerTyped, PendingTyped, Resident!TypeOK, ClientOf,
  ScopeOf
<1>1. CASE UNCHANGED Resident!vars
  BY <1>1 DEF Resident!vars
<1>2. ASSUME NEW j \in Connections, ConnectionMoves(j)
      PROVE  RequestInv'
  <2>1. CASE Resident!Accept(j)
    BY <2>1 DEF Resident!Accept, Resident!Go, Resident!work, Resident!Serving
  <2>2. CASE Resident!Handshake(j)
    BY ZenonT(60), <2>2 DEF Resident!Handshake, Resident!Go, Resident!work
  <2>3. CASE Resident!RegisterFirst(j)
    BY ZenonT(60), <2>3 DEF Resident!RegisterFirst, Resident!Go, Resident!Known, Resident!work,
      Resident!Admits
  <2>4. CASE Resident!RegisterSecond(j)
    BY ZenonT(60), <2>4 DEF Resident!RegisterSecond, Resident!Go, Resident!Known, Resident!work,
      Resident!Admits
  <2>5. CASE Resident!Initialize(j)
    BY ZenonT(60), <2>5 DEF Resident!Initialize, Resident!Go, Resident!Clean, Resident!work
  <2>6. CASE Resident!Disconnect(j)
    BY <2>6 DEF Resident!Disconnect, Resident!Go, Resident!Clean, Resident!work,
      Resident!Stopped
  <2>7. CASE Resident!Disconnected(j)
    BY <2>7 DEF Resident!Disconnected, Resident!Go, Resident!work
  <2>8. CASE Resident!ServiceEnds(j)
    BY <2>8 DEF Resident!ServiceEnds, Resident!Go, Resident!Clean, Resident!work
  <2>9. CASE Resident!Closed(j)
    BY <2>9 DEF Resident!Closed, Resident!Go, Resident!work
  <2>10. CASE Resident!TransportEnds(j)
    BY <2>10 DEF Resident!TransportEnds, Resident!work
  <2> QED BY <1>2, <2>1, <2>2, <2>3, <2>4, <2>5, <2>6, <2>7, <2>8, <2>9, <2>10 DEF ConnectionMoves, Resident!TaskStep
<1>3. ASSUME NEW j \in Connections, RequestActs(j)
      PROVE  RequestInv'
  <2>1. ASSUME NEW m \in Resident!Managers, NEW l \in Resident!Lifetimes,
               Resident!Request(j, m, l)
        PROVE  RequestInv'
    BY <2>1 DEF Resident!Request, Resident!work
  <2>2. CASE Resident!OpenScope(j)
    BY <2>2, OpensIs, RequestWhenOpened
  <2>3. CASE Resident!OpenScopeSecond(j)
    BY <2>3, OpensIs, RequestWhenOpened
  <2>4. CASE Resident!Admit(j)
    <3>1. PICK m \in Resident!Managers, l \in Resident!Lifetimes : AdmitWith(j, m, l)
      BY <2>4, AdmitIs
    <3> QED BY <3>1, RequestWhenAdmitted
  <2> QED BY <1>3, <2>1, <2>2, <2>3, <2>4 DEF RequestActs
<1>4. ASSUME NEW o \in Resident!Owners, Resident!CleanerStep(o)
      PROVE  RequestInv'
  <2>1. CASE Resident!CancelToken(o)
    BY <2>1 DEF Resident!CancelToken, Resident!Clean, Resident!work
  <2>2. CASE Resident!CleanWorkflows(o)
    BY <2>2 DEF Resident!CleanWorkflows, Resident!Tell, Resident!Clean
  <2>3. CASE Resident!CleanObservation(o)
    BY <2>3 DEF Resident!CleanObservation, Resident!Tell, Resident!Clean
  <2>4. CASE Resident!LeaveDiagnostics(o)
    BY <2>4 DEF Resident!LeaveDiagnostics, Resident!Tell, Resident!Clean
  <2>5. CASE Resident!JoinDiagnostics(o)
    BY <2>5 DEF Resident!JoinDiagnostics, Resident!Clean, Resident!work
  <2>6. CASE Resident!LeaveExecution(o)
    BY <2>6 DEF Resident!LeaveExecution, Resident!Tell, Resident!Clean
  <2> QED BY <1>4, <2>1, <2>2, <2>3, <2>4, <2>5, <2>6 DEF Resident!CleanerStep
<1>5. ASSUME NEW i \in Resident!Items, Resident!Ends(i)
      PROVE  RequestInv'
  <2>1. PICK m \in Resident!Managers, j \in Connections, l \in Resident!Lifetimes :
           EndsWith(m, j, l)
    BY <1>5, EndsIs
  <2> QED BY ZenonT(60), <2>1 DEF EndsWith
<1>6. CASE HostMoves
  <2>1. CASE Resident!Stop
    BY <2>1 DEF Resident!Stop, Resident!work
  <2>2. CASE Resident!Drained
    BY <2>2 DEF Resident!Drained, Resident!work, Resident!Serving
  <2>3. CASE Resident!Joined
    BY <2>3 DEF Resident!Joined, Resident!work
  <2>4. CASE Resident!DrainTimesOut
    BY <2>4 DEF Resident!DrainTimesOut, Resident!work, Resident!Serving, Resident!Waiting
  <2>5. CASE Resident!ShutdownWorkflows
    BY <2>5 DEF Resident!ShutdownWorkflows, Resident!Tell
  <2>6. CASE Resident!ShutdownObservation
    BY <2>6 DEF Resident!ShutdownObservation, Resident!Tell
  <2>7. CASE Resident!ShutdownDiagnostics
    BY <2>7 DEF Resident!ShutdownDiagnostics, Resident!Tell
  <2>8. CASE Resident!ShutdownExecution
    BY <2>8 DEF Resident!ShutdownExecution, Resident!Tell
  <2> QED BY <1>6, <2>1, <2>2, <2>3, <2>4, <2>5, <2>6, <2>7, <2>8 DEF HostMoves, Resident!HostStep
<1> QED BY <1>1, <1>2, <1>3, <1>4, <1>5, <1>6, HostCases

\* A scope is used once.
LEMMA ScopeStep ==
    ASSUME HostInv, HostSteps
    PROVE  ScopeInv'
<1> USE OwnersAre, ItemsAre, NamesAre DEF HostInv, ScopeInv, RequestInv, Opening, WorkflowOf,
  Standing, HostTyped, HandlerTyped, PendingTyped, Resident!TypeOK, ClientOf, ScopeOf
<1>1. CASE UNCHANGED Resident!vars
  BY <1>1 DEF Resident!vars
<1>2. ASSUME NEW j \in Connections, ConnectionMoves(j)
      PROVE  ScopeInv'
  <2>1. CASE Resident!Accept(j)
    BY <2>1 DEF Resident!Accept, Resident!Go, Resident!work, Resident!Serving
  <2>2. CASE Resident!Handshake(j)
    BY <2>2 DEF Resident!Handshake, Resident!Go, Resident!work
  <2>3. CASE Resident!RegisterFirst(j)
    BY <2>3 DEF Resident!RegisterFirst, Resident!Go, Resident!Known, Resident!work,
      Resident!Admits
  <2>4. CASE Resident!RegisterSecond(j)
    BY <2>4 DEF Resident!RegisterSecond, Resident!Go, Resident!Known, Resident!work,
      Resident!Admits
  <2>5. CASE Resident!Disconnect(j)
    BY ZenonT(60), <2>5 DEF Resident!Disconnect, Resident!Go, Resident!Clean, Resident!work,
      Resident!Stopped
  <2>6. CASE Resident!Disconnected(j)
    BY <2>6 DEF Resident!Disconnected, Resident!Go, Resident!work
  <2>7. CASE Resident!ServiceEnds(j)
    BY ZenonT(60), <2>7 DEF Resident!ServiceEnds, Resident!Go, Resident!Clean, Resident!work
  <2>8. CASE Resident!Closed(j)
    BY <2>8 DEF Resident!Closed, Resident!Go, Resident!work
  <2>9. CASE Resident!TransportEnds(j)
    BY <2>9 DEF Resident!TransportEnds, Resident!work
  <2>10. CASE Resident!Initialize(j)
    BY <2>10, ScopeWhenInitialized
  <2> QED BY <1>2, <2>1, <2>2, <2>3, <2>4, <2>5, <2>6, <2>7, <2>8, <2>9, <2>10 DEF ConnectionMoves, Resident!TaskStep
<1>3. ASSUME NEW j \in Connections, RequestActs(j)
      PROVE  ScopeInv'
  <2>1. ASSUME NEW m \in Resident!Managers, NEW l \in Resident!Lifetimes,
               Resident!Request(j, m, l)
        PROVE  ScopeInv'
    BY <2>1 DEF Resident!Request, Resident!work
  <2>2. CASE Resident!OpenScope(j)
    BY <2>2, OpensIs, ScopeWhenOpened
  <2>3. CASE Resident!OpenScopeSecond(j)
    BY <2>3, OpensIs, ScopeWhenOpened
  <2>4. CASE Resident!Admit(j)
    <3>1. PICK m \in Resident!Managers, l \in Resident!Lifetimes : AdmitWith(j, m, l)
      BY <2>4, AdmitIs
    <3> QED BY <3>1, ScopeWhenAdmitted
  <2> QED BY <1>3, <2>1, <2>2, <2>3, <2>4 DEF RequestActs
<1>4. ASSUME NEW o \in Resident!Owners, Resident!CleanerStep(o)
      PROVE  ScopeInv'
  <2>1. CASE Resident!CancelToken(o)
    BY <2>1 DEF Resident!CancelToken, Resident!Clean, Resident!work
  <2>2. CASE Resident!CleanWorkflows(o)
    BY <2>2 DEF Resident!CleanWorkflows, Resident!Tell, Resident!Clean
  <2>3. CASE Resident!CleanObservation(o)
    BY <2>3 DEF Resident!CleanObservation, Resident!Tell, Resident!Clean
  <2>4. CASE Resident!LeaveDiagnostics(o)
    BY <2>4 DEF Resident!LeaveDiagnostics, Resident!Tell, Resident!Clean
  <2>5. CASE Resident!JoinDiagnostics(o)
    BY <2>5 DEF Resident!JoinDiagnostics, Resident!Clean, Resident!work
  <2>6. CASE Resident!LeaveExecution(o)
    BY <2>6 DEF Resident!LeaveExecution, Resident!Tell, Resident!Clean
  <2> QED BY <1>4, <2>1, <2>2, <2>3, <2>4, <2>5, <2>6 DEF Resident!CleanerStep
<1>5. ASSUME NEW i \in Resident!Items, Resident!Ends(i)
      PROVE  ScopeInv'
  <2>1. PICK m \in Resident!Managers, j \in Connections, l \in Resident!Lifetimes :
           EndsWith(m, j, l)
    BY <1>5, EndsIs
  <2> QED BY <2>1, ScopeWhenEnded
<1>6. CASE HostMoves
  <2>1. CASE Resident!Stop
    BY <2>1 DEF Resident!Stop, Resident!work
  <2>2. CASE Resident!Drained
    BY <2>2 DEF Resident!Drained, Resident!work, Resident!Serving
  <2>3. CASE Resident!Joined
    BY <2>3 DEF Resident!Joined, Resident!work
  <2>4. CASE Resident!DrainTimesOut
    BY <2>4 DEF Resident!DrainTimesOut, Resident!work, Resident!Serving, Resident!Waiting
  <2>5. CASE Resident!ShutdownWorkflows
    BY <2>5 DEF Resident!ShutdownWorkflows, Resident!Tell
  <2>6. CASE Resident!ShutdownObservation
    BY <2>6 DEF Resident!ShutdownObservation, Resident!Tell
  <2>7. CASE Resident!ShutdownDiagnostics
    BY <2>7 DEF Resident!ShutdownDiagnostics, Resident!Tell
  <2>8. CASE Resident!ShutdownExecution
    BY <2>8 DEF Resident!ShutdownExecution, Resident!Tell
  <2> QED BY <1>6, <2>1, <2>2, <2>3, <2>4, <2>5, <2>6, <2>7, <2>8 DEF HostMoves, Resident!HostStep
<1> QED BY <1>1, <1>2, <1>3, <1>4, <1>5, <1>6, HostCases

\* Who is registered is served, or its workflow runs or is cleaned up.
LEMMA UserStep ==
    ASSUME HostInv, HostSteps
    PROVE  UserInv'
<1> USE OwnersAre, ItemsAre, NamesAre DEF HostInv, UserInv, LeftInv, TaskInv, ScopeInv,
  RequestInv, Opening, WorkflowOf, Standing, Early, HostTyped, HandlerTyped, PendingTyped,
  Resident!TypeOK, ClientOf, ScopeOf
<1>1. CASE UNCHANGED Resident!vars
  BY <1>1 DEF Resident!vars
<1>2. ASSUME NEW j \in Connections, ConnectionMoves(j)
      PROVE  UserInv'
  <2>1. CASE Resident!Accept(j) \/ Resident!Handshake(j) \/ Resident!RegisterFirst(j)
    BY <2>1 DEF Resident!Accept, Resident!Handshake, Resident!RegisterFirst, Resident!Go,
      Resident!work, Resident!Serving, Resident!Known, Resident!Admits
  <2>2. CASE Resident!Initialize(j) \/ Resident!Disconnect(j)
    BY <2>2 DEF Resident!Initialize, Resident!Disconnect, Resident!Go, Resident!Clean,
      Resident!work, Resident!Stopped
  <2>3. CASE Resident!Disconnected(j) \/ Resident!ServiceEnds(j) \/ Resident!Closed(j)
    BY <2>3 DEF Resident!Disconnected, Resident!ServiceEnds, Resident!Closed, Resident!Go,
      Resident!work, Resident!Clean
  <2>4. CASE Resident!TransportEnds(j)
    BY <2>4 DEF Resident!TransportEnds, Resident!work
  <2>5. CASE Resident!RegisterSecond(j)
    BY <2>5, UserWhenRegistered
  <2> QED BY <1>2, <2>1, <2>2, <2>3, <2>4, <2>5 DEF ConnectionMoves, Resident!TaskStep
<1>3. ASSUME NEW j \in Connections, RequestActs(j)
      PROVE  UserInv'
  <2>1. ASSUME NEW m \in Resident!Managers, NEW l \in Resident!Lifetimes,
               Resident!Request(j, m, l)
        PROVE  UserInv'
    BY <2>1, UserWhenRequested
  <2>2. CASE Resident!OpenScope(j)
    BY <2>2, OpensIs DEF OpensWith
  <2>3. CASE Resident!OpenScopeSecond(j)
    BY <2>3, UserWhenOpened
  <2>4. CASE Resident!Admit(j)
    <3>1. PICK m \in Resident!Managers, l \in Resident!Lifetimes : AdmitWith(j, m, l)
      BY <2>4, AdmitIs
    <3> QED BY <3>1 DEF AdmitWith, Resident!Admitted, Resident!OwnerOf
  <2> QED BY <1>3, <2>1, <2>2, <2>3, <2>4 DEF RequestActs
<1>4. ASSUME NEW o \in Resident!Owners, Resident!CleanerStep(o)
      PROVE  UserInv'
  <2>1. CASE Resident!CancelToken(o) \/ Resident!CleanWorkflows(o)
    BY <2>1 DEF Resident!CancelToken, Resident!CleanWorkflows, Resident!Clean, Resident!work,
      Resident!Tell
  <2>2. CASE Resident!CleanObservation(o) \/ Resident!LeaveDiagnostics(o)
    BY <2>2 DEF Resident!CleanObservation, Resident!LeaveDiagnostics, Resident!Tell,
      Resident!Clean
  <2>3. CASE Resident!JoinDiagnostics(o) \/ Resident!LeaveExecution(o)
    BY <2>3 DEF Resident!JoinDiagnostics, Resident!LeaveExecution, Resident!Clean,
      Resident!work, Resident!Tell
  <2> QED BY <1>4, <2>1, <2>2, <2>3 DEF Resident!CleanerStep
<1>5. ASSUME NEW i \in Resident!Items, Resident!Ends(i)
      PROVE  UserInv'
  <2>1. PICK m \in Resident!Managers, j \in Connections, l \in Resident!Lifetimes :
           EndsWith(m, j, l)
    BY <1>5, EndsIs
  <2> QED BY <2>1 DEF EndsWith
<1>6. CASE HostMoves
  <2>1. CASE Resident!Stop \/ Resident!Drained
    BY <2>1 DEF Resident!Stop, Resident!Drained, Resident!work, Resident!Serving
  <2>2. CASE Resident!Joined \/ Resident!DrainTimesOut
    BY <2>2 DEF Resident!Joined, Resident!DrainTimesOut, Resident!work, Resident!Serving,
      Resident!Waiting
  <2>3. CASE Resident!ShutdownWorkflows \/ Resident!ShutdownObservation
    BY <2>3 DEF Resident!ShutdownWorkflows, Resident!ShutdownObservation, Resident!Tell
  <2>4. CASE Resident!ShutdownDiagnostics \/ Resident!ShutdownExecution
    BY <2>4 DEF Resident!ShutdownDiagnostics, Resident!ShutdownExecution, Resident!Tell
  <2> QED BY <1>6, <2>1, <2>2, <2>3, <2>4 DEF HostMoves, Resident!HostStep
<1> QED BY <1>1, <1>2, <1>3, <1>4, <1>5, <1>6, HostCases

\* Who is half registered stays registered.
LEMMA FirstStep ==
    ASSUME HostInv, HostSteps
    PROVE  FirstInv'
<1> USE OwnersAre, ItemsAre, NamesAre DEF HostInv, FirstInv, LeftInv, TaskInv, ScopeInv,
  RequestInv, Opening, Early, HostTyped, HandlerTyped, PendingTyped, Resident!TypeOK, ClientOf,
  ScopeOf
<1>1. CASE UNCHANGED Resident!vars
  BY <1>1 DEF Resident!vars
<1>2. ASSUME NEW j \in Connections, ConnectionMoves(j)
      PROVE  FirstInv'
  <2>1. CASE Resident!Accept(j) \/ Resident!Handshake(j) \/ Resident!RegisterFirst(j)
    BY <2>1 DEF Resident!Accept, Resident!Handshake, Resident!RegisterFirst, Resident!Go,
      Resident!work, Resident!Serving, Resident!Known, Resident!Admits
  <2>2. CASE Resident!RegisterSecond(j) \/ Resident!Initialize(j) \/ Resident!Disconnect(j)
    BY <2>2 DEF Resident!RegisterSecond, Resident!Initialize, Resident!Disconnect, Resident!Go,
      Resident!Known, Resident!work, Resident!Admits, Resident!Clean, Resident!Stopped
  <2>3. CASE Resident!Disconnected(j) \/ Resident!ServiceEnds(j) \/ Resident!Closed(j)
    BY <2>3 DEF Resident!Disconnected, Resident!ServiceEnds, Resident!Closed, Resident!Go,
      Resident!work, Resident!Clean
  <2>4. CASE Resident!TransportEnds(j)
    BY <2>4 DEF Resident!TransportEnds, Resident!work
  <2> QED BY <1>2, <2>1, <2>2, <2>3, <2>4 DEF ConnectionMoves, Resident!TaskStep
<1>3. ASSUME NEW j \in Connections, RequestActs(j)
      PROVE  FirstInv'
  <2>1. ASSUME NEW m \in Resident!Managers, NEW l \in Resident!Lifetimes,
               Resident!Request(j, m, l)
        PROVE  FirstInv'
    BY <2>1 DEF Resident!Request, Resident!work
  <2>2. CASE Resident!OpenScope(j)
    BY <2>2, OpensIs DEF OpensWith
  <2>3. CASE Resident!OpenScopeSecond(j)
    BY <2>3, OpensIs DEF OpensWith
  <2>4. CASE Resident!Admit(j)
    <3>1. PICK m \in Resident!Managers, l \in Resident!Lifetimes : AdmitWith(j, m, l)
      BY <2>4, AdmitIs
    <3> QED BY <3>1 DEF AdmitWith, Resident!Admitted, Resident!OwnerOf
  <2> QED BY <1>3, <2>1, <2>2, <2>3, <2>4 DEF RequestActs
<1>4. ASSUME NEW o \in Resident!Owners, Resident!CleanerStep(o)
      PROVE  FirstInv'
  <2>1. CASE Resident!CancelToken(o) \/ Resident!CleanWorkflows(o)
    BY <2>1 DEF Resident!CancelToken, Resident!CleanWorkflows, Resident!Clean, Resident!work,
      Resident!Tell
  <2>2. CASE Resident!CleanObservation(o) \/ Resident!LeaveDiagnostics(o)
    BY <2>2 DEF Resident!CleanObservation, Resident!LeaveDiagnostics, Resident!Tell,
      Resident!Clean
  <2>3. CASE Resident!JoinDiagnostics(o) \/ Resident!LeaveExecution(o)
    BY <2>3 DEF Resident!JoinDiagnostics, Resident!LeaveExecution, Resident!Clean,
      Resident!work, Resident!Tell
  <2> QED BY <1>4, <2>1, <2>2, <2>3 DEF Resident!CleanerStep
<1>5. ASSUME NEW i \in Resident!Items, Resident!Ends(i)
      PROVE  FirstInv'
  <2>1. PICK m \in Resident!Managers, j \in Connections, l \in Resident!Lifetimes :
           EndsWith(m, j, l)
    BY <1>5, EndsIs
  <2> QED BY <2>1 DEF EndsWith
<1>6. CASE HostMoves
  <2>1. CASE Resident!Stop \/ Resident!Drained
    BY <2>1 DEF Resident!Stop, Resident!Drained, Resident!work, Resident!Serving
  <2>2. CASE Resident!Joined \/ Resident!DrainTimesOut
    BY <2>2 DEF Resident!Joined, Resident!DrainTimesOut, Resident!work, Resident!Serving,
      Resident!Waiting
  <2>3. CASE Resident!ShutdownWorkflows \/ Resident!ShutdownObservation
    BY <2>3 DEF Resident!ShutdownWorkflows, Resident!ShutdownObservation, Resident!Tell
  <2>4. CASE Resident!ShutdownDiagnostics \/ Resident!ShutdownExecution
    BY <2>4 DEF Resident!ShutdownDiagnostics, Resident!ShutdownExecution, Resident!Tell
  <2> QED BY <1>6, <2>1, <2>2, <2>3, <2>4 DEF HostMoves, Resident!HostStep
<1> QED BY <1>1, <1>2, <1>3, <1>4, <1>5, <1>6, HostCases

\* Who can start something can be canceled.
LEMMA TokenStep ==
    ASSUME HostInv, HostSteps
    PROVE  TokenInv'
<1> USE OwnersAre, ItemsAre, NamesAre DEF HostInv, TokenInv, LeftInv, TaskInv, ScopeInv,
  RequestInv, Opening, Unserved, HasItem, WorkflowOf, Standing, Early, Reachable, HostTyped,
  HandlerTyped, PendingTyped, Resident!TypeOK, ClientOf, ScopeOf
<1>1. CASE UNCHANGED Resident!vars
  BY <1>1 DEF Resident!vars
<1>2. ASSUME NEW j \in Connections, ConnectionMoves(j)
      PROVE  TokenInv'
  <2>1. CASE Resident!Accept(j)
    BY <2>1 DEF Resident!Accept, Resident!Go, Resident!work, Resident!Serving
  <2>2. CASE Resident!Handshake(j)
    BY ZenonT(60), <2>2 DEF Resident!Handshake, Resident!Go, Resident!work
  <2>3. CASE Resident!Initialize(j)
    BY ZenonT(60), <2>3 DEF Resident!Initialize, Resident!Go, Resident!Clean, Resident!work
  <2>4. CASE Resident!Disconnect(j)
    BY <2>4 DEF Resident!Disconnect, Resident!Go, Resident!Clean, Resident!work,
      Resident!Stopped
  <2>5. CASE Resident!Disconnected(j)
    BY <2>5 DEF Resident!Disconnected, Resident!Go, Resident!work
  <2>6. CASE Resident!ServiceEnds(j)
    BY <2>6 DEF Resident!ServiceEnds, Resident!Go, Resident!Clean, Resident!work
  <2>7. CASE Resident!Closed(j)
    BY <2>7 DEF Resident!Closed, Resident!Go, Resident!work
  <2>8. CASE Resident!TransportEnds(j)
    BY <2>8 DEF Resident!TransportEnds, Resident!work
  <2>9. CASE Resident!RegisterFirst(j)
    BY <2>9, TokenWhenRegistered
  <2>10. CASE Resident!RegisterSecond(j)
    BY <2>10, TokenWhenRegistered
  <2> QED BY <1>2, <2>1, <2>2, <2>3, <2>4, <2>5, <2>6, <2>7, <2>8, <2>9, <2>10 DEF ConnectionMoves, Resident!TaskStep
<1>3. ASSUME NEW j \in Connections, RequestActs(j)
      PROVE  TokenInv'
  <2>1. ASSUME NEW m \in Resident!Managers, NEW l \in Resident!Lifetimes,
               Resident!Request(j, m, l)
        PROVE  TokenInv'
    BY <2>1 DEF Resident!Request, Resident!work
  <2>2. CASE Resident!OpenScope(j)
    BY <2>2, OpensIs, TokenWhenOpened
  <2>3. CASE Resident!OpenScopeSecond(j)
    BY <2>3, OpensIs, TokenWhenOpened
  <2>4. CASE Resident!Admit(j)
    <3>1. PICK m \in Resident!Managers, l \in Resident!Lifetimes : AdmitWith(j, m, l)
      BY <2>4, AdmitIs
    <3> QED BY <3>1, TokenWhenAdmitted
  <2> QED BY <1>3, <2>1, <2>2, <2>3, <2>4 DEF RequestActs
<1>4. ASSUME NEW o \in Resident!Owners, Resident!CleanerStep(o)
      PROVE  TokenInv'
  <2>1. CASE Resident!CancelToken(o)
    BY <2>1 DEF Resident!CancelToken, Resident!Clean, Resident!work
  <2>2. CASE Resident!CleanWorkflows(o)
    BY <2>2 DEF Resident!CleanWorkflows, Resident!Tell, Resident!Clean
  <2>3. CASE Resident!CleanObservation(o)
    BY <2>3 DEF Resident!CleanObservation, Resident!Tell, Resident!Clean
  <2>4. CASE Resident!LeaveDiagnostics(o)
    BY <2>4 DEF Resident!LeaveDiagnostics, Resident!Tell, Resident!Clean
  <2>5. CASE Resident!JoinDiagnostics(o)
    BY <2>5 DEF Resident!JoinDiagnostics, Resident!Clean, Resident!work
  <2>6. CASE Resident!LeaveExecution(o)
    BY <2>6 DEF Resident!LeaveExecution, Resident!Tell, Resident!Clean
  <2> QED BY <1>4, <2>1, <2>2, <2>3, <2>4, <2>5, <2>6 DEF Resident!CleanerStep
<1>5. ASSUME NEW i \in Resident!Items, Resident!Ends(i)
      PROVE  TokenInv'
  <2>1. PICK m \in Resident!Managers, j \in Connections, l \in Resident!Lifetimes :
           EndsWith(m, j, l)
    BY <1>5, EndsIs
  <2> QED BY <2>1 DEF EndsWith
<1>6. CASE HostMoves
  <2>1. CASE Resident!Stop
    BY <2>1 DEF Resident!Stop, Resident!work
  <2>2. CASE Resident!Drained
    BY <2>2 DEF Resident!Drained, Resident!work, Resident!Serving
  <2>3. CASE Resident!Joined
    BY <2>3 DEF Resident!Joined, Resident!work
  <2>4. CASE Resident!DrainTimesOut
    BY ZenonT(60), <2>4 DEF Resident!DrainTimesOut, Resident!work, Resident!Serving, Resident!Waiting
  <2>5. CASE Resident!ShutdownWorkflows
    BY <2>5 DEF Resident!ShutdownWorkflows, Resident!Tell
  <2>6. CASE Resident!ShutdownObservation
    BY <2>6 DEF Resident!ShutdownObservation, Resident!Tell
  <2>7. CASE Resident!ShutdownDiagnostics
    BY <2>7 DEF Resident!ShutdownDiagnostics, Resident!Tell
  <2>8. CASE Resident!ShutdownExecution
    BY <2>8 DEF Resident!ShutdownExecution, Resident!Tell
  <2> QED BY <1>6, <2>1, <2>2, <2>3, <2>4, <2>5, <2>6, <2>7, <2>8 DEF HostMoves, Resident!HostStep
<1> QED BY <1>1, <1>2, <1>3, <1>4, <1>5, <1>6, HostCases

\* What was told stays told.
LEMMA ToldStep ==
    ASSUME HostInv, HostSteps
    PROVE  ToldInv'
<1> USE OwnersAre, ItemsAre, NamesAre DEF HostInv, ToldInv, TokenInv, LeftInv, ClosedInv,
  TaskInv, HasItem, Standing, Early, Reachable, HostTyped, HandlerTyped, PendingTyped,
  Resident!TypeOK, ClientOf, ScopeOf, Resident!Of, Resident!All
<1>1. CASE UNCHANGED Resident!vars
  BY <1>1 DEF Resident!vars
<1>2. ASSUME NEW j \in Connections, ConnectionMoves(j)
      PROVE  ToldInv'
  <2>1. CASE Resident!Accept(j)
    BY <2>1 DEF Resident!Accept, Resident!Go, Resident!work, Resident!Serving
  <2>2. CASE Resident!Handshake(j)
    BY <2>2 DEF Resident!Handshake, Resident!Go, Resident!work
  <2>3. CASE Resident!RegisterFirst(j)
    BY <2>3 DEF Resident!RegisterFirst, Resident!Go, Resident!Known, Resident!work,
      Resident!Admits
  <2>4. CASE Resident!RegisterSecond(j)
    BY <2>4 DEF Resident!RegisterSecond, Resident!Go, Resident!Known, Resident!work,
      Resident!Admits
  <2>5. CASE Resident!Initialize(j)
    BY ZenonT(60), <2>5 DEF Resident!Initialize, Resident!Go, Resident!Clean, Resident!work
  <2>6. CASE Resident!Disconnect(j)
    BY <2>6 DEF Resident!Disconnect, Resident!Go, Resident!Clean, Resident!work,
      Resident!Stopped
  <2>7. CASE Resident!Disconnected(j)
    BY <2>7 DEF Resident!Disconnected, Resident!Go, Resident!work
  <2>8. CASE Resident!ServiceEnds(j)
    BY <2>8 DEF Resident!ServiceEnds, Resident!Go, Resident!Clean, Resident!work
  <2>9. CASE Resident!Closed(j)
    BY <2>9 DEF Resident!Closed, Resident!Go, Resident!work
  <2>10. CASE Resident!TransportEnds(j)
    BY <2>10 DEF Resident!TransportEnds, Resident!work
  <2> QED BY <1>2, <2>1, <2>2, <2>3, <2>4, <2>5, <2>6, <2>7, <2>8, <2>9, <2>10 DEF ConnectionMoves, Resident!TaskStep
<1>3. ASSUME NEW j \in Connections, RequestActs(j)
      PROVE  ToldInv'
  <2>1. ASSUME NEW m \in Resident!Managers, NEW l \in Resident!Lifetimes,
               Resident!Request(j, m, l)
        PROVE  ToldInv'
    BY <2>1 DEF Resident!Request, Resident!work
  <2>2. CASE Resident!OpenScope(j)
    BY <2>2, OpensIs DEF OpensWith
  <2>3. CASE Resident!OpenScopeSecond(j)
    BY <2>3, OpensIs DEF OpensWith
  <2>4. CASE Resident!Admit(j)
    <3>1. PICK m \in Resident!Managers, l \in Resident!Lifetimes : AdmitWith(j, m, l)
      BY <2>4, AdmitIs
    <3> QED BY <3>1, ToldWhenAdmitted
  <2> QED BY <1>3, <2>1, <2>2, <2>3, <2>4 DEF RequestActs
<1>4. ASSUME NEW o \in Resident!Owners, Resident!CleanerStep(o)
      PROVE  ToldInv'
  <2>1. CASE Resident!CancelToken(o)
    BY <2>1 DEF Resident!CancelToken, Resident!Clean, Resident!work
  <2>2. CASE Resident!CleanWorkflows(o)
    BY <2>2 DEF Resident!CleanWorkflows, Resident!Tell, Resident!Clean
  <2>3. CASE Resident!CleanObservation(o)
    BY <2>3 DEF Resident!CleanObservation, Resident!Tell, Resident!Clean
  <2>4. CASE Resident!LeaveDiagnostics(o)
    BY <2>4 DEF Resident!LeaveDiagnostics, Resident!Tell, Resident!Clean
  <2>5. CASE Resident!JoinDiagnostics(o)
    BY <2>5 DEF Resident!JoinDiagnostics, Resident!Clean, Resident!work
  <2>6. CASE Resident!LeaveExecution(o)
    BY <2>6 DEF Resident!LeaveExecution, Resident!Tell, Resident!Clean
  <2> QED BY <1>4, <2>1, <2>2, <2>3, <2>4, <2>5, <2>6 DEF Resident!CleanerStep
<1>5. ASSUME NEW i \in Resident!Items, Resident!Ends(i)
      PROVE  ToldInv'
  <2>1. PICK m \in Resident!Managers, j \in Connections, l \in Resident!Lifetimes :
           EndsWith(m, j, l)
    BY <1>5, EndsIs
  <2> QED BY <2>1, ToldWhenEnded
<1>6. CASE HostMoves
  <2>1. CASE Resident!Stop
    BY <2>1 DEF Resident!Stop, Resident!work
  <2>2. CASE Resident!Drained
    BY <2>2 DEF Resident!Drained, Resident!work, Resident!Serving
  <2>3. CASE Resident!Joined
    BY <2>3 DEF Resident!Joined, Resident!work
  <2>4. CASE Resident!DrainTimesOut
    BY <2>4 DEF Resident!DrainTimesOut, Resident!work, Resident!Serving, Resident!Waiting
  <2>5. CASE Resident!ShutdownWorkflows
    BY <2>5 DEF Resident!ShutdownWorkflows, Resident!Tell
  <2>6. CASE Resident!ShutdownObservation
    BY <2>6 DEF Resident!ShutdownObservation, Resident!Tell
  <2>7. CASE Resident!ShutdownDiagnostics
    BY <2>7 DEF Resident!ShutdownDiagnostics, Resident!Tell
  <2>8. CASE Resident!ShutdownExecution
    BY <2>8 DEF Resident!ShutdownExecution, Resident!Tell
  <2> QED BY <1>6, <2>1, <2>2, <2>3, <2>4, <2>5, <2>6, <2>7, <2>8 DEF HostMoves, Resident!HostStep
<1> QED BY <1>1, <1>2, <1>3, <1>4, <1>5, <1>6, HostCases

\* The invariant holds in every reachable state of the host.
LEMMA HostInvariant == Resident!Spec => []HostInv
<1>1. HostInv /\ HostSteps => HostInv'
  BY HostTypedStep, ClosedStep, TaskInvStep, RequestInvStep, ScopeStep, LeftStep, UserStep,
    LimitStep, FirstStep, TokenStep, ToldStep DEF HostInv
<1> QED BY InitHost, <1>1, PTL DEF Resident!Spec, HostSteps

\* Nothing is leaked by a host, however connections come and go: while it serves,
\* each of its registrations belongs to a connection or a workflow that is there,
\* and when a connection or the host has ended, whatever it still has running was
\* told to stop or outlives it on purpose.
THEOREM NothingLeaks == Resident!Spec => []NothingIsLeaked
<1>1. ASSUME HostInv
      PROVE  Resident!NoRegistrationLeaks
  <2> SUFFICES ASSUME Early, NEW m \in {"execution", "diagnostics"}, NEW o \in registered[m]
               PROVE  Resident!InUse(o)
    BY DEF Resident!NoRegistrationLeaks, Early
  <2>1. PICK k \in Connections : o = ClientOf(k) \/ o = ScopeOf(k)
    BY <1>1, OwnersAre DEF HostInv, HostTyped, Resident!TypeOK
  <2>2. CASE o = ClientOf(k)
    BY <1>1, <2>2 DEF HostInv, UserInv, Resident!InUse, ClientOf, Resident!Client
  <2>3. CASE o = ScopeOf(k)
    BY <1>1, <2>3 DEF HostInv, UserInv, Resident!InUse, ScopeOf, Resident!Scope, WorkflowOf,
      Standing, Opening
  <2> QED BY <2>1, <2>2, <2>3
<1>2. ASSUME HostInv
      PROVE  Resident!EndedHoldsNothing
  <2> SUFFICES ASSUME NEW i \in running, ~Resident!Told(i)
               PROVE  /\ task[i[2]] # "ended" \/ i[3] = "persistent"
                      /\ host # "ended" \/ (i[1] = "observation" /\ i[3] = "persistent")
    BY DEF Resident!EndedHoldsNothing
  <2>1. PICK m \in Resident!Managers, k \in Connections, l \in Resident!Lifetimes : i = <<m, k, l>>
    BY <1>2, ItemsAre DEF HostInv, HostTyped, Resident!TypeOK
  <2>2. HasItem(k)
    BY <2>1 DEF HasItem, Standing
  <2>3. host = "ended" => registered["execution"] = {}
    BY <1>2 DEF HostInv, ClosedInv
  <2>4. m = "workflows" => Resident!OwnerOf(i) \notin canceled
    BY <2>1 DEF Resident!Told
  <2>5. ASSUME task[k] = "ended", l = "connection" PROVE FALSE
    <3>1. cleaner[ClientOf(k)] = "done" /\ ClientOf(k) \in canceled
      BY <1>2, <2>2, <2>5, OwnersAre DEF HostInv, RequestInv, Unserved, TaskInv, LeftInv
    <3>2. m # "workflows"
      BY <2>1, <2>4, <2>5, <3>1 DEF Resident!OwnerOf, ClientOf
    <3> QED
      BY <1>2, <2>1, <2>5, <3>1, <3>2 DEF HostInv, ToldInv, Resident!Managers
  <2>6. ASSUME host = "ended", ~(m = "observation" /\ l = "persistent") PROVE FALSE
    <3>1. CASE m = "workflows"
      <4>1. ClientOf(k) \in canceled
        BY <1>2, <2>2, <2>6 DEF HostInv, TokenInv, Early
      <4>2. l = "persistent" => ScopeOf(k) \in canceled
        BY <1>2, <2>1, <2>3, <2>6, <3>1 DEF HostInv, TokenInv, Reachable, WorkflowOf, Standing
      <4> QED
        BY <2>1, <2>4, <3>1, <4>1, <4>2 DEF Resident!OwnerOf, ClientOf, ScopeOf,
          Resident!Lifetimes
    <3>2. CASE m # "workflows"
      BY <1>2, <2>1, <2>6, <3>2 DEF HostInv, ToldInv, Resident!Managers, Resident!Lifetimes
    <3> QED BY <3>1, <3>2
  <2> QED BY <2>1, <2>5, <2>6 DEF Resident!Lifetimes
<1>3. HostInv => NothingIsLeaked
  BY <1>1, <1>2 DEF NothingIsLeaked, Resident!NothingIsLeaked
<1> QED BY HostInvariant, <1>3, PTL
=============================================================================
