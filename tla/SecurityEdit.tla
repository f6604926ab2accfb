---------------------------- MODULE SecurityEdit ----------------------------
(***************************************************************************)
(* A call that edits the access list or the owner of a directory's files   *)
(* (win32/filesystem.rs).  The tree is walked first, and what was found is *)
(* changed afterwards, one object at a time, by its path; other programs   *)
(* move, replace and link the same names meanwhile.                        *)
(*                                                                         *)
(* A path is a sequence of names below the root, and resolves to an object *)
(* by the entries of directories.  What an access list says is left out:   *)
(* an object has been changed or not.                                      *)
(***************************************************************************)
EXTENDS Naturals, Sequences, SequencesExt, FiniteSets

CONSTANTS
    Directories, Files, Links,   \* the objects
    Names,
    Entries,      \* the entry of each directory and name at first
    TheRoot,      \* the object at the root's path at first
    DepthLimit, TargetLimit,     \* max_depth, max_targets
    MaxSwaps,     \* bound on the changes of names below directories
    MaxRootSwaps, \* bound on the changes of what is at the root's path
    Nothing

Objects == Directories \cup Files \cup Links
EditAssumption ==
    /\ Entries \in [Directories -> [Names -> Objects \cup {Nothing}]]
    /\ TheRoot \in Directories /\ Nothing \notin Objects
    /\ DepthLimit \in Nat /\ TargetLimit \in Nat /\ MaxSwaps \in Nat /\ MaxRootSwaps \in Nat

VARIABLES
    root,      \* the object that is at the root's path
    entry,     \* what is under each name of each directory
    pins,      \* the objects that the call holds open: they are not moved meanwhile
    edit,      \* the call
    past       \* history: what was changed and planned, and what never moved

vars == <<root, entry, pins, edit, past>>

Scopes == {"self", "children", "recursive"}

\* The object at a path; Nothing if a link is in the way: links are never followed.
At(path) ==
    FoldLeft(LAMBDA o, n : IF o \in Directories THEN entry[o][n] ELSE Nothing, root, path)
Along(path) == {At(SubSeq(path, 1, i)) : i \in 0..Len(path)}
Ancestors(path) == {At(SubSeq(path, 1, i)) : i \in 0..(Len(path) - 1)}

\* PinnedPath: the ancestors are opened one after the other, and then the object; each
\* must be there and no link.
Reachable(path) == Ancestors(path) \subseteq Directories /\ At(path) \in Directories \cup Files

Init ==
    /\ root = TheRoot /\ entry = Entries /\ pins = {}
    /\ edit \in [pc : {"root"}, scope : Scopes, root : {Nothing}, queue : {<<>>}, visited : {0},
                 limited : {FALSE}, targets : {<<>>}, results : {<<>>}, outcome : {"none"}]
    /\ past = [changed |-> {}, astray |-> FALSE, swaps |-> 0, root_swaps |-> 0, moved |-> {},
               before |-> {}, found |-> {}]

-----------------------------------------------------------------------------
(* security_plan.                                                          *)

Refuse == edit' = [edit EXCEPT !.pc = "done", !.outcome = "refused"] /\ UNCHANGED <<pins, past>>

\* All the objects below the root: a tree of at most two levels below it is enough here.
Paths == UNION {[1..n -> Names] : n \in 0..2}
InScope(path) == CASE edit.scope = "self" -> Len(path) = 0
                   [] edit.scope = "children" -> Len(path) = 1
                   [] OTHER -> TRUE

LookAtRoot ==
    /\ edit.pc = "root"
    /\ \/ /\ root \in Directories \cup Files /\ (edit.scope = "self" \/ root \in Directories)
          /\ edit' = [edit EXCEPT !.pc = "walk", !.root = root, !.queue = <<<<>>>>]
          /\ past' = [past EXCEPT !.before =
                         {At(p) : p \in {q \in Paths : Reachable(q) /\ InScope(q)}}]
          /\ UNCHANGED pins
       \/ Refuse
    /\ UNCHANGED <<root, entry>>

Extra == IF edit.scope = "children" THEN 1 ELSE 0
Recurse(depth) == edit.scope = "recursive" \/ (edit.scope = "children" /\ depth = 0)

\* One entry of the queue: it becomes a target by its identity, and its own entries are
\* queued while it is held open.
Visit ==
    /\ edit.pc = "walk" /\ edit.queue # <<>>
    /\ edit.visited < TargetLimit + Extra
    /\ LET path == Head(edit.queue)
           rest == Tail(edit.queue)
           visited == edit.visited + 1
           found == IF At(path) \in Directories /\ Recurse(Len(path))
                    THEN {n \in Names : entry[At(path)][n] # Nothing} ELSE {}
           room == IF Len(path) >= DepthLimit THEN 0
                   ELSE IF Len(rest) + visited >= TargetLimit + Extra THEN 0
                   ELSE TargetLimit + Extra - Len(rest) - visited
       IN  \/ /\ Reachable(path)
              /\ \E queued \in SUBSET found, fails \in BOOLEAN :
                    /\ Cardinality(queued) <= room
                    /\ fails \/ queued = found \/ Cardinality(queued) = room
                    /\ edit' = [edit EXCEPT
                         !.visited = visited,
                         !.queue = rest \o SetToSeq({Append(path, n) : n \in queued}),
                         !.limited = @ \/ (~fails /\ queued # found),
                         !.results = IF fails THEN Append(@, "error") ELSE @,
                         !.targets = IF Len(path) # 0 \/ edit.scope # "children"
                                     THEN Append(@, [path |-> path, identity |-> At(path)]) ELSE @]
                    /\ past' = [past EXCEPT !.found = @ \cup {At(path)}]
           \/ /\ edit' = [edit EXCEPT !.visited = visited, !.queue = rest,
                                      !.results = Append(@, "error")]
              /\ UNCHANGED past
    /\ UNCHANGED <<root, entry, pins>>

\* The deadline ends the walk, and so does the limit.
StopWalking ==
    /\ edit.pc = "walk" /\ edit.queue # <<>>
    /\ \/ /\ edit.visited >= TargetLimit + Extra
          /\ edit' = [edit EXCEPT !.pc = "apply", !.limited = TRUE, !.queue = <<>>]
       \/ edit' = [edit EXCEPT !.pc = "apply", !.limited = TRUE, !.queue = <<>>,
                               !.results = Append(@, "error")]
    /\ UNCHANGED <<root, entry, pins, past>>

WalkEnds ==
    /\ edit.pc = "walk" /\ edit.queue = <<>>
    /\ edit' = [edit EXCEPT !.pc = "apply"]
    /\ UNCHANGED <<root, entry, pins, past>>

-----------------------------------------------------------------------------
(* apply_security, with the change of acl_modify or owner_modify.          *)

Target == Head(edit.targets)
Result(result) == edit' = [edit EXCEPT !.pc = "apply", !.targets = Tail(@),
                                      !.results = Append(@, result)]

\* The root is opened again and held, unless it is the target itself.
PinRoot ==
    /\ edit.pc = "apply" /\ edit.targets # <<>>
    /\ \/ /\ root = edit.root
          /\ pins' = IF Target.path = <<>> THEN {} ELSE {root}
          /\ edit' = [edit EXCEPT !.pc = "target"]
       \/ Result("refused") /\ pins' = {}
    /\ UNCHANGED <<root, entry, past>>

\* The target is opened by its path; it must be the object that the walk found there.
PinSame ==
    /\ edit.pc = "target"
    /\ \/ /\ Reachable(Target.path) /\ At(Target.path) = Target.identity
          /\ pins' = Along(Target.path)
          /\ edit' = [edit EXCEPT !.pc = "change"]
       \/ Result("refused") /\ pins' = {}
    /\ UNCHANGED <<root, entry, past>>

\* Seeded fault: whatever is at the path now is changed.
PinAny ==
    /\ edit.pc = "target"
    /\ \/ /\ Reachable(Target.path)
          /\ pins' = Along(Target.path)
          /\ edit' = [edit EXCEPT !.pc = "change"]
       \/ Result("refused") /\ pins' = {}
    /\ UNCHANGED <<root, entry, past>>

PinTarget == PinSame

\* The change is made by the handle, to this object alone, and may then not be observed.
Change ==
    /\ edit.pc = "change"
    /\ \/ /\ past' = [past EXCEPT !.changed = @ \cup {At(Target.path)},
                                   !.astray = @ \/ (Target.path # <<>> /\ root # edit.root)]
          /\ \E result \in {"changed", "unobserved"} : Result(result)
       \/ Result("refused") /\ UNCHANGED past
    /\ pins' = {}
    /\ UNCHANGED <<root, entry>>

Report ==
    /\ edit.pc = "apply" /\ edit.targets = <<>>
    /\ edit' = [edit EXCEPT !.pc = "done", !.outcome =
                   IF edit.limited \/ ToSet(edit.results) \ {"changed"} # {} THEN "partial"
                   ELSE "completed"]
    /\ UNCHANGED <<root, entry, pins, past>>

-----------------------------------------------------------------------------
(* Other programs.  An object that is held open, or that holds one, stays. *)

Inside(o) == IF o \in Directories THEN {entry[o][n] : n \in Names} \ {Nothing} ELSE {}
Below(o) == {o} \cup Inside(o) \cup UNION {Inside(x) : x \in Inside(o)}
Free(o) == o = Nothing \/ Below(o) \cap pins = {}

Moving(p, objects) ==
    past' = [p EXCEPT !.moved = @ \cup UNION {Below(o) : o \in objects}]

\* Two names change places; one of them may lie outside of the tree or be empty.
Swap ==
    /\ edit.pc # "done" /\ past.swaps < MaxSwaps
    /\ \E d, e \in Directories, n, m \in Names :
          LET x == entry[d][n]
              y == entry[e][m]
          IN  /\ <<d, n>> # <<e, m>> /\ x # y /\ Free(x) /\ Free(y)
              /\ d \notin Below(x) /\ e \notin Below(x) /\ d \notin Below(y) /\ e \notin Below(y)
              /\ entry' = [entry EXCEPT ![d] = [@ EXCEPT ![n] = y], ![e] = [@ EXCEPT ![m] = x]]
              /\ Moving([past EXCEPT !.swaps = @ + 1], {x, y} \ {Nothing})
    /\ UNCHANGED <<root, pins, edit>>

SwapRoot ==
    /\ edit.pc # "done" /\ past.root_swaps < MaxRootSwaps /\ Free(root)
    /\ \E o \in Directories \cup Links :
          /\ o # root /\ (\A d \in Directories, n \in Names : entry[d][n] # o)
          /\ root' = o /\ Moving([past EXCEPT !.root_swaps = @ + 1], {root, o})
    /\ UNCHANGED <<entry, pins, edit>>

Next ==
    \/ LookAtRoot \/ Visit \/ StopWalking \/ WalkEnds \/ PinRoot \/ PinTarget \/ Change \/ Report
    \/ Swap \/ SwapRoot

Spec == Init /\ [][Next]_vars

-----------------------------------------------------------------------------
(* Properties.                                                             *)

(* Whatever other programs move, replace and link while the call walks and *)
(* edits: it changes only objects that the walk had found, and one that is *)
(* below the root only while it is below the object that was the root at   *)
(* the start.  Of what is at the root's own path no more than the first is *)
(* true: the walk does not compare it with the root of the start, and      *)
(* PinRoot holds nothing for it, so that an object that is there during    *)
(* the walk and again at the change, and was away in between, is changed.  *)
EditsStayInTheTree == past.changed \subseteq past.found /\ ~past.astray

(* "completed" means that every object of the scope is changed, but those  *)
(* that others moved meanwhile: neither the limits of the walk nor an      *)
(* error of one target is lost on the way to the report.                   *)
CompletedIsComplete ==
    edit.outcome = "completed" => past.before \ past.moved \subseteq past.changed

EditIsSound == EditsStayInTheTree /\ CompletedIsComplete
=============================================================================
