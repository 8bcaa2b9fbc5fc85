--------------------------- MODULE RestrictedFiles ---------------------------
(***************************************************************************)
(* RestrictedFileToolRunner behind authorize(): workers take a request     *)
(* from its authorization over its gate to the system calls of the tool,   *)
(* one step per call, while a benign editor changes files and directories  *)
(* of the same workspace, system calls fail and workers die.  Links are    *)
(* there from the start and stay: a process that plants them in between is *)
(* outside what the tools claim (README).                                  *)
(***************************************************************************)
EXTENDS Authorization

CONSTANTS Workers,
          Trees,       \* what the file system may hold at the start
          Policies,    \* what authorize() may be configured with
          Requests,    \* [tool, target, data, planned]: planned, PlanStep takes its step id
          Contents,    \* what a file may hold
          Unreadable,  \* contents over the byte limit or not UTF-8
          MaxEdits,    \* bound: edits
          MaxFaults    \* bound: failed system calls and crashes

\* A name in a path, or a risk tag.
Name == STRING

\* What can be at a path.
Nodes == [kind : {"absent", "dir"}] \cup [kind : {"file"}, data : Contents]
             \cup [kind : {"link"}, to : Seq(Name)]

\* The boundary's root has been resolved: it is no link.
ASSUME FilesAssumption ==
    /\ Registered \subseteq {"read_file", "write_file", "delete_file"}
    /\ Root \in Seq(Name)
    /\ \A t \in Trees : t \in [DOMAIN t -> Nodes] /\ Node(t, Root).kind # "link"
    /\ \A p \in Policies :
        /\ p.default \in Modes /\ p.minimum \in Modes
        /\ p.rules \in Seq([tags : SUBSET Name, mode : Modes])
    /\ \A r \in Requests :
        r.target.parts \in Seq(Name) /\ r.data \in Contents /\ r.planned \in BOOLEAN
    /\ Unreadable \subseteq Contents
    /\ {"empty", "partial"} \cap Contents = {}
    /\ MaxEdits \in Nat /\ MaxFaults \in Nat

VARIABLES tree,     \* path -> what is there
          policy,
          worker,   \* where each worker is, and its local variables
          staging,  \* worker -> its staging file: its directory and data, or None
          litter,   \* staging files nobody will remove
          edits, faults
vars == <<tree, policy, worker, staging, litter, edits, faults>>

Idle == [at |-> "idle", request |-> None, mode |-> None, answer |-> None, path |-> None,
         walked |-> Root, left |-> <<>>, replaced |-> FALSE, done |-> FALSE, result |-> None]

Init ==
    /\ tree \in Trees
    /\ policy \in Policies
    /\ worker = [w \in Workers |-> Idle]
    /\ staging = [w \in Workers |-> None]
    /\ litter = {}
    /\ edits = 0 /\ faults = 0

At(w, place) == worker[w].at = place

Go(w, frame) == worker' = [worker EXCEPT ![w] = frame]

Goto(w, place) == Go(w, [worker[w] EXCEPT !.at = place])

\* The tool call ends with its output, or with an exception.
End(w, result) == Go(w, [Idle EXCEPT !.result = result])

Kind(path) == Node(tree, path).kind

files == <<tree, staging, litter>>
bounds == <<policy, edits, faults>>

-----------------------------------------------------------------------------
(* Authorization and gates.                                                *)

\* A step id PlanStep refuses raises ValidationError, once the path is normalized.
Submit(w, request) ==
    /\ At(w, "idle")
    /\ LET mode == Authorize(policy, tree, request)
       IN  \/ mode = "deny" /\ End(w, "denied")
           \/ /\ Loops(tree, request) \/ (mode # "deny" /\ ~request.planned)
              /\ End(w, "raised")
           \/ /\ mode # "deny" /\ request.planned
              /\ Go(w, [Idle EXCEPT !.request = request, !.mode = mode,
                            !.at = IF mode = "auto" THEN "resolve" ELSE "gate"])
    /\ UNCHANGED <<files, bounds>>

\* resolve_gate; a USER_GATE can only be rejected this way.
ResolveGate(w) ==
    /\ At(w, "gate")
    /\ \/ worker[w].mode = "pair" /\ Goto(w, "resolve")
       \/ End(w, "blocked")
    /\ UNCHANGED <<files, bounds>>

Answers(request) ==
    [tool : {request.tool, "other", None}, path : {r.target : r \in Requests} \cup {None},
     explanation : {"long", "short"}, refuse : {"yes", "no", "text"}]

\* submit_gate_answer; the attempt limit is AuthorizedToolRuntime's.
AnswerGate(w, answer) ==
    LET outcome == EvaluateGate(worker[w].request, answer)
    IN  /\ At(w, "gate") /\ worker[w].mode = "user_gate"
        /\ CASE outcome = "pass"  -> Go(w, [worker[w] EXCEPT !.at = "resolve", !.answer = answer])
             [] outcome = "block" -> End(w, "blocked")
             [] OTHER             -> UNCHANGED worker
        /\ UNCHANGED <<files, bounds>>

-----------------------------------------------------------------------------
(* _resolve_for_execution and the checks of the target.                    *)

\* os.lstat: a component that is there may not be a link.
NotALink(path) == Kind(path) # "link"

ResolvePath(w) ==
    LET request == worker[w].request
        path == Normalize(tree, request.target)
    IN  /\ At(w, "resolve")
        /\ IF \/ request.tool = "write_file" /\ request.data \in Unreadable
              \/ ".." \in Range(request.target.parts)
              \/ path = None
           THEN End(w, "refused")
           ELSE Go(w, [worker[w] EXCEPT !.at = "walk", !.path = path,
                          !.left = request.target.parts])
        /\ UNCHANGED <<files, bounds>>

\* One component of the walk over the path as it was written.
Walk(w) ==
    LET part == Head(worker[w].left)
        next == Append(worker[w].walked, part)
    IN  /\ At(w, "walk") /\ worker[w].left # <<>>
        /\ CASE part = "."                   -> Go(w, [worker[w] EXCEPT !.left = Tail(@)])
             [] part # "." /\ NotALink(next) ->
                    Go(w, [worker[w] EXCEPT !.walked = next, !.left = Tail(@)])
             [] OTHER                        -> End(w, "refused")
        /\ UNCHANGED <<files, bounds>>

\* _require_directory, for write_file
CheckAbove(w) ==
    /\ At(w, "walk") /\ worker[w].left = <<>> /\ worker[w].request.tool = "write_file"
    /\ IF Kind(Above(worker[w].path)) = "dir" THEN Goto(w, "target") ELSE End(w, "refused")
    /\ UNCHANGED <<files, bounds>>

\* os.path.lexists and _require_regular_file, for write_file
CheckReplaced(w) ==
    /\ At(w, "target")
    /\ CASE Kind(worker[w].path) = "absent" -> Goto(w, "stage")
         [] Kind(worker[w].path) = "file"   ->
                Go(w, [worker[w] EXCEPT !.at = "stage", !.replaced = TRUE])
         [] OTHER                           -> End(w, "refused")
    /\ UNCHANGED <<files, bounds>>

\* _require_regular_file, for read_file and delete_file
CheckTarget(w) ==
    /\ At(w, "walk") /\ worker[w].left = <<>> /\ worker[w].request.tool # "write_file"
    /\ IF Kind(worker[w].path) = "file"
       THEN Goto(w, IF worker[w].request.tool = "read_file" THEN "read" ELSE "unlink")
       ELSE End(w, "refused")
    /\ UNCHANGED <<files, bounds>>

-----------------------------------------------------------------------------
(* The effects.                                                            *)

Fault == faults < MaxFaults /\ faults' = faults + 1

\* open and read, at most one byte more than the limit
ReadFile(w) ==
    /\ At(w, "read")
    /\ End(w, IF Kind(worker[w].path) = "file" /\ Node(tree, worker[w].path).data \notin Unreadable
              THEN "ok" ELSE "failed")
    /\ UNCHANGED <<files, bounds>>

Unlink(w) ==
    /\ At(w, "unlink")
    /\ IF Kind(worker[w].path) = "file"
       THEN tree' = [tree EXCEPT ![worker[w].path] = Absent] /\ End(w, "ok")
       ELSE End(w, "failed") /\ UNCHANGED tree
    /\ UNCHANGED <<staging, litter, bounds>>

\* tempfile.mkstemp beside the target
Stage(w) ==
    /\ At(w, "stage")
    /\ IF Kind(Above(worker[w].path)) = "dir"
       THEN /\ staging' = [staging EXCEPT ![w] = [dir |-> Above(worker[w].path), data |-> "empty"]]
            /\ Goto(w, "fill")
       ELSE End(w, "failed") /\ UNCHANGED staging
    /\ UNCHANGED <<tree, litter, bounds>>

\* Mutant: the target itself is opened and written.
FillTarget(w) ==
    /\ At(w, "fill")
    /\ tree' = [tree EXCEPT ![worker[w].path] = File("partial")]
    /\ staging' = [staging EXCEPT ![w].data = worker[w].request.data]
    /\ Goto(w, "replace")
    /\ UNCHANGED <<litter, bounds>>

\* write, flush and fsync
Fill(w) ==
    /\ At(w, "fill")
    /\ staging' = [staging EXCEPT ![w].data = worker[w].request.data]
    /\ Goto(w, "replace")
    /\ UNCHANGED <<tree, litter, bounds>>

\* os.replace: whatever is there but a directory gives way, at once.
Replace(w) ==
    /\ At(w, "replace")
    /\ IF Kind(worker[w].path) = "dir"
       THEN Goto(w, "clean") /\ UNCHANGED <<tree, staging>>
       ELSE /\ tree' = [tree EXCEPT ![worker[w].path] = File(staging[w].data)]
            /\ staging' = [staging EXCEPT ![w] = None]
            /\ Go(w, [worker[w] EXCEPT !.at = "clean", !.done = TRUE])
    /\ UNCHANGED <<litter, bounds>>

\* What the next check of w looks at, with lexists and then lstat.
Inspected(w) ==
    CASE At(w, "target")          -> worker[w].path
      [] worker[w].left # <<>>    -> Append(worker[w].walked, Head(worker[w].left))
      [] worker[w].request.tool = "write_file" -> Above(worker[w].path)
      [] OTHER                    -> worker[w].path

\* A system call of the tool raises OSError; a write may have got half way.
Fail(w) ==
    /\ Fault
    /\ \/ /\ \/ (At(w, "walk") \/ At(w, "target")) /\ Kind(Inspected(w)) # "absent"
             \/ At(w, "read") \/ At(w, "unlink") \/ At(w, "stage")
          /\ End(w, "failed")
          /\ UNCHANGED staging
       \/ /\ At(w, "fill") /\ Goto(w, "clean")
          /\ staging' = [staging EXCEPT ![w].data = "partial"]
       \/ At(w, "replace") /\ Goto(w, "clean") /\ UNCHANGED staging
    /\ UNCHANGED <<tree, litter, policy, edits>>

Written(w) == IF worker[w].done THEN "ok" ELSE "failed"

\* Mutant: a staging file that was not moved is left.
LeaveStaging(w) ==
    /\ At(w, "clean")
    /\ End(w, Written(w))
    /\ UNCHANGED <<files, bounds>>

\* finally: unlink(missing_ok=True)
Clean(w) ==
    /\ At(w, "clean")
    /\ staging' = [staging EXCEPT ![w] = None]
    /\ End(w, Written(w))
    /\ UNCHANGED <<tree, litter, bounds>>

Abandon(w) ==
    /\ litter' = IF staging[w] = None THEN litter ELSE litter \cup {staging[w]}
    /\ staging' = [staging EXCEPT ![w] = None]

\* The OSError of that unlink is swallowed.
CleanFails(w) ==
    /\ At(w, "clean") /\ Fault
    /\ Abandon(w) /\ End(w, Written(w))
    /\ UNCHANGED <<tree, policy, edits>>

Crash(w) ==
    /\ ~At(w, "idle") /\ Fault
    /\ Abandon(w) /\ Go(w, Idle)
    /\ UNCHANGED <<tree, policy, edits>>

-----------------------------------------------------------------------------
(* The editor: somebody at work in the same workspace.                     *)

Edit(path, node) ==
    /\ edits < MaxEdits /\ edits' = edits + 1
    /\ IsPrefix(Root, path)
    /\ tree' = [tree EXCEPT ![path] = node]
    /\ UNCHANGED <<policy, worker, staging, litter, faults>>

SaveFile(path, data) == Kind(path) \in {"absent", "file"} /\ Kind(Above(path)) = "dir"
                            /\ Edit(path, File(data))

RemoveFile(path) == Kind(path) = "file" /\ Edit(path, Absent)

MakeDir(path) == Kind(path) = "absent" /\ Kind(Above(path)) = "dir" /\ Edit(path, Dir)

\* rmdir: a staging file keeps its directory.
RemoveDir(path) ==
    /\ Kind(path) = "dir" /\ path # Root
    /\ \A below \in DOMAIN tree : below # path /\ Above(below) = path => Kind(below) = "absent"
    /\ \A w \in Workers : staging[w] # None => staging[w].dir # path
    /\ \A left \in litter : left.dir # path
    /\ Edit(path, Absent)

Execution(w) ==
    \/ ResolvePath(w) \/ Walk(w)     \/ CheckAbove(w) \/ CheckReplaced(w) \/ CheckTarget(w)
    \/ ReadFile(w)    \/ Unlink(w)   \/ Stage(w)       \/ Fill(w)          \/ Replace(w)
    \/ Clean(w)

Next ==
    \/ \E w \in Workers :
        \/ \E request \in Requests : Submit(w, request)
        \/ ResolveGate(w)
        \/ At(w, "gate") /\ \E answer \in Answers(worker[w].request) : AnswerGate(w, answer)
        \/ Execution(w)
        \/ Fail(w) \/ CleanFails(w) \/ Crash(w)
    \/ \E path \in DOMAIN tree :
        \/ \E data \in Contents : SaveFile(path, data)
        \/ RemoveFile(path) \/ MakeDir(path) \/ RemoveDir(path)

Spec == Init /\ [][Next]_vars
-----------------------------------------------------------------------------
Places == {"idle", "gate", "resolve", "walk", "target", "read", "unlink", "stage", "fill",
           "replace", "clean"}

TypeOK ==
    /\ \A path \in DOMAIN tree : tree[path].kind \in {"absent", "dir", "file", "link"}
    /\ \A w \in Workers :
        /\ worker[w].at \in Places
        /\ worker[w].mode \in Modes \cup {None}
        /\ worker[w].result \in {None, "ok", "failed", "refused", "blocked", "denied", "raised"}
        /\ worker[w].path = None \/ IsPrefix(Root, worker[w].path)

(* Safety.                                                                 *)

\* The names a path is written with.
Names(parts) ==
    LET named[n \in 0..Len(parts)] ==
            IF n = 0 THEN <<>>
            ELSE IF parts[n] = "." THEN named[n - 1] ELSE Append(named[n - 1], parts[n])
    IN  named[Len(parts)]

Touching == {"read", "unlink", "stage", "fill", "replace", "clean"}

\* What the policy demands of a tool at a path, rule by rule and in no order.
Demands(tool, path) ==
    {policy.default, policy.minimum}
        \cup {rule.mode : rule \in {rule \in Range(policy.rules) :
            \E risk \in Range(policy.risks) :
                /\ risk.tag \in rule.tags
                /\ path \in risk.paths \/ tool \in risk.tools}}

\* What a tool touches is the path as the model wrote it, followed through no link;
\* the strictest demand any rule makes of that path was met; and if a human had to
\* explain it, the explanation named this tool and this path.
TouchedAsJudged ==
    \A w \in Workers : worker[w].at \in Touching =>
        LET request == worker[w].request
            demands == Demands(request.tool, worker[w].path)
        IN  /\ worker[w].path = Root \o Names(request.target.parts)
            /\ worker[w].mode \in demands
            /\ \A mode \in demands : Order[mode] <= Order[worker[w].mode]
            /\ worker[w].mode = "user_gate" =>
                    worker[w].answer.path = request.target /\ worker[w].answer.tool = request.tool

\* A staging file exists while its write is under way and no longer, whichever call
\* of the write fails; each one left behind is owed to a crash or a failed cleanup.
StagingRemoved ==
    /\ \A w \in Workers :
        staging[w] # None => At(w, "fill") \/ At(w, "replace") \/ At(w, "clean")
    /\ Cardinality(litter) <= faults

(* Action properties.                                                      *)

\* Apart from the editor, a file changes only as a whole, at the target of a write or
\* a delete; and a write is reported as done exactly if it replaced its target.
ChangesAreReported ==
    [][ /\ edits' = edits =>
            \A path \in DOMAIN tree : tree'[path] # tree[path] =>
                \E w \in Workers :
                    /\ worker[w].path = path
                    /\ \/ worker[w].request.tool = "write_file" /\ worker'[w].done
                          /\ tree'[path] = File(worker[w].request.data)
                       \/ worker[w].request.tool = "delete_file" /\ worker'[w].result = "ok"
                          /\ tree'[path] = Absent
        /\ \A w \in Workers :
            At(w, "clean") /\ worker'[w].result # None => (worker'[w].result = "ok" <=> worker[w].done)
      ]_vars
=============================================================================
