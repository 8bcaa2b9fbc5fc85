---------------------------- MODULE Authorization ----------------------------
(***************************************************************************)
(* How a concrete tool request is judged: the workspace boundary, the risk *)
(* tags derived from the path and the tool, the ownership rules those tags *)
(* meet, and the answer a USER_GATE asks for.                              *)
(*                                                                         *)
(* A path is the sequence of its names from the file system's root; a tree *)
(* says what is at each path of a finite set, and links lead straight to   *)
(* paths without links, or to themselves.  A pattern of a risk rule is the set of the paths  *)
(* it matches, and every tool has one path argument, as in the registry of *)
(* the restricted file tools.                                              *)
(***************************************************************************)
EXTENDS Naturals, SequencesExt

CONSTANTS Root,        \* WorkspaceBoundary.root
          Registered,  \* tools in the registry
          None         \* no path, no answer

Absent == [kind |-> "absent"]
Dir == [kind |-> "dir"]
File(data) == [kind |-> "file", data |-> data]
Link(path) == [kind |-> "link", to |-> path]

Node(tree, path) == IF path \in DOMAIN tree THEN tree[path] ELSE Absent

Above(path) == IF path = <<>> THEN <<>> ELSE Front(path)

\* One component of Path.resolve.
Enter(tree, path, part) ==
    CASE part = "."  -> path
      [] part = ".." -> Above(path)
      [] OTHER       -> LET next == Append(path, part)
                        IN  IF Node(tree, next).kind = "link" THEN Node(tree, next).to ELSE next

Resolve(tree, parts) ==
    LET reached[n \in 0..Len(parts)] ==
            IF n = 0 THEN Root ELSE Enter(tree, reached[n - 1], parts[n])
    IN  reached[Len(parts)]

\* Mutant: a relative path is taken to stay inside.
NormalizeUnbounded(tree, target) ==
    IF target.absolute \/ target.parts = <<>> THEN None ELSE Resolve(tree, target.parts)

\* WorkspaceBoundary.normalize: the path in the workspace, or None for ValueError.
Normalize(tree, target) ==
    IF \/ target.absolute \/ target.parts = <<>>
       \/ ~IsPrefix(Root, Resolve(tree, target.parts))
    THEN None ELSE Resolve(tree, target.parts)

-----------------------------------------------------------------------------
\* _MODE_ORDER
Order == [auto |-> 0, pair |-> 1, user_gate |-> 2]
Modes == DOMAIN Order

\* Mutant: the later rule wins.
LaterMode(left, right) == right

\* _more_restrictive
MoreRestrictive(left, right) == IF Order[left] >= Order[right] THEN left ELSE right

\* RiskEvaluator.evaluate: the request of an execution claims no tags of its own.
EffectiveTags(policy, tool, path) ==
    {policy.risks[i].tag : i \in {i \in DOMAIN policy.risks :
        path \in policy.risks[i].paths \/ tool \in policy.risks[i].tools}}

\* OwnershipPolicy.matching_rules
Matches(rule, tags) == rule.tags \cap tags # {}

\* OwnershipPolicy.minimum_mode_for
MinimumMode(policy, tags) ==
    LET mode[n \in 0..Len(policy.rules)] ==
            IF n = 0 THEN policy.default
            ELSE IF Matches(policy.rules[n], tags)
                 THEN MoreRestrictive(mode[n - 1], policy.rules[n].mode)
                 ELSE mode[n - 1]
    IN  mode[Len(policy.rules)]

\* classify_step
Classify(policy, tool, path) ==
    MoreRestrictive(MinimumMode(policy, EffectiveTags(policy, tool, path)), policy.minimum)

\* authorize: "deny", or the mode the request needs; "auto" is ALLOW.
Authorize(policy, tree, request) ==
    LET path == Normalize(tree, request.target)
    IN  IF request.tool \notin Registered \/ path = None THEN "deny"
        ELSE Classify(policy, request.tool, path)

\* The target meets a link that leads back to itself: before Python 3.13,
\* Path.resolve raises RuntimeError for it, and authorize lets that through.
Loops(tree, request) ==
    /\ request.tool \in Registered /\ ~request.target.absolute
    /\ \E n \in 1..Len(request.target.parts) :
            Node(tree, Resolve(tree, SubSeq(request.target.parts, 1, n))).kind = "link"

-----------------------------------------------------------------------------
\* What a human may answer; a field is missing, of the wrong type, or a value.
AnswerFields == {"tool", "path", "explanation", "refuse"}

\* evaluate_gate
EvaluateGate(request, answer) ==
    IF answer.refuse = "yes" THEN "block"
    ELSE IF \/ \E field \in AnswerFields : answer[field] = None
            \/ answer.refuse # "no"
            \/ answer.tool # request.tool \/ answer.path # request.target
            \/ answer.explanation = "short"
         THEN "retry" ELSE "pass"
=============================================================================
