----------------------- MODULE RestrictedFiles_proofs -----------------------
(***************************************************************************)
(* What the restricted file tools guarantee for every workspace, policy,   *)
(* request and number of workers.                                          *)
(***************************************************************************)
EXTENDS RestrictedFiles, SequenceTheorems, FiniteSetTheorems, WellFoundedInduction, TLAPS

-----------------------------------------------------------------------------
(* Recursion over the positions of a sequence.                             *)

\* Induction over 0..n, for a set that starts it and takes every step.
LEMMA Counting ==
    ASSUME NEW n \in Nat, NEW T, 0 \in T, \A k \in 1..n : k - 1 \in T => k \in T
    PROVE  \A k \in 0..n : k \in T
<1> DEFINE Missing == {k \in 0..n : k \notin T}
<1> SUFFICES ASSUME Missing # {} PROVE FALSE
  OBVIOUS
<1>1. Missing \subseteq Nat
  OBVIOUS
<1>2. PICK x \in Missing : \A y \in Missing : ~(<<y, x>> \in OpToRel(<, Nat))
  <2> HIDE DEF Missing
  <2> QED BY <1>1, WFMin, NatLessThanWellFounded, ZenonT(30)
<1>3. x \in 0..n /\ x \notin T /\ x # 0
  BY <1>2
<1>4. x \in 1..n /\ x - 1 \in 0..n /\ x - 1 < x /\ x \in Nat /\ x - 1 \in Nat
  BY <1>3
<1>5. x - 1 \in Missing
  BY <1>3, <1>4
<1>6. <<x - 1, x>> \in OpToRel(<, Nat)
  BY <1>4 DEF OpToRel
<1> QED BY <1>2, <1>5, <1>6

\* A function that starts with base and takes every step.
Follows(f, n, base, step) == f[0] = base /\ \A k \in 1..n : f[k] = step[<<f[k - 1], k>>]

LEMMA FollowerExists ==
    ASSUME NEW n \in Nat, NEW S, NEW base \in S, NEW step \in [S \X (1..n) -> S]
    PROVE  \E f \in [0..n -> S] : Follows(f, n, base, step)
<1> DEFINE Reach(f, m) == f \in [0..m -> S] /\ Follows(f, m, base, step)
           T == {m \in 0..n : \E f : Reach(f, m)}
<1>1. 0 \in T
  <2>1. Reach([k \in 0..0 |-> base], 0)
    BY DEF Follows
  <2> QED BY <2>1
<1>2. ASSUME NEW m \in 1..n, m - 1 \in T PROVE m \in T
  <2>1. PICK f : Reach(f, m - 1)
    BY <1>2
  <2> DEFINE g == [k \in 0..m |-> IF k = m THEN step[<<f[m - 1], m>>] ELSE f[k]]
  <2>2. step[<<f[m - 1], m>>] \in S
    BY <2>1
  <2>3. g \in [0..m -> S]
    BY <2>1, <2>2
  <2>4. g[0] = base
    BY <2>1 DEF Follows
  <2>5. ASSUME NEW k \in 1..m PROVE g[k] = step[<<g[k - 1], k>>]
    <3>1. g[k - 1] = f[k - 1]
      OBVIOUS
    <3>2. k # m => g[k] = f[k] /\ k \in 1..m - 1
      OBVIOUS
    <3>3. k = m => g[k] = step[<<f[k - 1], k>>]
      OBVIOUS
    <3> HIDE DEF g
    <3> QED BY <2>1, <3>1, <3>2, <3>3 DEF Follows
  <2> HIDE DEF g
  <2>6. Reach(g, m)
    BY <2>3, <2>4, <2>5 DEF Follows
  <2> QED BY <2>6
<1> HIDE DEF T
<1>3. n \in T
  <2>1. n \in 0..n
    OBVIOUS
  <2> QED BY <1>1, <1>2, <2>1, Counting
<1> QED BY <1>3 DEF T

-----------------------------------------------------------------------------
(* Path.resolve, one name more at a time.                                  *)

Links(t) == \A p : Node(t, p).kind = "link" => Node(t, p).to \in Seq(Name)

LEMMA AppendFacts ==
    ASSUME NEW S, NEW s \in Seq(S), NEW x \in S
    PROVE  /\ Append(s, x) \in Seq(S)
           /\ Len(s) \in Nat /\ Len(Append(s, x)) = Len(s) + 1
           /\ Append(s, x)[Len(s) + 1] = x
           /\ \A k \in 1..Len(s) : Append(s, x)[k] = s[k]
OBVIOUS

LEMMA AboveType ==
    ASSUME NEW S, NEW path \in Seq(S)
    PROVE  Above(path) \in Seq(S)
BY DEF Above, Front

LEMMA EnterType ==
    ASSUME NEW t, Links(t), NEW path \in Seq(Name), NEW part \in Name
    PROVE  Enter(t, path, part) \in Seq(Name)
<1>1. Above(path) \in Seq(Name)
  BY AboveType
<1>2. Append(path, part) \in Seq(Name)
  BY AppendFacts
<1> QED BY <1>1, <1>2 DEF Enter, Links

\* f holds the paths reached after the first n names.
Along(f, t, parts, n) == f[0] = Root /\ \A k \in 1..n : f[k] = Enter(t, f[k - 1], parts[k])

Reached(f, t, parts) ==
    f = [n \in 0..Len(parts) |-> IF n = 0 THEN Root ELSE Enter(t, f[n - 1], parts[n])]

LEMMA ResolveReached ==
    ASSUME NEW t, NEW parts
    PROVE  Resolve(t, parts) = (CHOOSE f : Reached(f, t, parts))[Len(parts)]
BY DEF Resolve, Reached

LEMMA ReachedExists ==
    ASSUME NEW t, Links(t), NEW parts \in Seq(Name)
    PROVE  \E f : Reached(f, t, parts)
<1> DEFINE n == Len(parts)
           step == [arg \in Seq(Name) \X (1..n) |-> Enter(t, arg[1], parts[arg[2]])]
<1>1. n \in Nat /\ \A k \in 1..n : parts[k] \in Name
  OBVIOUS
<1>2. ASSUME NEW path \in Seq(Name), NEW k \in 1..n
      PROVE  Enter(t, path, parts[k]) \in Seq(Name) /\ step[<<path, k>>] = Enter(t, path, parts[k])
  BY <1>1, EnterType
<1>3. step \in [Seq(Name) \X (1..n) -> Seq(Name)]
  BY <1>1, <1>2
<1> HIDE DEF step
<1>4. PICK f \in [0..n -> Seq(Name)] : Follows(f, n, Root, step)
  BY <1>1, <1>3, FollowerExists, FilesAssumption
<1>5. ASSUME NEW k \in 1..n PROVE f[k] = Enter(t, f[k - 1], parts[k])
  <2>1. f[k - 1] \in Seq(Name)
    BY <1>1, <1>4
  <2> QED BY <1>2, <1>4, <2>1 DEF Follows
<1>6. f[0] = Root
  BY <1>4 DEF Follows
<1>7. f = [k \in 0..n |-> f[k]]
  BY <1>4
<1>8. \A k \in 0..n : f[k] = IF k = 0 THEN Root ELSE Enter(t, f[k - 1], parts[k])
  BY <1>1, <1>5, <1>6
<1>9. f = [k \in 0..n |-> IF k = 0 THEN Root ELSE Enter(t, f[k - 1], parts[k])]
  BY <1>7, <1>8
<1> QED BY <1>9 DEF Reached

\* What Path.resolve returns is the last of the paths reached.
LEMMA ResolveAlong ==
    ASSUME NEW t, Links(t), NEW parts \in Seq(Name)
    PROVE  \E f : Along(f, t, parts, Len(parts)) /\ Resolve(t, parts) = f[Len(parts)]
<1> DEFINE n == Len(parts)
           f == CHOOSE f : Reached(f, t, parts)
<1>1. Reached(f, t, parts) /\ Resolve(t, parts) = f[n]
  BY ReachedExists, ResolveReached
<1> HIDE DEF f
<1>2. n \in Nat
  OBVIOUS
<1>3. f = [k \in 0..n |-> IF k = 0 THEN Root ELSE Enter(t, f[k - 1], parts[k])]
  BY <1>1 DEF Reached
<1>4. \A k \in 0..n : f[k] = IF k = 0 THEN Root ELSE Enter(t, f[k - 1], parts[k])
  BY <1>3, Zenon
<1>5. 0 \in 0..n /\ \A k \in 1..n : k \in 0..n /\ k # 0
  BY <1>2
<1>6. f[0] = Root
  BY <1>4, <1>5
<1>7. \A k \in 1..n : f[k] = Enter(t, f[k - 1], parts[k])
  BY <1>4, <1>5
<1> QED BY <1>1, <1>6, <1>7 DEF Along

\* Two such walks agree as long as the names and the links do.
LEMMA AlongAgree ==
    ASSUME NEW t, NEW u, NEW n \in Nat, NEW s, NEW r,
           \A k \in 1..n : \A path : Enter(u, path, r[k]) = Enter(t, path, s[k]),
           NEW f, Along(f, t, s, n), NEW g, Along(g, u, r, n)
    PROVE  g[n] = f[n]
<1> DEFINE T == {k \in 0..n : g[k] = f[k]}
<1>1. 0 \in T
  BY DEF Along
<1>2. ASSUME NEW k \in 1..n, k - 1 \in T PROVE k \in T
  BY <1>2 DEF Along
<1> HIDE DEF T
<1>3. n \in 0..n /\ \A k \in 0..n : k \in T
  BY <1>1, <1>2, Counting
<1> QED BY <1>3 DEF T

LEMMA ResolveNothing ==
    ASSUME NEW t, Links(t)
    PROVE  Resolve(t, <<>>) = Root
<1>1. <<>> \in Seq(Name) /\ Len(<<>>) = 0
  OBVIOUS
<1>2. \E f : Along(f, t, <<>>, Len(<<>>)) /\ Resolve(t, <<>>) = f[Len(<<>>)]
  BY <1>1, ResolveAlong, Zenon
<1> QED BY <1>1, <1>2 DEF Along

LEMMA ResolveAppend ==
    ASSUME NEW t, Links(t), NEW s \in Seq(Name), NEW part \in Name
    PROVE  Resolve(t, Append(s, part)) = Enter(t, Resolve(t, s), part)
<1> DEFINE r == Append(s, part)
           n == Len(s)
<1>1. r \in Seq(Name)
  BY AppendFacts
<1>2. n \in Nat /\ Len(r) = n + 1 /\ r[n + 1] = part /\ \A k \in 1..n : r[k] = s[k]
  BY AppendFacts
<1> HIDE DEF r
<1>3. PICK f : Along(f, t, s, n) /\ Resolve(t, s) = f[n]
  BY ResolveAlong
<1>4. PICK g : Along(g, t, r, n + 1) /\ Resolve(t, r) = g[n + 1]
  BY <1>1, <1>2, ResolveAlong
<1>5. Along(g, t, r, n)
  BY <1>2, <1>4 DEF Along
<1>6. g[n] = f[n]
  BY <1>2, <1>3, <1>5, AlongAgree
<1>7. g[n + 1] = Enter(t, g[n], part)
  <2>1. PICK k \in 1..n + 1 : k = n + 1 /\ k - 1 = n
    BY <1>2
  <2> QED BY <1>2, <1>4, <2>1 DEF Along
<1> QED BY <1>3, <1>4, <1>6, <1>7 DEF r

LEMMA ResolveType ==
    ASSUME NEW t, Links(t), NEW parts \in Seq(Name)
    PROVE  Resolve(t, parts) \in Seq(Name)
<1> DEFINE n == Len(parts)
<1>1. PICK f : Along(f, t, parts, n) /\ Resolve(t, parts) = f[n]
  BY ResolveAlong
<1>2. n \in Nat /\ \A k \in 1..n : parts[k] \in Name
  OBVIOUS
<1> DEFINE T == {k \in 0..n : f[k] \in Seq(Name)}
<1>3. 0 \in T
  <2>1. f[0] \in Seq(Name)
    BY <1>1, FilesAssumption DEF Along
  <2> QED BY <1>2, <2>1
<1>4. ASSUME NEW k \in 1..n, k - 1 \in T PROVE k \in T
  <2>1. f[k - 1] \in Seq(Name) /\ parts[k] \in Name
    BY <1>2, <1>4
  <2>2. f[k] = Enter(t, f[k - 1], parts[k])
    BY <1>1 DEF Along
  <2>3. f[k] \in Seq(Name)
    BY <2>1, <2>2, EnterType
  <2> QED BY <1>2, <2>3
<1> HIDE DEF T
<1>5. n \in 0..n /\ \A k \in 0..n : k \in T
  <2>1. n \in 0..n
    BY <1>2
  <2> QED BY <1>2, <1>3, <1>4, <2>1, Counting
<1> QED BY <1>1, <1>5 DEF T

\* Nothing but links decides where a path leads.
SameLinks(t, u) ==
    \A p : /\ Node(u, p).kind = "link" <=> Node(t, p).kind = "link"
           /\ Node(t, p).kind = "link" => Node(u, p).to = Node(t, p).to

LEMMA ResolveStable ==
    ASSUME NEW t, Links(t), NEW u, SameLinks(t, u), NEW parts \in Seq(Name)
    PROVE  Resolve(u, parts) = Resolve(t, parts)
<1> DEFINE n == Len(parts)
<1>1. \A path, part : Enter(u, path, part) = Enter(t, path, part)
  BY DEF SameLinks, Enter
<1>2. Links(u)
  BY DEF Links, SameLinks
<1>3. PICK f : Along(f, t, parts, n) /\ Resolve(t, parts) = f[n]
  BY ResolveAlong
<1>4. PICK g : Along(g, u, parts, n) /\ Resolve(u, parts) = g[n]
  BY <1>2, ResolveAlong
<1>5. n \in Nat
  OBVIOUS
<1> HIDE DEF n
<1> QED BY <1>1, <1>3, <1>4, <1>5, AlongAgree

LEMMA NormalizeStable ==
    ASSUME NEW t, Links(t), NEW u, SameLinks(t, u), NEW target, target.parts \in Seq(Name)
    PROVE  Normalize(u, target) = Normalize(t, target)
BY ResolveStable DEF Normalize

-----------------------------------------------------------------------------
(* The names a path is written with, one more at a time.                   *)

Name1(names, part) == IF part = "." THEN names ELSE Append(names, part)

Read(f, parts, n) == f[0] = <<>> /\ \A k \in 1..n : f[k] = Name1(f[k - 1], parts[k])

Named(f, parts) ==
    f = [n \in 0..Len(parts) |->
            IF n = 0 THEN <<>>
            ELSE IF parts[n] = "." THEN f[n - 1] ELSE Append(f[n - 1], parts[n])]

LEMMA NamesNamed ==
    ASSUME NEW parts
    PROVE  Names(parts) = (CHOOSE f : Named(f, parts))[Len(parts)]
BY DEF Names, Named

LEMMA NamedStep ==
    ASSUME NEW parts, NEW f
    PROVE  Named(f, parts) <=>
             f = [n \in 0..Len(parts) |-> IF n = 0 THEN <<>> ELSE Name1(f[n - 1], parts[n])]
BY DEF Named, Name1

LEMMA NamedExists ==
    ASSUME NEW parts \in Seq(Name)
    PROVE  \E f : Named(f, parts)
<1> DEFINE n == Len(parts)
           step == [arg \in Seq(Name) \X (1..n) |-> Name1(arg[1], parts[arg[2]])]
<1>1. n \in Nat /\ \A k \in 1..n : parts[k] \in Name
  OBVIOUS
<1>2. ASSUME NEW names \in Seq(Name), NEW k \in 1..n
      PROVE  Name1(names, parts[k]) \in Seq(Name) /\ step[<<names, k>>] = Name1(names, parts[k])
  BY <1>1, AppendFacts DEF Name1
<1>3. step \in [Seq(Name) \X (1..n) -> Seq(Name)]
  BY <1>1, <1>2
<1> HIDE DEF step
<1>4. PICK f \in [0..n -> Seq(Name)] : Follows(f, n, <<>>, step)
  <2>1. <<>> \in Seq(Name)
    OBVIOUS
  <2> QED BY <1>1, <1>3, <2>1, FollowerExists
<1>5. ASSUME NEW k \in 1..n PROVE f[k] = Name1(f[k - 1], parts[k])
  <2>1. f[k - 1] \in Seq(Name)
    BY <1>1, <1>4
  <2> QED BY <1>2, <1>4, <2>1 DEF Follows
<1>6. f[0] = <<>>
  BY <1>4 DEF Follows
<1>7. f = [k \in 0..n |-> f[k]]
  BY <1>4
<1>8. \A k \in 0..n : f[k] = IF k = 0 THEN <<>> ELSE Name1(f[k - 1], parts[k])
  BY <1>1, <1>5, <1>6
<1>9. f = [k \in 0..n |-> IF k = 0 THEN <<>> ELSE Name1(f[k - 1], parts[k])]
  BY <1>7, <1>8
<1> QED BY <1>9, NamedStep

LEMMA NamesRead ==
    ASSUME NEW parts \in Seq(Name)
    PROVE  \E f : Read(f, parts, Len(parts)) /\ Names(parts) = f[Len(parts)]
<1> DEFINE n == Len(parts)
           f == CHOOSE f : Named(f, parts)
<1>1. Named(f, parts) /\ Names(parts) = f[n]
  BY NamedExists, NamesNamed
<1> HIDE DEF f
<1>2. n \in Nat
  OBVIOUS
<1>3. f = [k \in 0..n |-> IF k = 0 THEN <<>> ELSE Name1(f[k - 1], parts[k])]
  BY <1>1, NamedStep
<1>4. \A k \in 0..n : f[k] = IF k = 0 THEN <<>> ELSE Name1(f[k - 1], parts[k])
  BY <1>3, Zenon
<1>5. 0 \in 0..n /\ \A k \in 1..n : k \in 0..n /\ k # 0
  BY <1>2
<1>6. f[0] = <<>>
  BY <1>4, <1>5
<1>7. \A k \in 1..n : f[k] = Name1(f[k - 1], parts[k])
  BY <1>4, <1>5
<1> QED BY <1>1, <1>6, <1>7 DEF Read

LEMMA NamesNothing == Names(<<>>) = <<>>
<1>1. <<>> \in Seq(Name) /\ Len(<<>>) = 0
  OBVIOUS
<1>2. \E f : Read(f, <<>>, Len(<<>>)) /\ Names(<<>>) = f[Len(<<>>)]
  BY <1>1, NamesRead, Zenon
<1> QED BY <1>1, <1>2 DEF Read

LEMMA NamesAppend ==
    ASSUME NEW s \in Seq(Name), NEW part \in Name
    PROVE  Names(Append(s, part)) = Name1(Names(s), part)
<1> DEFINE r == Append(s, part)
           n == Len(s)
<1>1. r \in Seq(Name)
  BY AppendFacts
<1>2. n \in Nat /\ Len(r) = n + 1 /\ r[n + 1] = part /\ \A k \in 1..n : r[k] = s[k]
  BY AppendFacts
<1> HIDE DEF r
<1>3. PICK f : Read(f, s, n) /\ Names(s) = f[n]
  BY NamesRead
<1>4. PICK g : Read(g, r, n + 1) /\ Names(r) = g[n + 1]
  BY <1>1, <1>2, NamesRead
<1> DEFINE T == {k \in 0..n : g[k] = f[k]}
<1>5. 0 \in T
  BY <1>2, <1>3, <1>4 DEF Read
<1>6. ASSUME NEW k \in 1..n, k - 1 \in T PROVE k \in T
  <2>1. k \in 1..n + 1 /\ k \in 0..n /\ g[k - 1] = f[k - 1] /\ r[k] = s[k]
    BY <1>2, <1>6
  <2>2. g[k] = f[k]
    BY <1>3, <1>4, <2>1 DEF Read
  <2> QED BY <2>1, <2>2
<1> HIDE DEF T
<1>7. n \in T
  <2>1. n \in 0..n
    BY <1>2
  <2> QED BY <1>2, <1>5, <1>6, <2>1, Counting
<1>8. g[n + 1] = Name1(g[n], part)
  <2>1. PICK k \in 1..n + 1 : k = n + 1 /\ k - 1 = n
    BY <1>2
  <2> QED BY <1>2, <1>4, <2>1 DEF Read
<1> QED BY <1>3, <1>4, <1>7, <1>8 DEF r, T

LEMMA NamesType ==
    ASSUME NEW parts \in Seq(Name)
    PROVE  Names(parts) \in Seq(Name)
<1> DEFINE n == Len(parts)
<1>1. PICK f : Read(f, parts, n) /\ Names(parts) = f[n]
  BY NamesRead
<1>2. n \in Nat /\ \A k \in 1..n : parts[k] \in Name
  OBVIOUS
<1> DEFINE T == {k \in 0..n : f[k] \in Seq(Name)}
<1>3. 0 \in T
  <2>1. f[0] \in Seq(Name)
    BY <1>1 DEF Read
  <2> QED BY <1>2, <2>1
<1>4. ASSUME NEW k \in 1..n, k - 1 \in T PROVE k \in T
  <2>1. f[k - 1] \in Seq(Name) /\ parts[k] \in Name
    BY <1>2, <1>4
  <2>2. f[k] = Name1(f[k - 1], parts[k])
    BY <1>1 DEF Read
  <2>3. f[k] \in Seq(Name)
    BY <2>1, <2>2, AppendFacts DEF Name1
  <2> QED BY <1>2, <2>3
<1> HIDE DEF T
<1>5. n \in 0..n /\ \A k \in 0..n : k \in T
  <2>1. n \in 0..n
    BY <1>2
  <2> QED BY <1>2, <1>3, <1>4, <2>1, Counting
<1> QED BY <1>1, <1>5 DEF T

-----------------------------------------------------------------------------
(* The mode a policy asks for is the strictest that one of its rules asks. *)

\* What the first n rules ask for.
Asked(p, tags, n) == {p.default} \cup {p.rules[i].mode : i \in {i \in 1..n : Matches(p.rules[i], tags)}}

Strictest(mode, modes) == mode \in modes /\ \A m \in modes : Order[m] <= Order[mode]

Mode1(mode, rule, tags) == IF Matches(rule, tags) THEN MoreRestrictive(mode, rule.mode) ELSE mode

Judging(f, p, tags) ==
    f = [n \in 0..Len(p.rules) |->
            IF n = 0 THEN p.default
            ELSE IF Matches(p.rules[n], tags)
                 THEN MoreRestrictive(f[n - 1], p.rules[n].mode)
                 ELSE f[n - 1]]

LEMMA ModeJudged ==
    ASSUME NEW p, NEW tags
    PROVE  MinimumMode(p, tags) = (CHOOSE f : Judging(f, p, tags))[Len(p.rules)]
BY DEF MinimumMode, Judging

LEMMA JudgingStep ==
    ASSUME NEW p, NEW tags, NEW f
    PROVE  Judging(f, p, tags) <=>
             f = [n \in 0..Len(p.rules) |->
                    IF n = 0 THEN p.default ELSE Mode1(f[n - 1], p.rules[n], tags)]
BY DEF Judging, Mode1

LEMMA MoreRestrictiveIs ==
    ASSUME NEW a \in Modes, NEW b \in Modes
    PROVE  /\ MoreRestrictive(a, b) \in {a, b}
           /\ Order[a] <= Order[MoreRestrictive(a, b)] /\ Order[b] <= Order[MoreRestrictive(a, b)]
BY DEF MoreRestrictive, Modes, Order

LEMMA MinimumModeIs ==
    ASSUME NEW p \in Policies, NEW tags
    PROVE  /\ MinimumMode(p, tags) \in Modes
           /\ Strictest(MinimumMode(p, tags), Asked(p, tags, Len(p.rules)))
<1> DEFINE n == Len(p.rules)
           step == [arg \in Modes \X (1..n) |-> Mode1(arg[1], p.rules[arg[2]], tags)]
<1>1. n \in Nat /\ p.default \in Modes /\ \A k \in 1..n : p.rules[k].mode \in Modes
  <2>1. p.default \in Modes /\ p.rules \in Seq([tags : SUBSET Name, mode : Modes])
    BY FilesAssumption
  <2>2. n \in Nat /\ \A k \in 1..n : p.rules[k] \in [tags : SUBSET Name, mode : Modes]
    BY <2>1, ElementOfSeq, LenProperties
  <2> QED BY <2>1, <2>2
<1>2. ASSUME NEW mode \in Modes, NEW k \in 1..n
      PROVE  /\ Mode1(mode, p.rules[k], tags) \in Modes
             /\ step[<<mode, k>>] = Mode1(mode, p.rules[k], tags)
  BY <1>1, MoreRestrictiveIs DEF Mode1
<1>3. step \in [Modes \X (1..n) -> Modes]
  BY <1>1, <1>2
<1> HIDE DEF step
<1>4. PICK g \in [0..n -> Modes] : Follows(g, n, p.default, step)
  BY <1>1, <1>3, FollowerExists
<1>5. \A k \in 1..n : g[k] = Mode1(g[k - 1], p.rules[k], tags)
  <2> TAKE k \in 1..n
  <2>1. g[k - 1] \in Modes
    BY <1>1, <1>4
  <2> QED BY <1>2, <1>4, <2>1 DEF Follows
<1>6. g[0] = p.default
  BY <1>4 DEF Follows
<1>7. g = [k \in 0..n |-> g[k]]
  BY <1>4
<1>8. \A k \in 0..n : g[k] = IF k = 0 THEN p.default ELSE Mode1(g[k - 1], p.rules[k], tags)
  BY <1>1, <1>5, <1>6
<1>9. g = [k \in 0..n |-> IF k = 0 THEN p.default ELSE Mode1(g[k - 1], p.rules[k], tags)]
  BY <1>7, <1>8
<1>10. Judging(g, p, tags)
  BY <1>9, JudgingStep
<1> DEFINE f == CHOOSE f : Judging(f, p, tags)
<1>11. Judging(f, p, tags) /\ MinimumMode(p, tags) = f[n]
  BY <1>10, ModeJudged
<1> HIDE DEF f
<1>12. f = [k \in 0..n |-> IF k = 0 THEN p.default ELSE Mode1(f[k - 1], p.rules[k], tags)]
  BY <1>11, JudgingStep
<1>13. \A k \in 0..n : f[k] = IF k = 0 THEN p.default ELSE Mode1(f[k - 1], p.rules[k], tags)
  BY <1>12, Zenon
<1> DEFINE T == {k \in 0..n : f[k] \in Modes /\ Strictest(f[k], Asked(p, tags, k))}
<1>14. 0 \in T
  <2>1. 0 \in 0..n /\ f[0] = p.default
    BY <1>1, <1>13
  <2>2. Asked(p, tags, 0) = {p.default}
    BY DEF Asked
  <2>3. Order[p.default] <= Order[p.default]
    BY <1>1 DEF Modes, Order
  <2> QED BY <1>1, <2>1, <2>2, <2>3 DEF Strictest
<1>15. ASSUME NEW k \in 1..n, k - 1 \in T PROVE k \in T
  <2> DEFINE rule == p.rules[k]
             prior == f[k - 1]
  <2>1. k \in 0..n /\ k # 0 /\ prior \in Modes /\ Strictest(prior, Asked(p, tags, k - 1))
    BY <1>1, <1>15
  <2>2. f[k] = Mode1(prior, rule, tags) /\ rule.mode \in Modes
    BY <1>1, <1>13, <2>1
  <2>3. CASE Matches(rule, tags)
    <3>1. Asked(p, tags, k) = Asked(p, tags, k - 1) \cup {rule.mode}
      <4>1. {i \in 1..k : Matches(p.rules[i], tags)}
                = {i \in 1..(k - 1) : Matches(p.rules[i], tags)} \cup {k}
        BY <2>3
      <4> QED BY <4>1 DEF Asked
    <3>2. f[k] = MoreRestrictive(prior, rule.mode)
      BY <2>2, <2>3 DEF Mode1
    <3> HIDE DEF rule, prior
    <3>3. /\ f[k] \in {prior, rule.mode} /\ f[k] \in Modes
          /\ Order[prior] <= Order[f[k]] /\ Order[rule.mode] <= Order[f[k]]
      BY <2>1, <2>2, <3>2, MoreRestrictiveIs
    <3>4. \A m \in Asked(p, tags, k - 1) : m \in Modes
      BY <1>1 DEF Asked
    <3>5. \A m \in Modes : Order[m] \in Nat
      BY DEF Modes, Order
    <3>6. \A m \in Asked(p, tags, k - 1) : Order[m] <= Order[f[k]]
      BY <2>1, <3>3, <3>4, <3>5 DEF Strictest
    <3> QED BY <2>1, <3>1, <3>3, <3>6 DEF Strictest
  <2>4. CASE ~Matches(rule, tags)
    <3>1. Asked(p, tags, k) = Asked(p, tags, k - 1)
      <4>1. {i \in 1..k : Matches(p.rules[i], tags)} = {i \in 1..(k - 1) : Matches(p.rules[i], tags)}
        BY <2>4
      <4> QED BY <4>1 DEF Asked
    <3> QED BY <2>1, <2>2, <2>4, <3>1 DEF Mode1
  <2> QED BY <2>3, <2>4
<1> HIDE DEF T
<1>16. n \in T
  <2>1. n \in 0..n
    BY <1>1
  <2> QED BY <1>1, <1>14, <1>15, <2>1, Counting
<1> QED BY <1>11, <1>16 DEF T

\* The mode of a request is the strictest that the policy demands of its path.
LEMMA ClassifyIs ==
    ASSUME policy \in Policies, NEW tool, NEW path
    PROVE  /\ Classify(policy, tool, path) \in Modes
           /\ Strictest(Classify(policy, tool, path), Demands(tool, path))
<1> DEFINE tags == EffectiveTags(policy, tool, path)
           n == Len(policy.rules)
           low == MinimumMode(policy, tags)
           mode == Classify(policy, tool, path)
<1>1. low \in Modes /\ Strictest(low, Asked(policy, tags, n))
  BY MinimumModeIs
<1>2. policy.minimum \in Modes /\ policy.default \in Modes
      /\ policy.rules \in Seq([tags : SUBSET Name, mode : Modes])
  BY FilesAssumption
<1>3. DOMAIN policy.rules = 1..n /\ \A i \in 1..n : policy.rules[i].mode \in Modes
  <2>1. \A i \in 1..n : policy.rules[i] \in [tags : SUBSET Name, mode : Modes]
    BY <1>2, ElementOfSeq
  <2> QED BY <1>2, <2>1, LenProperties
<1>4. /\ mode \in {low, policy.minimum} /\ mode \in Modes
      /\ Order[low] <= Order[mode] /\ Order[policy.minimum] <= Order[mode]
  BY <1>1, <1>2, MoreRestrictiveIs DEF Classify
<1>5. Demands(tool, path) = Asked(policy, tags, n) \cup {policy.minimum}
  <2>1. ASSUME NEW rule
        PROVE  Matches(rule, tags) <=>
                 \E risk \in Range(policy.risks) :
                     risk.tag \in rule.tags /\ (path \in risk.paths \/ tool \in risk.tools)
    BY DEF Matches, EffectiveTags, Range
  <2>2. {rule.mode : rule \in {rule \in Range(policy.rules) : Matches(rule, tags)}}
            = {policy.rules[i].mode : i \in {i \in 1..n : Matches(policy.rules[i], tags)}}
    BY <1>3 DEF Range
  <2> HIDE DEF tags, n
  <2>3. {rule \in Range(policy.rules) : Matches(rule, tags)}
            = {rule \in Range(policy.rules) : \E risk \in Range(policy.risks) :
                  risk.tag \in rule.tags /\ (path \in risk.paths \/ tool \in risk.tools)}
    BY <2>1
  <2> QED BY <2>2, <2>3 DEF Demands, Asked
<1>6. \A m \in Asked(policy, tags, n) : m \in Modes
  BY <1>2, <1>3 DEF Asked
<1>7. \A m \in Modes : Order[m] \in Nat
  BY DEF Modes, Order
<1> HIDE DEF low, mode, tags, n
<1>8. \A m \in Asked(policy, tags, n) : Order[m] <= Order[low]
  BY <1>1 DEF Strictest
<1>9. \A m \in Demands(tool, path) : Order[m] <= Order[mode]
  BY <1>1, <1>4, <1>5, <1>6, <1>7, <1>8
<1>10. mode \in Demands(tool, path)
  BY <1>1, <1>4, <1>5 DEF Strictest
<1> QED BY <1>4, <1>9, <1>10 DEF Strictest, mode

-----------------------------------------------------------------------------
(* The inductive invariant.                                                *)

Results == {None, "ok", "failed", "refused", "blocked", "denied", "raised"}

\* The local variables of a worker.
Frame ==
    [at : Places, request : {None} \cup Requests, mode : {None} \cup Modes,
     answer : {None} \cup UNION {Answers(r) : r \in Requests},
     path : {None} \cup Seq(Name), walked : Seq(Name), left : Seq(Name),
     replaced : BOOLEAN, done : BOOLEAN,
     result : Results]

\* Its request has been authorized, by the policy and for the path that still hold.
Authorized(f, t, p) ==
    /\ f.request \in Requests
    /\ f.mode = Authorize(p, t, f.request) /\ f.mode # "deny"
    /\ f.result = None

\* The gate is behind it.
Admitted(f) ==
    f.mode = "user_gate" =>
        f.answer.path = f.request.target /\ f.answer.tool = f.request.tool

\* Its path has been resolved.
Located(f, t) ==
    /\ f.path = Normalize(t, f.request.target) /\ f.path # None
    /\ ".." \notin Range(f.request.target.parts)

\* The walk has come over the first n names to where they resolve to, over no link.
WalkedOver(f, t, n) ==
    LET parts == f.request.target.parts
        first == SubSeq(parts, 1, n)
    IN  /\ f.left = SubSeq(parts, n + 1, Len(parts))
        /\ f.walked = Resolve(t, first) /\ f.walked = Root \o Names(first)
        /\ Node(t, f.walked).kind # "link"

Walking(f, t) == \E n \in 0..Len(f.request.target.parts) : WalkedOver(f, t, n)

\* The path is the one that was written, and no link.
AsWritten(f, t) ==
    f.path = Root \o Names(f.request.target.parts) /\ Node(t, f.path).kind # "link"

\* What is done is what the tool is for.
OfTool(f) ==
    /\ f.at = "read" => f.request.tool = "read_file"
    /\ f.at = "unlink" => f.request.tool = "delete_file"
    /\ f.at \in {"target", "stage", "fill", "replace", "clean"} => f.request.tool = "write_file"

FrameOK(f, t, p) ==
    /\ f \in Frame
    /\ f.at # "idle" => Authorized(f, t, p)
    /\ f.at \notin {"idle", "gate"} => Admitted(f)
    /\ f.at \notin {"idle", "gate", "resolve"} => Located(f, t)
    /\ f.at \in {"idle", "gate", "resolve"} => f.walked = Root /\ f.path = None
    /\ f.at = "walk" => Walking(f, t)
    /\ f.at \in {"target"} \cup Touching => AsWritten(f, t)
    /\ OfTool(f)

\* A worker's staging file at each place of its write.
StagedOK(f, file) ==
    /\ f.at \notin {"fill", "replace", "clean"} => file = None
    /\ f.at = "fill" => file = [dir |-> Above(f.path), data |-> "empty"]
    /\ f.at = "replace" => file = [dir |-> Above(f.path), data |-> f.request.data]

TreeOK(t) == t \in [DOMAIN t -> Nodes] /\ Node(t, Root).kind # "link"

IInv ==
    /\ TreeOK(tree) /\ policy \in Policies
    /\ worker \in [Workers -> Frame] /\ staging = [w \in Workers |-> staging[w]]
    /\ \A w \in Workers : FrameOK(worker[w], tree, policy) /\ StagedOK(worker[w], staging[w])
    /\ IsFiniteSet(litter) /\ Cardinality(litter) <= faults
    /\ edits \in Nat /\ faults \in Nat

LEMMA TreeLinks ==
    ASSUME NEW t, TreeOK(t)
    PROVE  Links(t)
<1> SUFFICES ASSUME NEW p, Node(t, p).kind = "link" PROVE Node(t, p).to \in Seq(Name)
  BY DEF Links
<1>1. p \in DOMAIN t /\ Node(t, p) = t[p]
  BY DEF Node, Absent
<1>2. t[p] \in Nodes
  BY <1>1 DEF TreeOK
<1> QED BY <1>1, <1>2 DEF Nodes

\* Putting something that is no link where no link is changes no link.
LEMMA PutKeepsLinks ==
    ASSUME NEW t, TreeOK(t), NEW path, Node(t, path).kind # "link",
           NEW node \in Nodes, node.kind # "link"
    PROVE  TreeOK([t EXCEPT ![path] = node]) /\ SameLinks(t, [t EXCEPT ![path] = node])
<1> DEFINE u == [t EXCEPT ![path] = node]
<1>1. DOMAIN u = DOMAIN t /\ \A p \in DOMAIN t : u[p] = IF p = path THEN node ELSE t[p]
  BY DEF TreeOK
<1>2. u \in [DOMAIN u -> Nodes]
  BY DEF TreeOK
<1> HIDE DEF u
<1>3. \A p : Node(u, p) = IF p = path /\ p \in DOMAIN t THEN node ELSE Node(t, p)
  BY <1>1 DEF Node
<1>4. SameLinks(t, u)
  BY <1>3 DEF SameLinks
<1>5. Node(u, Root).kind # "link"
  BY <1>4 DEF TreeOK, SameLinks
<1> QED BY <1>2, <1>4, <1>5 DEF TreeOK, u

LEMMA FrameStable ==
    ASSUME NEW f, NEW t, NEW u, NEW p, FrameOK(f, t, p), Links(t), SameLinks(t, u)
    PROVE  FrameOK(f, u, p)
<1>1. Links(u)
  BY DEF Links, SameLinks
<1>2. ASSUME f.request \in Requests
      PROVE  /\ Normalize(u, f.request.target) = Normalize(t, f.request.target)
             /\ Authorize(p, u, f.request) = Authorize(p, t, f.request)
  <2>1. f.request.target.parts \in Seq(Name)
    BY <1>2, FilesAssumption
  <2>2. Normalize(u, f.request.target) = Normalize(t, f.request.target)
    BY <2>1, NormalizeStable
  <2> QED BY <2>2 DEF Authorize
<1>3. f.at # "idle" => Authorized(f, u, p)
  BY <1>2 DEF FrameOK, Authorized
<1>4. f.at \notin {"idle", "gate", "resolve"} => Located(f, u)
  BY <1>2 DEF FrameOK, Authorized, Located
<1>5. f.at = "walk" => Walking(f, u)
  <2> DEFINE parts == f.request.target.parts
  <2> SUFFICES ASSUME f.at = "walk", NEW n \in 0..Len(parts), WalkedOver(f, t, n)
               PROVE  WalkedOver(f, u, n)
    BY DEF FrameOK, Walking
  <2>1. parts \in Seq(Name)
    BY FilesAssumption DEF FrameOK, Authorized
  <2> DEFINE first == SubSeq(parts, 1, n)
  <2>2. first \in Seq(Name)
    BY <2>1
  <2>3. Resolve(u, first) = Resolve(t, first)
    BY <2>2, ResolveStable
  <2>4. Node(u, f.walked).kind # "link"
    BY DEF WalkedOver, SameLinks
  <2> QED BY <2>3, <2>4 DEF WalkedOver
<1>6. f.at \in {"target"} \cup Touching => AsWritten(f, u)
  BY DEF FrameOK, AsWritten, SameLinks
<1> QED BY <1>3, <1>4, <1>5, <1>6 DEF FrameOK

-----------------------------------------------------------------------------
(* Frames: how each action leaves the worker it is of.                     *)

LEMMA Ended ==
    ASSUME NEW result \in Results, NEW t, NEW p
    PROVE  /\ FrameOK([Idle EXCEPT !.result = result], t, p) /\ FrameOK(Idle, t, p)
           /\ [Idle EXCEPT !.result = result].at = "idle" /\ Idle.at = "idle"
           /\ [Idle EXCEPT !.result = result].result = result
<1>1. Root \in Seq(Name) /\ <<>> \in Seq(Name)
  BY FilesAssumption
<1>2. Idle \in Frame /\ Idle.at = "idle" /\ Idle.walked = Root /\ Idle.path = None
  BY <1>1 DEF Idle, Frame, Places, Results
<1> DEFINE f == [Idle EXCEPT !.result = result]
<1>3. f \in Frame /\ f.at = "idle" /\ f.result = result /\ f.walked = Root /\ f.path = None
  BY <1>2 DEF Frame, Results, Idle
<1> HIDE DEF f
<1>4. FrameOK(f, t, p) /\ FrameOK(Idle, t, p)
  BY <1>2, <1>3 DEF FrameOK, OfTool, Touching
<1> QED BY <1>2, <1>3, <1>4 DEF f

LEMMA Moved ==
    ASSUME NEW f \in Frame, NEW place \in Places
    PROVE  LET g == [f EXCEPT !.at = place]
           IN  /\ g \in Frame /\ g.at = place
               /\ g.request = f.request /\ g.mode = f.mode /\ g.answer = f.answer
               /\ g.path = f.path /\ g.walked = f.walked /\ g.left = f.left
               /\ g.done = f.done /\ g.result = f.result
BY DEF Frame

\* A worker that goes on after its walk goes on with what it has.
LEMMA MovedOn ==
    ASSUME NEW f, NEW t, NEW p, FrameOK(f, t, p), NEW place \in Touching \cup {"target"},
           f.at \in {"walk", "target"} \cup Touching, AsWritten(f, t),
           OfTool([f EXCEPT !.at = place])
    PROVE  FrameOK([f EXCEPT !.at = place], t, p)
<1> DEFINE g == [f EXCEPT !.at = place]
<1>1. f \in Frame /\ place \in Places
  BY DEF FrameOK, Touching, Places
<1>2. /\ g \in Frame /\ g.at = place
      /\ g.request = f.request /\ g.mode = f.mode /\ g.answer = f.answer
      /\ g.path = f.path /\ g.result = f.result
  BY <1>1, Moved
<1>3. Authorized(f, t, p) /\ Admitted(f) /\ Located(f, t)
  BY DEF FrameOK, Touching
<1> HIDE DEF g
<1>4. Authorized(g, t, p) /\ Admitted(g) /\ Located(g, t) /\ AsWritten(g, t)
  BY <1>2, <1>3 DEF Authorized, Admitted, Located, AsWritten
<1>5. g.at \notin {"idle", "gate", "resolve", "walk"}
  BY <1>2 DEF Touching
<1>6. OfTool(g)
  BY DEF g
<1> QED BY <1>2, <1>4, <1>5, <1>6 DEF FrameOK, g

-----------------------------------------------------------------------------
(* The walk.                                                               *)

LEMMA OneMore ==
    ASSUME NEW parts \in Seq(Name), NEW n \in 0..Len(parts) - 1
    PROVE  /\ parts[n + 1] \in Name
           /\ SubSeq(parts, 1, n) \in Seq(Name)
           /\ SubSeq(parts, 1, n + 1) = Append(SubSeq(parts, 1, n), parts[n + 1])
           /\ Head(SubSeq(parts, n + 1, Len(parts))) = parts[n + 1]
           /\ Tail(SubSeq(parts, n + 1, Len(parts))) = SubSeq(parts, n + 1 + 1, Len(parts))
<1>1. Len(parts) \in Nat /\ n + 1 \in 1..Len(parts) /\ Len(parts) \in n + 1..Len(parts)
  BY LenProperties
<1>2. SubSeq(parts, 1, n) \in Seq(Name)
  BY <1>1
<1>3. SubSeq(parts, 1, n + 1) = SubSeq(parts, 1, n) \o <<parts[n + 1]>>
  <2>1. 1 \in 1..Len(parts) /\ n + 1 \in 1..Len(parts) /\ n + 1 - 1 = n
    BY <1>1
  <2> QED BY <2>1, SubSeqRecursiveSecond
<1>4. parts[n + 1] \in Name
  BY <1>1, ElementOfSeq
<1> QED BY <1>1, <1>2, <1>3, <1>4, AppendIsConcat, HeadTailOfSubSeq

LEMMA ConcatAppend ==
    ASSUME NEW S, NEW r \in Seq(S), NEW s \in Seq(S), NEW x \in S
    PROVE  r \o Append(s, x) = Append(r \o s, x)
<1>1. <<x>> \in Seq(S) /\ r \o s \in Seq(S)
  OBVIOUS
<1>2. Append(s, x) = s \o <<x>> /\ Append(r \o s, x) = (r \o s) \o <<x>>
  BY <1>1, AppendIsConcat
<1> QED BY <1>1, <1>2, ConcatAssociative

LEMMA WalkOn ==
    ASSUME NEW t, Links(t), NEW f, NEW n \in 0..Len(f.request.target.parts),
           f.request.target.parts \in Seq(Name), ".." \notin Range(f.request.target.parts),
           WalkedOver(f, t, n), f.left # <<>>
    PROVE  LET parts == f.request.target.parts
               part == Head(f.left)
               first == SubSeq(parts, 1, n + 1)
           IN  /\ n + 1 \in 0..Len(parts)
               /\ part \in Name /\ part # ".."
               /\ Tail(f.left) = SubSeq(parts, n + 1 + 1, Len(parts))
               /\ Resolve(t, first) = Enter(t, f.walked, part)
               /\ Root \o Names(first) = IF part = "." THEN f.walked ELSE Append(f.walked, part)
<1> DEFINE parts == f.request.target.parts
           part == Head(f.left)
           before == SubSeq(parts, 1, n)
           first == SubSeq(parts, 1, n + 1)
<1>1. Len(parts) \in Nat /\ n \in 0..Len(parts)
  BY LenProperties
<1>2. n # Len(parts)
  <2> SUFFICES ASSUME n = Len(parts) PROVE FALSE
    OBVIOUS
  <2>1. SubSeq(parts, n + 1, Len(parts)) = <<>>
    BY <1>1, SubSeqEmpty
  <2> QED BY <2>1 DEF WalkedOver
<1>3. n \in 0..Len(parts) - 1 /\ n + 1 \in 1..Len(parts) /\ n + 1 \in 0..Len(parts)
  BY <1>1, <1>2
<1>4. /\ part = parts[n + 1] /\ part \in Name /\ before \in Seq(Name)
      /\ first = Append(before, part)
      /\ Tail(f.left) = SubSeq(parts, n + 1 + 1, Len(parts))
  BY <1>3, OneMore DEF WalkedOver
<1>5. part # ".."
  BY <1>3, <1>4, LenProperties DEF Range
<1>6. f.walked = Resolve(t, before) /\ f.walked = Root \o Names(before)
  BY DEF WalkedOver
<1> HIDE DEF part, before, first
<1>7. Resolve(t, first) = Enter(t, f.walked, part)
  <2>1. Resolve(t, Append(before, part)) = Enter(t, Resolve(t, before), part)
    BY <1>4, ResolveAppend
  <2> QED BY <1>4, <1>6, <2>1
<1>8. Names(first) = IF part = "." THEN Names(before) ELSE Append(Names(before), part)
  BY <1>4, NamesAppend DEF Name1
<1>9. Root \o Append(Names(before), part) = Append(Root \o Names(before), part)
  <2>1. Root \in Seq(Name) /\ Names(before) \in Seq(Name)
    BY <1>4, FilesAssumption, NamesType
  <2> HIDE DEF parts
  <2> QED BY <1>4, <2>1, ConcatAppend
<1> QED BY <1>3, <1>4, <1>5, <1>6, <1>7, <1>8, <1>9 DEF part, first

\* A walk that is over has come to the path, as it was written.
LEMMA WalkOver ==
    ASSUME NEW f, NEW t, NEW p, FrameOK(f, t, p), f.at = "walk", f.left = <<>>
    PROVE  AsWritten(f, t)
<1> DEFINE parts == f.request.target.parts
<1>1. parts \in Seq(Name)
  BY FilesAssumption DEF FrameOK, Authorized
<1>2. PICK n \in 0..Len(parts) : WalkedOver(f, t, n)
  BY DEF FrameOK, Walking
<1>3. n = Len(parts)
  <2> SUFFICES ASSUME n # Len(parts) PROVE FALSE
    OBVIOUS
  <2>1. n + 1 \in Int /\ Len(parts) \in Int /\ n + 1 <= Len(parts)
        /\ \A i \in n + 1..Len(parts) : parts[i] \in Name
    BY <1>1, LenProperties, ElementOfSeq
  <2>2. Len(SubSeq(parts, n + 1, Len(parts))) = Len(parts) - (n + 1) + 1
    BY <2>1, SubSeqProperties
  <2>3. SubSeq(parts, n + 1, Len(parts)) = <<>> /\ Len(<<>>) = 0
    BY <1>2 DEF WalkedOver
  <2>4. Len(parts) - (n + 1) + 1 = 0
    BY <2>2, <2>3
  <2> HIDE DEF parts
  <2> QED BY <2>1, <2>4
<1>4. SubSeq(parts, 1, n) = parts
  BY <1>1, <1>3, SubSeqFull
<1>5. f.path = Resolve(t, parts)
  BY DEF FrameOK, Located, Normalize
<1> QED BY <1>2, <1>4, <1>5 DEF WalkedOver, AsWritten

-----------------------------------------------------------------------------
(* One step of one worker.                                                 *)

SameTree == TreeOK(tree') /\ SameLinks(tree, tree')

LEMMA StepInv ==
    ASSUME IInv, NEW w \in Workers, NEW f, NEW file,
           FrameOK(f, tree, policy), StagedOK(f, file),
           Go(w, f), staging' = [staging EXCEPT ![w] = file],
           policy' = policy, SameTree,
           IsFiniteSet(litter'), Cardinality(litter') <= faults', faults' \in Nat,
           edits' \in Nat
    PROVE  IInv'
<1>1. Links(tree)
  BY TreeLinks DEF IInv
<1>2. /\ worker' = [worker EXCEPT ![w] = f] /\ worker \in [Workers -> Frame]
      /\ staging = [v \in Workers |-> staging[v]] /\ f \in Frame
  BY DEF IInv, Go, FrameOK
<1>3. /\ worker' \in [Workers -> Frame] /\ worker'[w] = f
      /\ \A v \in Workers : v # w => worker'[v] = worker[v]
  BY <1>2
<1>4. /\ staging' = [v \in Workers |-> staging'[v]] /\ staging'[w] = file
      /\ \A v \in Workers : v # w => staging'[v] = staging[v]
  BY <1>2
<1>5. ASSUME NEW v \in Workers
      PROVE  FrameOK(worker'[v], tree', policy') /\ StagedOK(worker'[v], staging'[v])
  <2>1. FrameOK(worker'[v], tree, policy) /\ StagedOK(worker'[v], staging'[v])
    BY <1>3, <1>4 DEF IInv
  <2> QED BY <1>1, <2>1, FrameStable DEF SameTree
<1> QED BY <1>3, <1>4, <1>5 DEF IInv, SameTree

\* A step that changes nothing but the worker's frame.
LEMMA QuietInv ==
    ASSUME IInv, NEW w \in Workers, NEW f, FrameOK(f, tree, policy), StagedOK(f, staging[w]),
           Go(w, f), UNCHANGED <<files, bounds>>
    PROVE  IInv'
<1>1. staging' = [staging EXCEPT ![w] = staging[w]]
  BY DEF IInv, files
<1>2. SameTree
  BY DEF IInv, SameTree, SameLinks, files
<1>3. policy' = policy /\ litter' = litter /\ edits' = edits /\ faults' = faults
  BY DEF files, bounds
<1>4. /\ IsFiniteSet(litter') /\ Cardinality(litter') <= faults' /\ faults' \in Nat
      /\ edits' \in Nat
  BY <1>3 DEF IInv
<1> QED BY <1>1, <1>2, <1>3, <1>4, StepInv

\* The tool call ends with nothing staged.
LEMMA EndInv ==
    ASSUME IInv, NEW w \in Workers, NEW result \in Results, End(w, result),
           staging[w] = None, UNCHANGED <<files, bounds>>
    PROVE  IInv'
<1> DEFINE f == [Idle EXCEPT !.result = result]
<1>1. FrameOK(f, tree, policy) /\ f.at = "idle"
  BY Ended
<1>2. Go(w, f)
  BY DEF End
<1> HIDE DEF f
<1>3. StagedOK(f, staging[w])
  BY <1>1 DEF StagedOK
<1> QED BY <1>1, <1>2, <1>3, QuietInv

LEMMA Unstaged ==
    ASSUME IInv, NEW w \in Workers, worker[w].at \notin {"fill", "replace", "clean"}
    PROVE  staging[w] = None
BY DEF IInv, StagedOK

LEMMA SubmitInv ==
    ASSUME IInv, NEW w \in Workers, NEW request \in Requests, Submit(w, request)
    PROVE  IInv'
<1> DEFINE mode == Authorize(policy, tree, request)
           place == IF mode = "auto" THEN "resolve" ELSE "gate"
           f == [Idle EXCEPT !.request = request, !.mode = mode, !.at = place]
<1>1. staging[w] = None /\ UNCHANGED <<files, bounds>>
  BY Unstaged DEF Submit, At
<1>2. CASE End(w, "denied") \/ End(w, "raised")
  BY <1>1, <1>2, EndInv DEF Results
<1>3. CASE mode # "deny" /\ Go(w, f)
  <2>1. Go(w, f)
    BY <1>3
  <2>2. mode \in Modes
    <3>1. mode = Classify(policy, request.tool, Normalize(tree, request.target))
      BY <1>3 DEF Authorize
    <3> QED BY <3>1, ClassifyIs DEF IInv
  <2>3. /\ Idle \in Frame /\ Idle.result = None /\ Idle.walked = Root /\ Idle.path = None
        /\ place \in Places
    BY Ended DEF FrameOK, Idle, Results, Places
  <2>4. /\ f \in Frame /\ f.at = place /\ f.request = request /\ f.mode = mode
        /\ f.result = None /\ f.walked = Root /\ f.path = None
    BY <2>2, <2>3 DEF Frame
  <2>5. place \in {"resolve", "gate"} /\ (mode = "user_gate" => place = "gate")
    OBVIOUS
  <2>6. f.mode = Authorize(policy, tree, f.request)
    BY <2>4
  <2> HIDE DEF f, place, mode
  <2>7. FrameOK(f, tree, policy)
    BY <1>3, <2>4, <2>5, <2>6 DEF FrameOK, Authorized, Admitted, OfTool, Touching
  <2>8. StagedOK(f, staging[w])
    BY <1>1, <2>4, <2>5 DEF StagedOK
  <2> QED BY <1>1, <2>1, <2>7, <2>8, QuietInv
<1> QED BY <1>2, <1>3 DEF Submit

\* A worker passes its gate.
LEMMA PassInv ==
    ASSUME IInv, NEW w \in Workers, At(w, "gate"), NEW f \in Frame, Go(w, f),
           f.at = "resolve", f.request = worker[w].request, f.mode = worker[w].mode,
           f.result = worker[w].result, f.walked = worker[w].walked, f.path = worker[w].path, Admitted(f),
           UNCHANGED <<files, bounds>>
    PROVE  IInv'
<1>1. staging[w] = None
  BY Unstaged DEF At
<1>2. /\ Authorized(worker[w], tree, policy)
      /\ worker[w].walked = Root /\ worker[w].path = None
  BY DEF IInv, FrameOK, At
<1>3. FrameOK(f, tree, policy)
  BY <1>2 DEF FrameOK, Authorized, OfTool, Touching
<1>4. StagedOK(f, staging[w])
  BY <1>1 DEF StagedOK
<1> QED BY <1>3, <1>4, QuietInv

LEMMA ResolveGateInv ==
    ASSUME IInv, NEW w \in Workers, ResolveGate(w)
    PROVE  IInv'
<1> DEFINE f == [worker[w] EXCEPT !.at = "resolve"]
<1>1. At(w, "gate") /\ UNCHANGED <<files, bounds>>
  BY DEF ResolveGate
<1>2. CASE End(w, "blocked")
  BY <1>1, <1>2, Unstaged, EndInv DEF Results, At
<1>3. CASE worker[w].mode = "pair" /\ Goto(w, "resolve")
  <2>1. worker[w] \in Frame
    BY DEF IInv
  <2>2. /\ f \in Frame /\ f.at = "resolve" /\ f.request = worker[w].request
        /\ f.mode = worker[w].mode /\ f.result = worker[w].result
        /\ f.walked = worker[w].walked /\ f.path = worker[w].path
    BY <2>1, Moved DEF Places
  <2>3. Go(w, f)
    BY <1>3 DEF Goto
  <2> HIDE DEF f
  <2>4. Admitted(f)
    BY <1>3, <2>2 DEF Admitted
  <2> QED BY <1>1, <2>2, <2>3, <2>4, PassInv
<1> QED BY <1>2, <1>3 DEF ResolveGate

LEMMA AnswerGateInv ==
    ASSUME IInv, NEW w \in Workers, At(w, "gate"),
           NEW answer \in Answers(worker[w].request), AnswerGate(w, answer)
    PROVE  IInv'
<1> DEFINE f == [worker[w] EXCEPT !.at = "resolve", !.answer = answer]
           outcome == EvaluateGate(worker[w].request, answer)
<1>1. At(w, "gate") /\ UNCHANGED <<files, bounds>>
  BY DEF AnswerGate
<1>2. worker[w] \in Frame /\ worker[w].request \in Requests
  BY <1>1 DEF IInv, FrameOK, Authorized, At
<1>3. CASE outcome = "pass"
  <2>1. Go(w, f)
    BY <1>3 DEF AnswerGate
  <2>2. /\ f \in Frame /\ f.at = "resolve" /\ f.request = worker[w].request
        /\ f.mode = worker[w].mode /\ f.result = worker[w].result /\ f.answer = answer
        /\ f.walked = worker[w].walked /\ f.path = worker[w].path
    BY <1>2 DEF Frame, Places
  <2>3. answer.tool = worker[w].request.tool /\ answer.path = worker[w].request.target
    BY <1>3 DEF EvaluateGate
  <2> HIDE DEF f
  <2>4. Admitted(f)
    BY <2>2, <2>3 DEF Admitted
  <2> QED BY <1>1, <2>1, <2>2, <2>4, PassInv
<1>4. CASE outcome = "block"
  <2>1. End(w, "blocked")
    BY <1>4 DEF AnswerGate
  <2> QED BY <1>1, <2>1, Unstaged, EndInv DEF Results, At
<1>5. CASE outcome \notin {"pass", "block"}
  <2>1. worker' = worker
    BY <1>5 DEF AnswerGate
  <2>2. Go(w, worker[w])
    BY <2>1 DEF IInv, Go
  <2> QED BY <1>1, <2>2, QuietInv DEF IInv
<1> QED BY <1>3, <1>4, <1>5

LEMMA ResolvePathInv ==
    ASSUME IInv, NEW w \in Workers, ResolvePath(w)
    PROVE  IInv'
<1> DEFINE request == worker[w].request
           parts == request.target.parts
           path == Normalize(tree, request.target)
           f == [worker[w] EXCEPT !.at = "walk", !.path = path, !.left = parts]
<1>1. /\ At(w, "resolve") /\ UNCHANGED <<files, bounds>>
      /\ End(w, "refused") \/ (".." \notin Range(parts) /\ path # None /\ Go(w, f))
  BY DEF ResolvePath
<1>2. CASE End(w, "refused")
  BY <1>1, <1>2, Unstaged, EndInv DEF Results, At
<1>3. CASE ".." \notin Range(parts) /\ path # None /\ Go(w, f)
  <2>1. /\ FrameOK(worker[w], tree, policy) /\ worker[w] \in Frame /\ Links(tree)
        /\ worker[w].at = "resolve"
    BY <1>1, TreeLinks DEF IInv, At
  <2>2. Authorized(worker[w], tree, policy) /\ Admitted(worker[w])
    BY <2>1 DEF FrameOK
  <2>3. parts \in Seq(Name)
    BY <2>2, FilesAssumption DEF Authorized
  <2>4. path \in Seq(Name) /\ path = Normalize(tree, request.target)
    BY <1>3, <2>1, <2>3, ResolveType DEF Normalize
  <2>5. /\ f \in Frame /\ f.at = "walk" /\ f.request = request /\ f.path = path
        /\ f.left = parts /\ f.mode = worker[w].mode /\ f.answer = worker[w].answer
        /\ f.walked = worker[w].walked /\ f.result = worker[w].result
    BY <2>1, <2>3, <2>4 DEF Frame, Places
  <2>6. f.walked = Root
    BY <2>1, <2>5 DEF FrameOK
  <2> HIDE DEF f
  <2>7. WalkedOver(f, tree, 0)
    <3>1. SubSeq(parts, 1, 0) = <<>> /\ SubSeq(parts, 1, Len(parts)) = parts
      BY <2>3, SubSeqEmpty, SubSeqFull
    <3>2. Root \o <<>> = Root
      BY ConcatEmptySeq, FilesAssumption
    <3>3. Node(tree, Root).kind # "link"
      BY DEF IInv, TreeOK
    <3>4. Resolve(tree, <<>>) = Root /\ Names(<<>>) = <<>>
      BY <2>1, ResolveNothing, NamesNothing
    <3>5. f.left = SubSeq(parts, 0 + 1, Len(parts))
      BY <2>5, <3>1
    <3> HIDE DEF parts, request
    <3>6. f.request.target.parts = parts
      BY <2>5 DEF parts, request
    <3> QED BY <2>6, <3>1, <3>2, <3>3, <3>4, <3>5, <3>6 DEF WalkedOver
  <2>8. Walking(f, tree)
    <3>1. 0 \in 0..Len(parts)
      BY <2>3, LenProperties
    <3> QED BY <2>5, <2>7, <3>1 DEF Walking
  <2>9. Authorized(f, tree, policy) /\ Admitted(f) /\ Located(f, tree)
    BY <1>3, <2>2, <2>4, <2>5 DEF Authorized, Admitted, Located
  <2>10. FrameOK(f, tree, policy)
    BY <2>5, <2>6, <2>8, <2>9 DEF FrameOK, OfTool, Touching
  <2>11. StagedOK(f, staging[w])
    BY <1>1, <2>5, Unstaged DEF StagedOK, At
  <2> QED BY <1>1, <1>3, <2>10, <2>11, QuietInv
<1> QED BY <1>1, <1>2, <1>3

LEMMA WalkInv ==
    ASSUME IInv, NEW w \in Workers, Walk(w)
    PROVE  IInv'
<1> DEFINE old == worker[w]
           parts == old.request.target.parts
           part == Head(old.left)
           next == Append(old.walked, part)
<1>1. /\ old.at = "walk" /\ old.left # <<>> /\ UNCHANGED <<files, bounds>>
      /\ FrameOK(old, tree, policy) /\ old \in Frame /\ Links(tree)
  BY TreeLinks DEF Walk, At, IInv
<1>2. staging[w] = None
  BY <1>1, Unstaged
<1>3. Authorized(old, tree, policy) /\ Admitted(old) /\ Located(old, tree) /\ Walking(old, tree)
  BY <1>1 DEF FrameOK
<1>4. parts \in Seq(Name)
  BY <1>3, FilesAssumption DEF Authorized
<1>5. PICK n \in 0..Len(parts) : WalkedOver(old, tree, n)
  BY <1>3 DEF Walking
<1> DEFINE first == SubSeq(parts, 1, n + 1)
<1>6. /\ n + 1 \in 0..Len(parts) /\ part \in Name /\ part # ".."
      /\ Tail(old.left) = SubSeq(parts, n + 1 + 1, Len(parts))
      /\ Resolve(tree, first) = Enter(tree, old.walked, part)
      /\ Root \o Names(first) = IF part = "." THEN old.walked ELSE Append(old.walked, part)
  BY <1>1, <1>3, <1>4, <1>5, WalkOn DEF Located
<1>7. ASSUME NEW f \in Frame, Go(w, f), f.at = "walk", f.request = old.request, f.mode = old.mode,
             f.answer = old.answer, f.path = old.path, f.result = old.result,
             WalkedOver(f, tree, n + 1)
      PROVE  IInv'
  <2>1. Authorized(f, tree, policy) /\ Admitted(f) /\ Located(f, tree)
    BY <1>3, <1>7 DEF Authorized, Admitted, Located
  <2>2. Walking(f, tree)
    BY <1>6, <1>7 DEF Walking
  <2>3. FrameOK(f, tree, policy)
    BY <1>7, <2>1, <2>2 DEF FrameOK, OfTool, Touching
  <2>4. StagedOK(f, staging[w])
    BY <1>2, <1>7 DEF StagedOK
  <2> QED BY <1>1, <1>7, <2>3, <2>4, QuietInv
<1>8. old.walked \in Seq(Name) /\ old.left \in Seq(Name)
  BY <1>1 DEF Frame
<1>9. Tail(old.left) \in Seq(Name)
  BY <1>1, <1>8, HeadTailProperties
<1>10. CASE part = "."
  <2> DEFINE f == [old EXCEPT !.left = Tail(old.left)]
  <2>1. Go(w, f)
    BY <1>10 DEF Walk
  <2>2. /\ f \in Frame /\ f.at = old.at /\ f.request = old.request /\ f.mode = old.mode
        /\ f.answer = old.answer /\ f.path = old.path /\ f.result = old.result
        /\ f.walked = old.walked /\ f.left = Tail(old.left)
    BY <1>1, <1>9 DEF Frame
  <2> HIDE DEF f
  <2>3. Enter(tree, old.walked, part) = old.walked
    BY <1>10 DEF Enter
  <2>4. WalkedOver(f, tree, n + 1)
    BY <1>5, <1>6, <1>10, <2>2, <2>3 DEF WalkedOver
  <2> QED BY <1>1, <1>7, <2>1, <2>2, <2>4
<1>11. CASE part # "." /\ NotALink(next)
  <2> DEFINE f == [old EXCEPT !.walked = next, !.left = Tail(old.left)]
  <2>1. Go(w, f)
    BY <1>11 DEF Walk
  <2>2. next \in Seq(Name)
    BY <1>6, <1>8, AppendFacts
  <2>3. /\ f \in Frame /\ f.at = old.at /\ f.request = old.request /\ f.mode = old.mode
        /\ f.answer = old.answer /\ f.path = old.path /\ f.result = old.result
        /\ f.walked = next /\ f.left = Tail(old.left)
    BY <1>1, <1>9, <2>2 DEF Frame
  <2> HIDE DEF f
  <2>4. Node(tree, next).kind # "link"
    BY <1>11 DEF NotALink, Kind
  <2>5. Enter(tree, old.walked, part) = next
    BY <1>6, <1>11, <2>4 DEF Enter
  <2>6. WalkedOver(f, tree, n + 1)
    BY <1>6, <1>11, <2>3, <2>4, <2>5 DEF WalkedOver
  <2> QED BY <1>1, <1>7, <2>1, <2>3, <2>6
<1>12. CASE part # "." /\ ~NotALink(next)
  <2>1. End(w, "refused")
    BY <1>12 DEF Walk
  <2> QED BY <1>1, <1>2, <2>1, EndInv DEF Results
<1> QED BY <1>10, <1>11, <1>12

\* A worker goes on, and nothing else changes.
LEMMA GotoInv ==
    ASSUME IInv, NEW w \in Workers, NEW place \in Touching \cup {"target"}, Goto(w, place),
           worker[w].at \in {"walk", "target"}, AsWritten(worker[w], tree),
           place \notin {"fill", "replace", "clean"},
           place = "read" => worker[w].request.tool = "read_file",
           place = "unlink" => worker[w].request.tool = "delete_file",
           place \in {"target", "stage"} => worker[w].request.tool = "write_file",
           UNCHANGED <<files, bounds>>
    PROVE  IInv'
<1> DEFINE f == [worker[w] EXCEPT !.at = place]
<1>1. FrameOK(worker[w], tree, policy) /\ worker[w] \in Frame /\ place \in Places
  BY DEF IInv, Touching, Places
<1>2. f.at = place /\ f.request = worker[w].request
  BY <1>1, Moved
<1>3. OfTool(f)
  BY <1>2 DEF OfTool
<1>4. FrameOK(f, tree, policy)
  BY <1>1, <1>3, MovedOn
<1>5. Go(w, f) /\ staging[w] = None
  BY Unstaged DEF Goto
<1> HIDE DEF f
<1>6. StagedOK(f, staging[w])
  BY <1>2, <1>5 DEF StagedOK
<1> QED BY <1>4, <1>5, <1>6, QuietInv

LEMMA CheckAboveInv ==
    ASSUME IInv, NEW w \in Workers, CheckAbove(w)
    PROVE  IInv'
<1>1. /\ worker[w].at = "walk" /\ worker[w].left = <<>> /\ UNCHANGED <<files, bounds>>
      /\ worker[w].request.tool = "write_file" /\ (Goto(w, "target") \/ End(w, "refused"))
      /\ FrameOK(worker[w], tree, policy)
  BY DEF CheckAbove, At, IInv
<1>2. AsWritten(worker[w], tree) /\ staging[w] = None
  BY <1>1, WalkOver, Unstaged
<1> QED BY <1>1, <1>2, GotoInv, EndInv DEF Results

LEMMA CheckTargetInv ==
    ASSUME IInv, NEW w \in Workers, CheckTarget(w)
    PROVE  IInv'
<1> DEFINE f == worker[w]
<1>1. /\ f.at = "walk" /\ f.left = <<>> /\ f.request.tool # "write_file"
      /\ UNCHANGED <<files, bounds>> /\ FrameOK(f, tree, policy)
  BY DEF CheckTarget, At, IInv
<1>2. AsWritten(f, tree) /\ staging[w] = None
  BY <1>1, WalkOver, Unstaged
<1>3. f.request.tool \in {"read_file", "delete_file"}
  BY <1>1, FilesAssumption DEF FrameOK, Authorized, Authorize
<1>4. CASE End(w, "refused")
  BY <1>1, <1>2, <1>4, EndInv DEF Results
<1>5. CASE f.request.tool = "read_file" /\ Goto(w, "read")
  BY <1>1, <1>2, <1>5, GotoInv DEF Touching
<1>6. CASE f.request.tool = "delete_file" /\ Goto(w, "unlink")
  BY <1>1, <1>2, <1>6, GotoInv DEF Touching
<1> QED BY <1>3, <1>4, <1>5, <1>6 DEF CheckTarget

LEMMA CheckReplacedInv ==
    ASSUME IInv, NEW w \in Workers, CheckReplaced(w)
    PROVE  IInv'
<1> DEFINE f == [worker[w] EXCEPT !.at = "stage", !.replaced = TRUE]
<1>1. /\ worker[w].at = "target" /\ UNCHANGED <<files, bounds>>
      /\ Goto(w, "stage") \/ Go(w, f) \/ End(w, "refused")
      /\ FrameOK(worker[w], tree, policy) /\ worker[w] \in Frame
  BY DEF CheckReplaced, At, IInv
<1>2. AsWritten(worker[w], tree) /\ staging[w] = None /\ worker[w].request.tool = "write_file"
  BY <1>1, Unstaged DEF FrameOK, OfTool
<1>3. CASE End(w, "refused")
  BY <1>1, <1>2, <1>3, EndInv DEF Results
<1>4. CASE Goto(w, "stage")
  BY <1>1, <1>2, <1>4, GotoInv DEF Touching
<1>5. CASE Go(w, f)
  <2>1. /\ f \in Frame /\ f.at = "stage" /\ f.request = worker[w].request
        /\ f.mode = worker[w].mode /\ f.answer = worker[w].answer
        /\ f.path = worker[w].path /\ f.result = worker[w].result
    BY <1>1 DEF Frame, Places
  <2>2. /\ Authorized(worker[w], tree, policy) /\ Admitted(worker[w])
        /\ Located(worker[w], tree)
    BY <1>1 DEF FrameOK
  <2> HIDE DEF f
  <2>3. /\ Authorized(f, tree, policy) /\ Admitted(f) /\ Located(f, tree)
        /\ AsWritten(f, tree) /\ OfTool(f)
    BY <1>2, <2>1, <2>2 DEF Authorized, Admitted, Located, AsWritten, OfTool
  <2>4. FrameOK(f, tree, policy)
    BY <2>1, <2>3 DEF FrameOK
  <2>5. StagedOK(f, staging[w])
    BY <1>2, <2>1 DEF StagedOK
  <2> QED BY <1>1, <1>5, <2>4, <2>5, QuietInv
<1> QED BY <1>1, <1>3, <1>4, <1>5

LEMMA Bounded ==
    ASSUME IInv
    PROVE  /\ IsFiniteSet(litter) /\ Cardinality(litter) <= faults /\ faults \in Nat /\ edits \in Nat
           /\ Cardinality(litter) \in Nat
BY FS_CardinalityType DEF IInv

\* Each staging file that is left behind is owed to a fault.
LEMMA AbandonBounded ==
    ASSUME IInv, NEW w \in Workers, Abandon(w), faults' = faults + 1
    PROVE  IsFiniteSet(litter') /\ Cardinality(litter') <= faults' /\ faults' \in Nat
<1>1. CASE litter' = litter
  BY <1>1, Bounded
<1>2. CASE litter' = litter \cup {staging[w]}
  <2>1. IsFiniteSet(litter') /\ Cardinality(litter') \in {Cardinality(litter), Cardinality(litter) + 1}
    BY <1>2, Bounded, FS_AddElement
  <2> QED BY <2>1, Bounded
<1> QED BY <1>1, <1>2 DEF Abandon

LEMMA SameTreeKept ==
    ASSUME IInv, tree' = tree
    PROVE  SameTree
BY DEF IInv, SameTree, SameLinks

LEMMA ReadFileInv ==
    ASSUME IInv, NEW w \in Workers, ReadFile(w)
    PROVE  IInv'
<1>1. PICK result \in {"ok", "failed"} : End(w, result)
  BY DEF ReadFile
<1>2. worker[w].at = "read" /\ UNCHANGED <<files, bounds>>
  BY DEF ReadFile, At
<1> QED BY <1>1, <1>2, Unstaged, EndInv DEF Results

\* What a worker that touches its path puts there changes no link.
LEMMA PutSame ==
    ASSUME IInv, NEW w \in Workers, worker[w].at \in Touching, NEW node \in Nodes,
           node.kind # "link", tree' = [tree EXCEPT ![worker[w].path] = node]
    PROVE  SameTree
<1>1. FrameOK(worker[w], tree, policy) /\ TreeOK(tree)
  BY DEF IInv
<1>2. Node(tree, worker[w].path).kind # "link"
  BY <1>1 DEF FrameOK, AsWritten
<1> QED BY <1>1, <1>2, PutKeepsLinks DEF SameTree

LEMMA NodeFacts ==
    /\ Absent \in Nodes /\ Absent.kind = "absent"
    /\ Dir \in Nodes /\ Dir.kind = "dir"
    /\ \A data \in Contents : File(data) \in Nodes /\ File(data).kind = "file"
BY DEF Absent, Dir, File, Nodes

LEMMA UnlinkInv ==
    ASSUME IInv, NEW w \in Workers, Unlink(w)
    PROVE  IInv'
<1>1. /\ worker[w].at = "unlink" /\ UNCHANGED <<staging, litter, bounds>>
      /\ \/ tree' = [tree EXCEPT ![worker[w].path] = Absent] /\ End(w, "ok")
         \/ tree' = tree /\ End(w, "failed")
  BY DEF Unlink, At
<1>2. SameTree
  BY <1>1, NodeFacts, PutSame, SameTreeKept DEF Touching
<1>3. PICK result \in {"ok", "failed"} : End(w, result)
  BY <1>1
<1> DEFINE f == [Idle EXCEPT !.result = result]
<1>4. FrameOK(f, tree, policy) /\ f.at = "idle" /\ Go(w, f)
  BY <1>3, Ended DEF End, Results
<1> HIDE DEF f
<1>5. staging[w] = None
  BY <1>1, Unstaged
<1>6. StagedOK(f, None) /\ staging' = [staging EXCEPT ![w] = None]
  BY <1>1, <1>4, <1>5 DEF StagedOK, IInv
<1>7. policy' = policy /\ litter' = litter /\ edits' = edits /\ faults' = faults
  BY <1>1 DEF bounds
<1> QED BY <1>2, <1>4, <1>6, <1>7, Bounded, StepInv

LEMMA StageInv ==
    ASSUME IInv, NEW w \in Workers, Stage(w)
    PROVE  IInv'
<1> DEFINE f == [worker[w] EXCEPT !.at = "fill"]
           file == [dir |-> Above(worker[w].path), data |-> "empty"]
<1>1. worker[w].at = "stage" /\ UNCHANGED <<tree, litter, bounds>>
  BY DEF Stage, At
<1>2. CASE End(w, "failed") /\ UNCHANGED staging
  BY <1>1, <1>2, Unstaged, EndInv DEF Results, files
<1>3. CASE Goto(w, "fill") /\ staging' = [staging EXCEPT ![w] = file]
  <2>1. /\ FrameOK(worker[w], tree, policy) /\ worker[w] \in Frame
        /\ AsWritten(worker[w], tree) /\ worker[w].request.tool = "write_file"
    BY <1>1 DEF IInv, FrameOK, OfTool, Touching
  <2>2. /\ f.at = "fill" /\ f.request = worker[w].request /\ f.path = worker[w].path
    BY <2>1, Moved DEF Places
  <2>3. OfTool(f)
    BY <2>1, <2>2 DEF OfTool
  <2>4. FrameOK(f, tree, policy)
    BY <1>1, <2>1, <2>3, MovedOn DEF Touching
  <2>5. Go(w, f)
    BY <1>3 DEF Goto
  <2> HIDE DEF f
  <2>6. StagedOK(f, file)
    BY <2>2 DEF StagedOK
  <2>7. policy' = policy /\ litter' = litter /\ edits' = edits /\ faults' = faults
    BY <1>1 DEF bounds
  <2> HIDE DEF file
  <2> QED BY <1>1, <1>3, <2>4, <2>5, <2>6, <2>7, Bounded, SameTreeKept, StepInv
<1> QED BY <1>2, <1>3 DEF Stage

\* A write goes on to its replace or to its cleanup, whatever has become of the staging file.
LEMMA WriteOn ==
    ASSUME IInv, NEW w \in Workers, worker[w].at \in {"fill", "replace"},
           NEW place \in {"replace", "clean"}
    PROVE  LET f == [worker[w] EXCEPT !.at = place]
           IN  /\ FrameOK(f, tree, policy)
               /\ f.at = place /\ f.request = worker[w].request /\ f.path = worker[w].path
<1> DEFINE f == [worker[w] EXCEPT !.at = place]
<1>1. /\ FrameOK(worker[w], tree, policy) /\ worker[w] \in Frame
      /\ AsWritten(worker[w], tree) /\ worker[w].request.tool = "write_file"
  BY DEF IInv, FrameOK, OfTool, Touching
<1>2. /\ f.at = place /\ f.request = worker[w].request /\ f.path = worker[w].path
  BY <1>1, Moved DEF Places
<1>3. OfTool(f)
  BY <1>1, <1>2 DEF OfTool
<1>4. FrameOK(f, tree, policy)
  BY <1>1, <1>3, MovedOn DEF Touching
<1> QED BY <1>2, <1>4

LEMMA FillInv ==
    ASSUME IInv, NEW w \in Workers, Fill(w)
    PROVE  IInv'
<1> DEFINE f == [worker[w] EXCEPT !.at = "replace"]
           file == [dir |-> Above(worker[w].path), data |-> worker[w].request.data]
<1>1. /\ worker[w].at = "fill" /\ UNCHANGED <<tree, litter, bounds>> /\ Go(w, f)
      /\ staging' = [staging EXCEPT ![w].data = worker[w].request.data]
  BY DEF Fill, At, Goto
<1>2. FrameOK(f, tree, policy) /\ f.at = "replace" /\ f.request = worker[w].request
      /\ f.path = worker[w].path
  BY <1>1, WriteOn
<1> HIDE DEF f
<1>3. StagedOK(f, file)
  BY <1>2 DEF StagedOK
<1>4. staging[w] = [dir |-> Above(worker[w].path), data |-> "empty"]
  BY <1>1 DEF IInv, StagedOK
<1>5. staging' = [staging EXCEPT ![w] = file]
  <2>1. [staging[w] EXCEPT !.data = worker[w].request.data] = file
    BY <1>4
  <2>2. staging' = [staging EXCEPT ![w] = [staging[w] EXCEPT !.data = worker[w].request.data]]
    BY <1>1, Zenon
  <2> HIDE DEF file
  <2> QED BY <2>1, <2>2
<1>6. policy' = policy /\ litter' = litter /\ edits' = edits /\ faults' = faults
  BY <1>1 DEF bounds
<1> HIDE DEF file
<1> QED BY <1>1, <1>2, <1>3, <1>5, <1>6, Bounded, SameTreeKept, StepInv

LEMMA ReplaceInv ==
    ASSUME IInv, NEW w \in Workers, Replace(w)
    PROVE  IInv'
<1>1. worker[w].at = "replace" /\ UNCHANGED <<litter, bounds>>
  BY DEF Replace, At
<1>2. policy' = policy /\ litter' = litter /\ edits' = edits /\ faults' = faults
  BY <1>1 DEF bounds
<1>3. CASE Goto(w, "clean") /\ UNCHANGED <<tree, staging>>
  <2> DEFINE f == [worker[w] EXCEPT !.at = "clean"]
  <2>1. FrameOK(f, tree, policy) /\ f.at = "clean" /\ Go(w, f)
    BY <1>1, <1>3, WriteOn DEF Goto
  <2> HIDE DEF f
  <2>2. StagedOK(f, staging[w])
    BY <2>1 DEF StagedOK
  <2> QED BY <1>1, <1>3, <2>1, <2>2, QuietInv DEF files
<1>4. CASE /\ tree' = [tree EXCEPT ![worker[w].path] = File(staging[w].data)]
           /\ staging' = [staging EXCEPT ![w] = None]
           /\ Go(w, [worker[w] EXCEPT !.at = "clean", !.done = TRUE])
  <2> DEFINE g == [worker[w] EXCEPT !.at = "clean"]
             f == [worker[w] EXCEPT !.at = "clean", !.done = TRUE]
  <2>1. worker[w] \in Frame /\ worker[w].request \in Requests
    BY <1>1 DEF IInv, FrameOK, Authorized
  <2>2. FrameOK(g, tree, policy) /\ g.at = "clean"
    BY <1>1, WriteOn
  <2>3. g \in Frame /\ f = [g EXCEPT !.done = TRUE]
    BY <2>1, Moved DEF Places, Frame
  <2> HIDE DEF f, g
  <2>4. /\ f \in Frame /\ f.at = g.at /\ f.request = g.request /\ f.mode = g.mode
        /\ f.answer = g.answer /\ f.path = g.path /\ f.result = g.result
    BY <2>3 DEF Frame
  <2>5. FrameOK(f, tree, policy)
    BY <2>2, <2>4 DEF FrameOK, Authorized, Admitted, Located, AsWritten, OfTool, Touching
  <2>6. StagedOK(f, None)
    BY <2>2, <2>4 DEF StagedOK
  <2>7. staging[w].data \in Contents
    BY <1>1, <2>1, FilesAssumption DEF IInv, StagedOK
  <2>8. SameTree
    BY <1>1, <1>4, <2>7, NodeFacts, PutSame DEF Touching
  <2>9. Go(w, f)
    BY <1>4 DEF f
  <2> QED BY <1>2, <1>4, <2>5, <2>6, <2>8, <2>9, Bounded, StepInv
<1> QED BY <1>3, <1>4 DEF Replace

\* A step that leaves the worker idle and takes its staging file away.
LEMMA DoneInv ==
    ASSUME IInv, NEW w \in Workers, NEW f \in {Idle} \cup {[Idle EXCEPT !.result = r] : r \in Results},
           Go(w, f), staging' = [staging EXCEPT ![w] = None], tree' = tree, policy' = policy,
           IsFiniteSet(litter'), Cardinality(litter') <= faults', faults' \in Nat, edits' = edits
    PROVE  IInv'
<1>1. PICK r \in Results : f = Idle \/ f = [Idle EXCEPT !.result = r]
  BY DEF Results
<1>2. FrameOK(f, tree, policy) /\ f.at = "idle"
  <2>1. CASE f = Idle
    BY <2>1, Ended
  <2>2. CASE f = [Idle EXCEPT !.result = r]
    <3> DEFINE g == [Idle EXCEPT !.result = r]
    <3>1. FrameOK(g, tree, policy) /\ g.at = "idle"
      BY Ended
    <3> HIDE DEF g
    <3> QED BY <2>2, <3>1 DEF g
  <2> QED BY <1>1, <2>1, <2>2
<1>3. StagedOK(f, None)
  BY <1>2 DEF StagedOK
<1> QED BY <1>2, <1>3, Bounded, SameTreeKept, StepInv

LEMMA CleanInv ==
    ASSUME IInv, NEW w \in Workers, Clean(w) \/ CleanFails(w)
    PROVE  IInv'
<1> DEFINE f == [Idle EXCEPT !.result = Written(w)]
<1>1. f \in {[Idle EXCEPT !.result = r] : r \in Results} /\ Go(w, f)
  BY DEF Clean, CleanFails, End, Written, Results
<1>2. staging' = [staging EXCEPT ![w] = None] /\ tree' = tree /\ policy' = policy /\ edits' = edits
  BY DEF Clean, CleanFails, Abandon, bounds
<1>3. IsFiniteSet(litter') /\ Cardinality(litter') <= faults' /\ faults' \in Nat
  <2>1. CASE litter' = litter /\ faults' = faults
    BY <2>1, Bounded
  <2>2. CASE CleanFails(w)
    BY <2>2, AbandonBounded DEF CleanFails, Fault
  <2> QED BY <2>1, <2>2 DEF Clean, bounds
<1> HIDE DEF f
<1> QED BY <1>1, <1>2, <1>3, DoneInv

LEMMA CrashInv ==
    ASSUME IInv, NEW w \in Workers, Crash(w)
    PROVE  IInv'
<1>1. /\ Go(w, Idle) /\ staging' = [staging EXCEPT ![w] = None]
      /\ tree' = tree /\ policy' = policy /\ edits' = edits
  BY DEF Crash, Abandon
<1>2. IsFiniteSet(litter') /\ Cardinality(litter') <= faults' /\ faults' \in Nat
  BY AbandonBounded DEF Crash, Fault
<1> QED BY <1>1, <1>2, DoneInv

LEMMA FailInv ==
    ASSUME IInv, NEW w \in Workers, Fail(w)
    PROVE  IInv'
<1>1. /\ tree' = tree /\ policy' = policy /\ edits' = edits /\ litter' = litter
      /\ faults' = faults + 1
  BY DEF Fail, Fault
<1>2. IsFiniteSet(litter') /\ Cardinality(litter') <= faults' /\ faults' \in Nat
  BY <1>1, Bounded
<1>3. CASE /\ worker[w].at \in {"walk", "target", "read", "unlink", "stage"} /\ End(w, "failed")
           /\ UNCHANGED staging
  <2> DEFINE f == [Idle EXCEPT !.result = "failed"]
  <2>1. f \in {[Idle EXCEPT !.result = r] : r \in Results} /\ Go(w, f)
    BY <1>3 DEF End, Results
  <2>2. staging[w] = None
    BY <1>3, Unstaged
  <2>3. staging' = [staging EXCEPT ![w] = None]
    BY <1>3, <2>2 DEF IInv
  <2> HIDE DEF f
  <2> QED BY <1>1, <1>2, <2>1, <2>3, DoneInv
<1>4. ASSUME worker[w].at \in {"fill", "replace"}, Goto(w, "clean"), NEW file,
             staging' = [staging EXCEPT ![w] = file]
      PROVE  IInv'
  <2> DEFINE f == [worker[w] EXCEPT !.at = "clean"]
  <2>1. FrameOK(f, tree, policy) /\ f.at = "clean" /\ Go(w, f)
    BY <1>4, WriteOn DEF Goto
  <2> HIDE DEF f
  <2>2. StagedOK(f, file)
    BY <2>1 DEF StagedOK
  <2> QED BY <1>1, <1>2, <1>4, <2>1, <2>2, Bounded, SameTreeKept, StepInv
<1>5. CASE At(w, "fill") /\ Goto(w, "clean") /\ staging' = [staging EXCEPT ![w].data = "partial"]
  <2> DEFINE file == [staging[w] EXCEPT !.data = "partial"]
  <2>1. staging' = [staging EXCEPT ![w] = file]
    BY <1>5, Zenon
  <2> HIDE DEF file
  <2> QED BY <1>4, <1>5, <2>1 DEF At
<1>6. CASE At(w, "replace") /\ Goto(w, "clean") /\ UNCHANGED staging
  <2>1. staging' = [staging EXCEPT ![w] = staging[w]]
    BY <1>6 DEF IInv
  <2> QED BY <1>4, <1>6, <2>1 DEF At
<1> QED BY <1>3, <1>5, <1>6 DEF Fail, At

-----------------------------------------------------------------------------
(* The editor.                                                             *)

LEMMA EditInv ==
    ASSUME IInv, NEW path \in DOMAIN tree, NEW node \in Nodes, node.kind # "link",
           Kind(path) # "link", Edit(path, node)
    PROVE  IInv'
<1>1. SameTree
  BY PutKeepsLinks DEF Edit, IInv, Kind, SameTree
<1>2. Links(tree)
  BY TreeLinks DEF IInv
<1>3. /\ policy' = policy /\ worker' = worker /\ staging' = staging /\ litter' = litter
      /\ faults' = faults /\ edits' = edits + 1
  BY DEF Edit
<1>4. \A w \in Workers : FrameOK(worker[w], tree', policy)
  BY <1>1, <1>2, FrameStable DEF IInv, SameTree
<1> QED BY <1>1, <1>3, <1>4 DEF IInv, SameTree

LEMMA EditorInv ==
    ASSUME IInv, NEW path \in DOMAIN tree,
           (\E data \in Contents : SaveFile(path, data))
               \/ RemoveFile(path) \/ MakeDir(path) \/ RemoveDir(path)
    PROVE  IInv'
<1>1. PICK node \in Nodes : node.kind # "link" /\ Kind(path) # "link" /\ Edit(path, node)
  BY NodeFacts DEF SaveFile, RemoveFile, MakeDir, RemoveDir
<1> QED BY <1>1, EditInv

-----------------------------------------------------------------------------
(* The theorems.                                                           *)

LEMMA InitInv ==
    ASSUME Init
    PROVE  IInv
<1>1. TreeOK(tree) /\ policy \in Policies
  BY FilesAssumption DEF Init, TreeOK
<1>2. FrameOK(Idle, tree, policy) /\ Idle.at = "idle"
  BY Ended DEF Results
<1>3. \A w \in Workers : FrameOK(worker[w], tree, policy) /\ StagedOK(worker[w], staging[w])
  BY <1>2 DEF Init, StagedOK
<1>4. Idle \in Frame
  BY <1>2 DEF FrameOK
<1>5. IsFiniteSet(litter) /\ Cardinality(litter) = 0
  BY FS_EmptySet DEF Init
<1>6. worker \in [Workers -> Frame] /\ staging = [w \in Workers |-> staging[w]]
  BY <1>4 DEF Init
<1> QED BY <1>1, <1>3, <1>5, <1>6 DEF IInv, Init

LEMMA NextInv ==
    ASSUME IInv, [Next]_vars
    PROVE  IInv'
<1>1. CASE UNCHANGED vars
  BY <1>1 DEF vars, IInv
<1>2. ASSUME NEW w \in Workers, NEW request \in Requests, Submit(w, request) PROVE IInv'
  BY <1>2, SubmitInv
<1>3. ASSUME NEW w \in Workers, ResolveGate(w) PROVE IInv'
  BY <1>3, ResolveGateInv
<1>4. ASSUME NEW w \in Workers, At(w, "gate"), NEW answer \in Answers(worker[w].request),
             AnswerGate(w, answer)
      PROVE  IInv'
  BY <1>4, AnswerGateInv
<1>5. ASSUME NEW w \in Workers, Execution(w) PROVE IInv'
  BY <1>5, ResolvePathInv, WalkInv, CheckAboveInv, CheckReplacedInv, CheckTargetInv,
     ReadFileInv, UnlinkInv, StageInv, FillInv, ReplaceInv, CleanInv DEF Execution
<1>6. ASSUME NEW w \in Workers, Fail(w) \/ CleanFails(w) \/ Crash(w) PROVE IInv'
  BY <1>6, FailInv, CleanInv, CrashInv
<1>7. ASSUME NEW path \in DOMAIN tree,
             (\E data \in Contents : SaveFile(path, data))
                 \/ RemoveFile(path) \/ MakeDir(path) \/ RemoveDir(path)
      PROVE  IInv'
  BY <1>7, EditorInv
<1> QED BY <1>1, <1>2, <1>3, <1>4, <1>5, <1>6, <1>7 DEF Next

LEMMA Invariance == Spec => []IInv
<1>1. Init => IInv
  BY InitInv
<1>2. IInv /\ [Next]_vars => IInv'
  BY NextInv
<1> QED BY <1>1, <1>2, PTL DEF Spec

\* Whatever the workers, the editor and the faults do, every worker's local variables
\* and every node of the tree are of their kinds, and a path that has been resolved
\* lies in the workspace.
THEOREM TypeCorrect == Spec => []TypeOK
<1>1. IInv => TypeOK
  <2> SUFFICES ASSUME IInv PROVE TypeOK
    OBVIOUS
  <2>1. \A path \in DOMAIN tree : tree[path].kind \in {"absent", "dir", "file", "link"}
    BY DEF IInv, TreeOK, Nodes
  <2>2. ASSUME NEW w \in Workers
        PROVE  /\ worker[w].at \in Places /\ worker[w].mode \in Modes \cup {None}
               /\ worker[w].result \in Results
    <3>1. worker[w] \in Frame
      BY DEF IInv
    <3> QED BY <3>1 DEF Frame
  <2>3. ASSUME NEW w \in Workers, worker[w].path # None PROVE IsPrefix(Root, worker[w].path)
    <3>1. FrameOK(worker[w], tree, policy)
      BY DEF IInv
    <3>2. Located(worker[w], tree)
      BY <2>3, <3>1 DEF FrameOK
    <3> QED BY <3>2 DEF Located, Normalize
  <2> QED BY <2>1, <2>2, <2>3 DEF TypeOK, Results
<1> QED BY <1>1, Invariance, PTL

\* What a tool touches is the path as the model wrote it, followed through no link, at
\* the strictest mode that a rule of the policy demands of it, and a human who had to
\* explain it explained this tool at this path: for every tree, policy and request, and
\* however workers, editor, failures and crashes interleave.
THEOREM JudgedCorrect == Spec => []TouchedAsJudged
<1>1. IInv => TouchedAsJudged
  <2> SUFFICES ASSUME IInv, NEW w \in Workers, worker[w].at \in Touching
               PROVE  LET request == worker[w].request
                          demands == Demands(request.tool, worker[w].path)
                      IN  /\ worker[w].path = Root \o Names(request.target.parts)
                          /\ Strictest(worker[w].mode, demands)
                          /\ worker[w].mode = "user_gate" =>
                                  /\ worker[w].answer.path = request.target
                                  /\ worker[w].answer.tool = request.tool
    BY DEF TouchedAsJudged, Strictest
  <2>1. FrameOK(worker[w], tree, policy)
    BY DEF IInv
  <2>2. /\ Authorized(worker[w], tree, policy) /\ Admitted(worker[w])
        /\ Located(worker[w], tree) /\ AsWritten(worker[w], tree)
    BY <2>1 DEF FrameOK, Touching
  <2>3. worker[w].mode = Classify(policy, worker[w].request.tool, worker[w].path)
    BY <2>2 DEF Authorized, Authorize, Located
  <2> QED BY <2>2, <2>3, ClassifyIs DEF Admitted, AsWritten, IInv
<1> QED BY <1>1, Invariance, PTL

\* A staging file is there only while its write is under way, and there are never more
\* left behind than system calls that failed and workers that died.
THEOREM StagingCorrect == Spec => []StagingRemoved
<1>1. IInv => StagingRemoved
  BY DEF IInv, StagedOK, StagingRemoved, At
<1> QED BY <1>1, Invariance, PTL

\* The two halves of the action property.
ChangesOwed ==
    edits' = edits =>
        \A path \in DOMAIN tree : tree'[path] # tree[path] =>
            \E w \in Workers :
                /\ worker[w].path = path
                /\ \/ worker[w].request.tool = "write_file" /\ worker'[w].done
                      /\ tree'[path] = File(worker[w].request.data)
                   \/ worker[w].request.tool = "delete_file" /\ worker'[w].result = "ok"
                      /\ tree'[path] = Absent

WritesAnswered ==
    \A w \in Workers :
        At(w, "clean") /\ worker'[w].result # None => (worker'[w].result = "ok" <=> worker[w].done)

\* A worker that is not the one to clean up still has no result.
LEMMA OthersUnanswered ==
    ASSUME IInv, NEW w \in Workers, ~At(w, "clean"), NEW f, Go(w, f)
    PROVE  WritesAnswered
<1> SUFFICES ASSUME NEW v \in Workers, At(v, "clean"), worker'[v].result # None PROVE FALSE
  BY DEF WritesAnswered
<1>1. v # w /\ worker'[v] = worker[v]
  BY DEF Go, IInv
<1>2. worker[v].result = None
  BY DEF IInv, FrameOK, Authorized, At
<1> QED BY <1>1, <1>2

LEMMA CleanAnswered ==
    ASSUME IInv, NEW w \in Workers, At(w, "clean"), NEW f, Go(w, f),
           f.result # None => (f.result = "ok" <=> worker[w].done)
    PROVE  WritesAnswered
<1> SUFFICES ASSUME NEW v \in Workers, At(v, "clean"), worker'[v].result # None
             PROVE  worker'[v].result = "ok" <=> worker[v].done
  BY DEF WritesAnswered
<1>1. CASE v = w
  BY <1>1 DEF Go, IInv
<1>2. CASE v # w
  <2>1. worker'[v] = worker[v]
    BY <1>2 DEF Go, IInv
  <2>2. worker[v].result = None
    BY DEF IInv, FrameOK, Authorized, At
  <2> QED BY <2>1, <2>2
<1> QED BY <1>1, <1>2

LEMMA ReplaceOwed ==
    ASSUME IInv, NEW w \in Workers, Replace(w)
    PROVE  ChangesOwed /\ WritesAnswered
<1>1. /\ worker[w].at = "replace" /\ FrameOK(worker[w], tree, policy) /\ worker[w] \in Frame
      /\ tree = [path \in DOMAIN tree |-> tree[path]]
  BY DEF Replace, At, IInv, TreeOK
<1>2. worker[w].request.tool = "write_file" /\ staging[w].data = worker[w].request.data
  BY <1>1 DEF FrameOK, OfTool, IInv, StagedOK
<1>3. CASE Goto(w, "clean") /\ UNCHANGED <<tree, staging>>
  BY <1>1, <1>3, OthersUnanswered DEF At, Goto, ChangesOwed
<1>4. CASE /\ tree' = [tree EXCEPT ![worker[w].path] = File(staging[w].data)]
           /\ Go(w, [worker[w] EXCEPT !.at = "clean", !.done = TRUE])
  <2> DEFINE f == [worker[w] EXCEPT !.at = "clean", !.done = TRUE]
  <2>1. f.done
    BY <1>1 DEF Frame
  <2> HIDE DEF f
  <2>2. Go(w, f)
    BY <1>4 DEF f
  <2>3. worker'[w] = f
    BY <2>2 DEF Go, IInv
  <2>4. \A path \in DOMAIN tree : tree'[path] # tree[path] =>
            path = worker[w].path /\ tree'[path] = File(worker[w].request.data)
    BY <1>1, <1>2, <1>4
  <2>5. ChangesOwed
    BY <1>2, <2>1, <2>3, <2>4 DEF ChangesOwed
  <2> QED BY <1>1, <2>2, <2>5, OthersUnanswered DEF At
<1> QED BY <1>3, <1>4 DEF Replace

LEMMA UnlinkOwed ==
    ASSUME IInv, NEW w \in Workers, Unlink(w)
    PROVE  ChangesOwed /\ WritesAnswered
<1>1. /\ worker[w].at = "unlink" /\ FrameOK(worker[w], tree, policy)
      /\ tree = [path \in DOMAIN tree |-> tree[path]]
  BY DEF Unlink, At, IInv, TreeOK
<1>2. worker[w].request.tool = "delete_file"
  BY <1>1 DEF FrameOK, OfTool
<1>3. CASE tree' = tree /\ End(w, "failed")
  BY <1>1, <1>3, OthersUnanswered DEF At, End, ChangesOwed
<1>4. CASE tree' = [tree EXCEPT ![worker[w].path] = Absent] /\ End(w, "ok")
  <2> DEFINE f == [Idle EXCEPT !.result = "ok"]
  <2>1. f.result = "ok" /\ Go(w, f)
    BY <1>4, Ended DEF End, Results
  <2> HIDE DEF f
  <2>2. worker'[w] = f
    BY <2>1 DEF Go, IInv
  <2>3. \A path \in DOMAIN tree : tree'[path] # tree[path] =>
            path = worker[w].path /\ tree'[path] = Absent
    BY <1>1, <1>4
  <2>4. ChangesOwed
    BY <1>2, <2>1, <2>2, <2>3 DEF ChangesOwed
  <2> QED BY <1>1, <2>1, <2>4, OthersUnanswered DEF At
<1> QED BY <1>3, <1>4 DEF Unlink

LEMMA CleanOwed ==
    ASSUME IInv, NEW w \in Workers, Clean(w) \/ CleanFails(w)
    PROVE  ChangesOwed /\ WritesAnswered
<1>1. At(w, "clean") /\ tree' = tree /\ End(w, Written(w)) /\ worker[w].done \in BOOLEAN
  BY DEF Clean, CleanFails, files, IInv, Frame
<1> DEFINE f == [Idle EXCEPT !.result = Written(w)]
<1>2. Go(w, f) /\ f.result = Written(w)
  BY <1>1, Ended DEF End, Written, Results
<1> HIDE DEF f
<1>3. f.result = "ok" <=> worker[w].done
  BY <1>1, <1>2 DEF Written
<1>4. WritesAnswered
  BY <1>1, <1>2, <1>3, CleanAnswered
<1> QED BY <1>1, <1>4 DEF ChangesOwed

LEMMA CrashOwed ==
    ASSUME IInv, NEW w \in Workers, Crash(w)
    PROVE  ChangesOwed /\ WritesAnswered
<1>1. tree' = tree /\ Go(w, Idle) /\ Idle.result = None
  BY DEF Crash, Idle
<1>2. WritesAnswered
  BY <1>1, OthersUnanswered, CleanAnswered
<1> QED BY <1>1, <1>2 DEF ChangesOwed

\* Every other step leaves the tree as it is, and is of a worker that has nothing to clean up.
Elsewhere(w) == ~At(w, "clean") /\ tree' = tree /\ \E f : Go(w, f)

LEMMA ElsewhereOwed ==
    ASSUME IInv, NEW w \in Workers, Elsewhere(w)
    PROVE  ChangesOwed /\ WritesAnswered
BY OthersUnanswered DEF Elsewhere, ChangesOwed

LEMMA EditorOwed ==
    ASSUME IInv, NEW path \in DOMAIN tree,
           (\E data \in Contents : SaveFile(path, data))
               \/ RemoveFile(path) \/ MakeDir(path) \/ RemoveDir(path)
    PROVE  ChangesOwed /\ WritesAnswered
<1>1. PICK node : Edit(path, node)
  BY DEF SaveFile, RemoveFile, MakeDir, RemoveDir
<1>2. edits' # edits /\ worker' = worker
  BY <1>1 DEF Edit, IInv
<1>3. \A w \in Workers : At(w, "clean") => worker'[w].result = None
  BY <1>2 DEF IInv, FrameOK, Authorized, At
<1> QED BY <1>2, <1>3 DEF ChangesOwed, WritesAnswered

LEMMA StillOwed ==
    ASSUME IInv, tree' = tree, worker' = worker
    PROVE  ChangesOwed /\ WritesAnswered
<1>1. \A w \in Workers : At(w, "clean") => worker'[w].result = None
  BY DEF IInv, FrameOK, Authorized, At
<1> QED BY <1>1 DEF ChangesOwed, WritesAnswered

LEMMA StepOwed ==
    ASSUME IInv, [Next]_vars
    PROVE  ChangesOwed /\ WritesAnswered
<1>1. CASE UNCHANGED vars
  BY <1>1, StillOwed DEF vars
<1>2. ASSUME NEW w \in Workers, NEW request \in Requests, Submit(w, request)
      PROVE  Elsewhere(w)
  BY <1>2 DEF Submit, End, At, files, Elsewhere
<1>3. ASSUME NEW w \in Workers, ResolveGate(w) PROVE Elsewhere(w)
  BY <1>3 DEF ResolveGate, End, Goto, At, files, Elsewhere
<1>4. ASSUME NEW w \in Workers, NEW answer, AnswerGate(w, answer)
      PROVE  ChangesOwed /\ WritesAnswered
  <2>1. ~At(w, "clean") /\ tree' = tree
    BY <1>4 DEF AnswerGate, At, files
  <2>2. worker' = worker \/ \E f : Go(w, f)
    BY <1>4 DEF AnswerGate, End
  <2> QED BY <2>1, <2>2, StillOwed, ElsewhereOwed DEF Elsewhere
<1>5. ASSUME NEW w \in Workers, ResolvePath(w) \/ Walk(w) PROVE Elsewhere(w)
  BY <1>5 DEF ResolvePath, Walk, End, At, files, Elsewhere
<1>6. ASSUME NEW w \in Workers, CheckAbove(w) \/ CheckReplaced(w) \/ CheckTarget(w)
      PROVE  Elsewhere(w)
  BY <1>6 DEF CheckAbove, CheckReplaced, CheckTarget, End, Goto, At, files, Elsewhere
<1>7. ASSUME NEW w \in Workers, ReadFile(w) \/ Stage(w) \/ Fill(w) \/ Fail(w) PROVE Elsewhere(w)
  BY <1>7 DEF ReadFile, Stage, Fill, Fail, End, Goto, At, files, Elsewhere
<1>8. ASSUME NEW w \in Workers, Execution(w) PROVE ChangesOwed /\ WritesAnswered
  BY <1>5, <1>6, <1>7, <1>8, ElsewhereOwed, UnlinkOwed, ReplaceOwed, CleanOwed DEF Execution
<1>9. ASSUME NEW w \in Workers, Fail(w) \/ CleanFails(w) \/ Crash(w)
      PROVE  ChangesOwed /\ WritesAnswered
  BY <1>7, <1>9, ElsewhereOwed, CleanOwed, CrashOwed
<1>10. ASSUME NEW path \in DOMAIN tree,
              (\E data \in Contents : SaveFile(path, data))
                  \/ RemoveFile(path) \/ MakeDir(path) \/ RemoveDir(path)
       PROVE  ChangesOwed /\ WritesAnswered
  BY <1>10, EditorOwed
<1> QED BY <1>1, <1>2, <1>3, <1>4, <1>8, <1>9, <1>10, ElsewhereOwed DEF Next

\* Apart from the editor, a file changes only as a whole and only at the path of the write
\* or delete under way, with the data that was asked for; and a write answers ok exactly if
\* it replaced its target, whatever failed before, between and after.
THEOREM ChangesCorrect == Spec => ChangesAreReported
<1>1. IInv /\ [Next]_vars => [ChangesOwed /\ WritesAnswered]_vars
  BY StepOwed
<1>2. [ChangesOwed /\ WritesAnswered]_vars <=>
        [ /\ edits' = edits =>
                \A path \in DOMAIN tree : tree'[path] # tree[path] =>
                    \E w \in Workers :
                        /\ worker[w].path = path
                        /\ \/ worker[w].request.tool = "write_file" /\ worker'[w].done
                              /\ tree'[path] = File(worker[w].request.data)
                           \/ worker[w].request.tool = "delete_file" /\ worker'[w].result = "ok"
                              /\ tree'[path] = Absent
          /\ \A w \in Workers :
                At(w, "clean") /\ worker'[w].result # None =>
                    (worker'[w].result = "ok" <=> worker[w].done)
        ]_vars
  BY DEF ChangesOwed, WritesAnswered
<1> QED BY <1>1, <1>2, Invariance, PTL DEF Spec, ChangesAreReported
=============================================================================
