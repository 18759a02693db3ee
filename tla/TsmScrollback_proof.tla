------------------------- MODULE TsmScrollback_proof -------------------------
(***************************************************************************)
(* The linked list of lines is the scrollback it stands for, for screens,  *)
(* scrollbacks and memories of every size.                                 *)
(***************************************************************************)
EXTENDS TsmScrollback, FiniteSetTheorems, WellFoundedInduction, TLAPS

-----------------------------------------------------------------------------
(* Loops. *)

LEMMA NatSet ==
    ASSUME NEW S, 0 \in S, \A n \in Nat : n \in S => n + 1 \in S
    PROVE  Nat \subseteq S
<1> DEFINE T == {n \in Nat : n \notin S}
           R == {ss \in Nat \X Nat : ss[1] < ss[2]}
<1>1. SUFFICES ASSUME T # {} PROVE FALSE OBVIOUS
<1>2. IsWellFoundedOn(R, Nat) BY NatLessThanWellFounded DEF OpToRel
<1>3. PICK n \in T : \A m \in T : ~(<<m, n>> \in R) BY <1>1, <1>2, WFMin, Zenon
<1>4. n \in Nat /\ n \notin S BY <1>3
<1>5. n # 0 BY <1>4
<1>6. n - 1 \in Nat /\ <<n - 1, n>> \in R BY <1>4, <1>5
<1>7. n - 1 \in S BY <1>3, <1>6
<1> QED BY <1>4, <1>6, <1>7

\* What a loop goes through in its first n rounds.
Runs(step, x, n, f) == f = [i \in 0..n |-> IF i = 0 THEN x ELSE step[f[i - 1]]]
RunOf(step, x, n) == CHOOSE f : Runs(step, x, n, f)

\* A loop of no rounds changes nothing, and one of another round does that last.
LEMMA IteratedStep ==
    ASSUME NEW step, NEW x
    PROVE  /\ Iterated(step, x, 0) = x
           /\ \A n \in Nat : Iterated(step, x, n + 1) = step[Iterated(step, x, n)]
<1> DEFINE T == {n \in Nat : \E f : Runs(step, x, n, f)}
<1>1. 0 \in T
  <2>1. Runs(step, x, 0, [i \in 0..0 |-> x]) BY DEF Runs
  <2> QED BY <2>1
<1>2. ASSUME NEW n \in Nat, n \in T PROVE n + 1 \in T
  <2>1. PICK f : Runs(step, x, n, f) BY <1>2
  <2> DEFINE g == [i \in 0..(n + 1) |-> IF i <= n THEN f[i] ELSE step[f[n]]]
  <2>2. ASSUME NEW i \in 0..(n + 1)
        PROVE  g[i] = IF i = 0 THEN x ELSE step[g[i - 1]]
    <3>1. CASE i = 0 BY <2>1, <3>1 DEF Runs
    <3>2. CASE i # 0 /\ i <= n
      <4>1. i \in 0..n /\ i - 1 \in 0..(n + 1) /\ i - 1 <= n BY <3>2
      <4>2. f[i] = step[f[i - 1]] BY <2>1, <3>2, <4>1 DEF Runs
      <4> QED BY <3>2, <4>1, <4>2
    <3>3. CASE i = n + 1 BY <3>3
    <3> QED BY <3>1, <3>2, <3>3
  <2>3. g = [i \in 0..(n + 1) |-> IF i = 0 THEN x ELSE step[g[i - 1]]]
    <3>1. g = [i \in 0..(n + 1) |-> g[i]] OBVIOUS
    <3> HIDE DEF g
    <3> QED BY <2>2, <3>1
  <2> HIDE DEF g
  <2>4. Runs(step, x, n + 1, g) BY <2>3 DEF Runs
  <2> QED BY <2>4
<1>3. Nat \subseteq T
  <2> HIDE DEF T
  <2> QED BY <1>1, <1>2, NatSet
<1>4. ASSUME NEW n \in Nat
      PROVE  /\ Runs(step, x, n, RunOf(step, x, n))
             /\ Iterated(step, x, n) = RunOf(step, x, n)[n]
  <2>1. \E f : Runs(step, x, n, f) BY <1>3
  <2>2. Iterated(step, x, n) = RunOf(step, x, n)[n] BY DEF Iterated, RunOf, Runs
  <2> QED BY <2>1, <2>2 DEF RunOf
<1>5. ASSUME NEW n \in Nat, NEW a, NEW b, Runs(step, x, n, a), Runs(step, x, n + 1, b)
      PROVE  \A i \in Nat : i <= n => b[i] = a[i]
  <2> DEFINE S == {i \in Nat : i <= n => b[i] = a[i]}
  <2>1. \A i \in 0..n : a[i] = (IF i = 0 THEN x ELSE step[a[i - 1]])
        BY <1>5 DEF Runs
  <2>2. \A i \in 0..(n + 1) : b[i] = (IF i = 0 THEN x ELSE step[b[i - 1]])
        BY <1>5 DEF Runs
  <2>3. 0 \in S BY <2>1, <2>2
  <2>4. ASSUME NEW i \in Nat, i \in S PROVE i + 1 \in S
    <3>1. SUFFICES ASSUME i + 1 <= n PROVE b[i + 1] = a[i + 1] OBVIOUS
    <3>2. b[i] = a[i] BY <2>4, <3>1
    <3>3. i + 1 \in 0..n /\ i + 1 \in 0..(n + 1) /\ i + 1 # 0 /\ (i + 1) - 1 = i BY <3>1
    <3>4. a[i + 1] = step[a[i]] BY <2>1, <3>3
    <3>5. b[i + 1] = step[b[i]] BY <2>2, <3>3
    <3> QED BY <3>2, <3>4, <3>5
  <2> HIDE DEF S
  <2>5. Nat \subseteq S BY <2>3, <2>4, NatSet
  <2> QED BY <2>5 DEF S
<1>6. Iterated(step, x, 0) = x BY <1>4 DEF Runs
<1>7. ASSUME NEW n \in Nat PROVE Iterated(step, x, n + 1) = step[Iterated(step, x, n)]
  <2> DEFINE a == RunOf(step, x, n)
             b == RunOf(step, x, n + 1)
  <2>1. /\ Iterated(step, x, n) = a[n] /\ Iterated(step, x, n + 1) = b[n + 1]
        /\ Runs(step, x, n, a) /\ Runs(step, x, n + 1, b)
        BY <1>4
  <2> HIDE DEF a, b
  <2>2. b[n] = a[n] BY <1>5, <2>1
  <2>3. n + 1 \in 0..(n + 1) /\ n + 1 # 0 /\ (n + 1) - 1 = n OBVIOUS
  <2>4. b[n + 1] = step[b[n]] BY <2>1, <2>3 DEF Runs
  <2> QED BY <2>1, <2>2, <2>4
<1> QED BY <1>6, <1>7

-----------------------------------------------------------------------------
(* The list and the view. *)

\* The next and prev pointers of h, sb_first and sb_last lead through the n lines of
\* s; the newest of them may still point at a line that has just left.
Chained(h, n, s) ==
    /\ h \in Heaps /\ n \in Nat /\ s \in [1..n -> Line]
    /\ \A i, j \in 1..n : s[i] = s[j] => i = j
    /\ h.con.sb_count = n
    /\ h.con.sb_last = IF n = 0 THEN NULL ELSE s[n]
    /\ n > 0 => h.con.sb_first = s[1]
    /\ \A i \in 1..n : h.node[s[i]].prev = IF i = 1 THEN NULL ELSE s[i - 1]
    /\ \A i \in 1..n : i < n => h.node[s[i]].next = s[i + 1]
    /\ \A i \in 1..n : h.node[s[i]].sb_id <= h.con.sb_last_id
    /\ \A i, j \in 1..n : i < j => h.node[s[i]].sb_id < h.node[s[j]].sb_id

\* The list is closed at its new end.
ListOf(h, n, s) ==
    /\ Chained(h, n, s)
    /\ IF n = 0 THEN h.con.sb_first = NULL ELSE h.node[s[n]].next = NULL

\* top lines of the list are above the view, which is live when all n are.
ViewOf(h, n, s, top) ==
    /\ top \in 0..n
    /\ h.con.sb_pos = IF top = n THEN NULL ELSE s[top + 1]

\* The list without its k oldest lines, its n oldest lines, and with one more.
Behind(n, s, k) == [i \in 1..(n - k) |-> s[i + k]]
Front(s, n) == [i \in 1..n |-> s[i]]
With(n, s, line) == [i \in 1..(n + 1) |-> IF i <= n THEN s[i] ELSE line]

\* The members an operation of the list leaves alone.
SameSettings(g, h) == /\ g.con.sb_max = h.con.sb_max /\ g.con.fixed_pos = h.con.fixed_pos
                      /\ g.con.sb_last_id = h.con.sb_last_id

LEMMA NullIsNoLine == NULL \notin Line /\ NULL \in Lines /\ Line \subseteq Lines
BY ListAssumption DEF Lines

LEMMA PointerSet ==
    ASSUME NEW nodes \in Nodes, NEW line \in Line, NEW p \in Lines
    PROVE  [nodes EXCEPT ![line].prev = p] \in Nodes /\ [nodes EXCEPT ![line].next = p] \in Nodes
<1> DEFINE N == [next : Lines, prev : Lines, sb_id : Nat]
<1>1. nodes[line] \in N BY DEF Nodes
<1>2. [nodes[line] EXCEPT !.prev = p] \in N /\ [nodes[line] EXCEPT !.next = p] \in N BY <1>1
<1>3. nodes \in [Line -> N] BY DEF Nodes
<1> HIDE DEF N
<1> QED BY <1>2, <1>3 DEF Nodes, N

LEMMA FirstGoes ==
    ASSUME NEW h, NEW n, NEW s, ListOf(h, n, s), n > 0
    PROVE  LET g == WithoutFirst(h)
           IN  /\ ListOf(g, n - 1, Behind(n, s, 1))
               /\ g.con.sb_pos = h.con.sb_pos /\ SameSettings(g, h)
               /\ \A l \in Line : g.node[l].next = h.node[l].next
<1> DEFINE g == WithoutFirst(h)
           next == h.node[h.con.sb_first].next
           t == Behind(n, s, 1)
           m == n - 1
<1>1. /\ h \in Heaps /\ n \in Nat /\ s \in [1..n -> Line] /\ 1 \in 1..n /\ n \in 1..n
      /\ h.con \in Cons /\ h.node \in Nodes /\ m \in Nat
      BY DEF ListOf, Chained, Heaps
<1>2. next = (IF n = 1 THEN NULL ELSE s[2]) /\ next \in Lines
      BY <1>1, NullIsNoLine DEF ListOf, Chained
<1>3. next = NULL <=> n = 1 BY <1>1, <1>2, NullIsNoLine
<1>4. t \in [1..m -> Line] /\ \A i \in 1..m : t[i] = s[i + 1] /\ i + 1 \in 1..n
      BY <1>1 DEF Behind
<1>5. /\ g.con = [h.con EXCEPT !.sb_first = next,
                               !.sb_last = IF next = NULL THEN NULL ELSE @,
                               !.sb_count = @ - 1]
      /\ g.node = IF next = NULL THEN h.node ELSE [h.node EXCEPT ![next].prev = NULL]
      /\ g = [con |-> g.con, node |-> g.node]
      BY DEF WithoutFirst
<1> HIDE DEF g, next, t
<1>6. /\ g.con.sb_first = next /\ g.con.sb_count = m
      /\ g.con.sb_last = IF next = NULL THEN NULL ELSE h.con.sb_last
      /\ g.con.sb_pos = h.con.sb_pos /\ SameSettings(g, h) /\ g.con \in Cons
  <2>1. h.con.sb_count = n BY DEF ListOf, Chained
  <2> QED BY <1>1, <1>2, <1>5, <2>1, NullIsNoLine DEF Cons, SameSettings
<1>7. g.node \in Nodes
  <2>1. CASE next = NULL BY <1>1, <1>5, <2>1
  <2>2. CASE next # NULL
    <3>1. next \in Line BY <1>2, <2>2 DEF Lines
    <3>2. [h.node EXCEPT ![next].prev = NULL] \in Nodes
          BY <1>1, <3>1, NullIsNoLine, PointerSet
    <3> QED BY <1>5, <2>2, <3>2
  <2> QED BY <2>1, <2>2
<1>8. \A i \in 1..m : /\ g.node[t[i]].next = h.node[s[i + 1]].next
                      /\ g.node[t[i]].sb_id = h.node[s[i + 1]].sb_id
                      /\ g.node[t[i]].prev = IF i = 1 THEN NULL ELSE h.node[s[i + 1]].prev
  <2> SUFFICES ASSUME NEW i \in 1..m
               PROVE  /\ g.node[t[i]].next = h.node[s[i + 1]].next
                      /\ g.node[t[i]].sb_id = h.node[s[i + 1]].sb_id
                      /\ g.node[t[i]].prev = IF i = 1 THEN NULL ELSE h.node[s[i + 1]].prev
      OBVIOUS
  <2>1. next \in Line /\ next = s[2] /\ 2 \in 1..n BY <1>1, <1>2
  <2>2. t[i] = s[i + 1] /\ s[i + 1] \in Line BY <1>1, <1>4
  <2>3. s[i + 1] = next <=> i = 1 BY <1>1, <1>4, <2>1 DEF ListOf, Chained
  <2>4. g.node = [h.node EXCEPT ![next].prev = NULL] BY <1>5, <2>1, NullIsNoLine
  <2> QED BY <1>1, <2>1, <2>2, <2>3, <2>4 DEF Nodes
<1>9. g \in Heaps BY <1>5, <1>6, <1>7 DEF Heaps
<1>10. Chained(g, m, t)
  <2>1. \A i, j \in 1..m : t[i] = t[j] => i = j BY <1>1, <1>4 DEF ListOf, Chained
  <2>2. g.con.sb_last = IF m = 0 THEN NULL ELSE t[m]
    <3>1. h.con.sb_last = s[n] BY <1>1 DEF ListOf, Chained
    <3> QED BY <1>1, <1>3, <1>4, <1>6, <3>1
  <2>3. m > 0 => g.con.sb_first = t[1] BY <1>1, <1>2, <1>4, <1>6
  <2>4. \A i \in 1..m : g.node[t[i]].prev = IF i = 1 THEN NULL ELSE t[i - 1]
    <3> SUFFICES ASSUME NEW i \in 1..m, i # 1 PROVE g.node[t[i]].prev = t[i - 1]
        BY <1>8
    <3>1. h.node[s[i + 1]].prev = s[i] BY <1>4 DEF ListOf, Chained
    <3>2. t[i - 1] = s[i] BY <1>1, <1>4
    <3> QED BY <1>8, <3>1, <3>2
  <2>5. \A i \in 1..m : i < m => g.node[t[i]].next = t[i + 1]
    <3> SUFFICES ASSUME NEW i \in 1..m, i < m PROVE g.node[t[i]].next = t[i + 1]
        OBVIOUS
    <3>1. h.node[s[i + 1]].next = s[(i + 1) + 1] BY <1>1, <1>4 DEF ListOf, Chained
    <3>2. t[i + 1] = s[(i + 1) + 1] BY <1>1, <1>4
    <3> QED BY <1>8, <3>1, <3>2
  <2>6. \A i \in 1..m : g.node[t[i]].sb_id <= g.con.sb_last_id
    <3>1. g.con.sb_last_id = h.con.sb_last_id BY <1>6 DEF SameSettings
    <3>2. \A i \in 1..n : h.node[s[i]].sb_id <= h.con.sb_last_id BY DEF ListOf, Chained
    <3> SUFFICES ASSUME NEW i \in 1..m PROVE g.node[t[i]].sb_id <= g.con.sb_last_id
        OBVIOUS
    <3>3. g.node[t[i]].sb_id = h.node[s[i + 1]].sb_id /\ i + 1 \in 1..n BY <1>4, <1>8
    <3> QED BY <3>1, <3>2, <3>3
  <2>7. \A i, j \in 1..m : i < j => g.node[t[i]].sb_id < g.node[t[j]].sb_id
    <3>1. \A i, j \in 1..n : i < j => h.node[s[i]].sb_id < h.node[s[j]].sb_id
          BY DEF ListOf, Chained
    <3> SUFFICES ASSUME NEW i \in 1..m, NEW j \in 1..m, i < j
                 PROVE  g.node[t[i]].sb_id < g.node[t[j]].sb_id
        OBVIOUS
    <3>2. g.node[t[i]].sb_id = h.node[s[i + 1]].sb_id /\ i + 1 \in 1..n BY <1>4, <1>8
    <3>3. g.node[t[j]].sb_id = h.node[s[j + 1]].sb_id /\ j + 1 \in 1..n BY <1>4, <1>8
    <3>4. i + 1 < j + 1 OBVIOUS
    <3> QED BY <3>1, <3>2, <3>3, <3>4
  <2> QED BY <1>1, <1>4, <1>6, <1>9, <2>1, <2>2, <2>3, <2>4, <2>5, <2>6, <2>7 DEF Chained
<1>11. IF m = 0 THEN g.con.sb_first = NULL ELSE g.node[t[m]].next = NULL
  <2>1. CASE m = 0 BY <1>1, <1>3, <1>6, <2>1
  <2>2. CASE m # 0
    <3>1. g.node[t[m]].next = h.node[s[n]].next BY <1>1, <1>8, <2>2
    <3> QED BY <1>1, <2>2, <3>1 DEF ListOf
  <2> QED BY <2>1, <2>2
<1>12. \A l \in Line : g.node[l].next = h.node[l].next BY <1>1, <1>2, <1>5 DEF Nodes
<1> QED BY <1>6, <1>10, <1>11, <1>12 DEF ListOf, g, t

LEMMA LineComes ==
    ASSUME NEW h, NEW n, NEW s, ListOf(h, n, s),
           NEW line \in Line, \A i \in 1..n : s[i] # line
    PROVE  LET g == WithLast(h, line)
           IN  /\ ListOf(g, n + 1, With(n, s, line))
               /\ g.con.sb_pos = h.con.sb_pos /\ g.con.sb_last_id = h.con.sb_last_id + 1
               /\ g.con.sb_max = h.con.sb_max /\ g.con.fixed_pos = h.con.fixed_pos
<1> DEFINE g == WithLast(h, line)
           last == h.con.sb_last
           new == [next |-> NULL, prev |-> last, sb_id |-> h.con.sb_last_id + 1]
           linked == [h.node EXCEPT ![line] = new]
           t == With(n, s, line)
           m == n + 1
<1>1. /\ h \in Heaps /\ n \in Nat /\ s \in [1..n -> Line] /\ m \in Nat
      /\ h.con \in Cons /\ h.node \in Nodes /\ last \in Lines /\ h.con.sb_last_id \in Nat
      BY DEF ListOf, Chained, Heaps, Cons
<1>2. last = (IF n = 0 THEN NULL ELSE s[n]) /\ (last = NULL <=> n = 0)
      /\ (n # 0 => last \in Line /\ last # line /\ n \in 1..n)
      BY <1>1, NullIsNoLine DEF ListOf, Chained
<1>3. t \in [1..m -> Line] /\ t[m] = line /\ (\A i \in 1..n : t[i] = s[i])
      /\ (\A i \in 1..m : i = m \/ i \in 1..n) /\ m \in 1..m
      BY <1>1 DEF With
<1>4. /\ g.con = [h.con EXCEPT !.sb_last_id = @ + 1,
                               !.sb_first = IF last = NULL THEN line ELSE @,
                               !.sb_last = line,
                               !.sb_count = @ + 1]
      /\ g.node = IF last = NULL THEN linked ELSE [linked EXCEPT ![last].next = line]
      /\ g = [con |-> g.con, node |-> g.node]
      BY DEF WithLast
<1>5. new \in [next : Lines, prev : Lines, sb_id : Nat] BY <1>1, NullIsNoLine
<1>6. /\ new.next = NULL /\ new.prev = last /\ new.sb_id = h.con.sb_last_id + 1
      OBVIOUS
<1> HIDE DEF new
<1>7. linked \in Nodes /\ linked[line] = new /\ (\A l \in Line \ {line} : linked[l] = h.node[l])
      BY <1>1, <1>5 DEF Nodes
<1> HIDE DEF g, t, linked
<1>8. /\ g.con.sb_first = (IF last = NULL THEN line ELSE h.con.sb_first)
      /\ g.con.sb_count = m /\ g.con.sb_last = line
      /\ g.con.sb_pos = h.con.sb_pos /\ g.con.sb_last_id = h.con.sb_last_id + 1
      /\ g.con.sb_max = h.con.sb_max /\ g.con.fixed_pos = h.con.fixed_pos
      /\ g.con \in Cons
  <2>1. h.con.sb_count = n BY DEF ListOf, Chained
  <2> DEFINE first == IF last = NULL THEN line ELSE h.con.sb_first
  <2>2. first \in Lines BY <1>1, NullIsNoLine DEF Cons
  <2>3. g.con = [h.con EXCEPT !.sb_last_id = @ + 1, !.sb_first = first,
                             !.sb_last = line, !.sb_count = @ + 1]
        BY <1>4
  <2>4. h.con \in Cons /\ line \in Lines BY <1>1, NullIsNoLine
  <2> HIDE DEF last, first
  <2> DEFINE c == h.con
             d == g.con
  <2> HIDE DEF c, d
  <2>5. d = [sb_count |-> c.sb_count + 1, sb_first |-> first, sb_last |-> line,
             sb_max |-> c.sb_max, sb_pos |-> c.sb_pos, sb_last_id |-> c.sb_last_id + 1,
             fixed_pos |-> c.fixed_pos]
        BY <2>3, <2>4 DEF Cons, c, d
  <2>6. /\ c.sb_count \in Nat /\ c.sb_max \in Nat /\ c.sb_pos \in Lines
        /\ c.sb_last_id \in Nat /\ c.fixed_pos \in BOOLEAN
        BY <2>4 DEF Cons, c
  <2>7. /\ d \in Cons /\ d.sb_first = first /\ d.sb_last = line
        /\ d.sb_count = c.sb_count + 1 /\ d.sb_pos = c.sb_pos
        /\ d.sb_last_id = c.sb_last_id + 1
        /\ d.sb_max = c.sb_max /\ d.fixed_pos = c.fixed_pos
        BY <2>2, <2>4, <2>5, <2>6 DEF Cons
  <2> QED BY <2>1, <2>7 DEF first, c, d
<1>9. g.node \in Nodes
  <2>1. CASE last = NULL BY <1>4, <1>7, <2>1
  <2>2. CASE last # NULL
    <3>1. [linked EXCEPT ![last].next = line] \in Nodes
          BY <1>2, <1>7, <2>2, NullIsNoLine, PointerSet
    <3> QED BY <1>4, <2>2, <3>1
  <2> QED BY <2>1, <2>2
<1> HIDE DEF last
<1>10. g.node[line] = new
  <2>1. CASE last = NULL BY <1>4, <1>7, <2>1
  <2>2. CASE last # NULL
        BY <1>2, <1>4, <1>7, <2>2 DEF Nodes
  <2> QED BY <2>1, <2>2
<1>11. \A i \in 1..n : /\ g.node[s[i]].prev = h.node[s[i]].prev
                       /\ g.node[s[i]].sb_id = h.node[s[i]].sb_id
                       /\ g.node[s[i]].next = IF i = n THEN line ELSE h.node[s[i]].next
  <2> SUFFICES ASSUME NEW i \in 1..n
               PROVE  /\ g.node[s[i]].prev = h.node[s[i]].prev
                      /\ g.node[s[i]].sb_id = h.node[s[i]].sb_id
                      /\ g.node[s[i]].next = IF i = n THEN line ELSE h.node[s[i]].next
      OBVIOUS
  <2>1. last \in Line /\ last # NULL /\ last = s[n] /\ n \in 1..n BY <1>1, <1>2
  <2>2. s[i] \in Line /\ linked[s[i]] = h.node[s[i]] BY <1>1, <1>7
  <2>3. s[i] = last <=> i = n BY <2>1 DEF ListOf, Chained
  <2>4. g.node = [linked EXCEPT ![last].next = line] BY <1>4, <2>1
  <2> QED BY <1>7, <2>1, <2>2, <2>3, <2>4 DEF Nodes
<1>12. g \in Heaps BY <1>4, <1>8, <1>9 DEF Heaps
<1>13. Chained(g, m, t)
  <2>1. \A i, j \in 1..m : t[i] = t[j] => i = j BY <1>3 DEF ListOf, Chained
  <2>2. m > 0 => g.con.sb_first = t[1]
    <3>1. CASE n = 0 BY <1>2, <1>3, <1>8, <3>1
    <3>2. CASE n # 0
      <4>1. 1 \in 1..n /\ h.con.sb_first = s[1] BY <1>1, <3>2 DEF ListOf, Chained
      <4> QED BY <1>2, <1>3, <1>8, <3>2, <4>1
    <3> QED BY <3>1, <3>2
  <2>3. \A i \in 1..m : g.node[t[i]].prev = IF i = 1 THEN NULL ELSE t[i - 1]
    <3>1. ASSUME NEW i \in 1..n
          PROVE  g.node[t[i]].prev = IF i = 1 THEN NULL ELSE t[i - 1]
      <4>1. h.node[s[i]].prev = IF i = 1 THEN NULL ELSE s[i - 1] BY DEF ListOf, Chained
      <4>2. i # 1 => i - 1 \in 1..n BY <1>1
      <4> QED BY <1>3, <1>11, <4>1, <4>2
    <3>2. g.node[t[m]].prev = IF m = 1 THEN NULL ELSE t[m - 1]
      <4>1. g.node[t[m]].prev = last BY <1>3, <1>6, <1>10
      <4>2. m # 1 => n \in 1..n /\ m - 1 = n BY <1>1
      <4> QED BY <1>1, <1>2, <1>3, <4>1, <4>2
    <3> QED BY <1>3, <3>1, <3>2
  <2>4. \A i \in 1..m : i < m => g.node[t[i]].next = t[i + 1]
    <3> SUFFICES ASSUME NEW i \in 1..n PROVE g.node[t[i]].next = t[i + 1]
        BY <1>3
    <3>1. i < n => h.node[s[i]].next = s[i + 1] /\ i + 1 \in 1..n
          BY DEF ListOf, Chained
    <3>2. i = n => t[i + 1] = line BY <1>3
    <3>3. t[i] = s[i] /\ (i < n => t[i + 1] = s[i + 1]) BY <1>3, <3>1
    <3>4. i < n \/ i = n BY <1>1
    <3> QED BY <1>1, <1>11, <3>1, <3>2, <3>3, <3>4
  <2>5. ASSUME NEW i \in 1..n
        PROVE  /\ g.node[t[i]].sb_id = h.node[s[i]].sb_id
               /\ h.node[s[i]].sb_id <= h.con.sb_last_id /\ h.node[s[i]].sb_id \in Nat
    <3>1. s[i] \in Line BY <1>1
    <3>2. h.node[s[i]].sb_id \in Nat BY <1>1, <3>1 DEF Nodes
    <3>3. h.node[s[i]].sb_id <= h.con.sb_last_id BY DEF ListOf, Chained
    <3> QED BY <1>3, <1>11, <3>2, <3>3
  <2>6. g.node[t[m]].sb_id = h.con.sb_last_id + 1 BY <1>3, <1>6, <1>10
  <2>7. \A i \in 1..m : g.node[t[i]].sb_id <= g.con.sb_last_id
        BY <1>1, <1>3, <1>8, <2>5, <2>6
  <2>8. \A i, j \in 1..m : i < j => g.node[t[i]].sb_id < g.node[t[j]].sb_id
    <3>1. \A i, j \in 1..n : i < j => h.node[s[i]].sb_id < h.node[s[j]].sb_id
          BY DEF ListOf, Chained
    <3> SUFFICES ASSUME NEW i \in 1..m, NEW j \in 1..m, i < j
                 PROVE  g.node[t[i]].sb_id < g.node[t[j]].sb_id
        OBVIOUS
    <3>2. i \in 1..n BY <1>1
    <3>3. CASE j = m BY <1>1, <2>5, <2>6, <3>2, <3>3
    <3>4. CASE j \in 1..n BY <2>5, <3>1, <3>2, <3>4
    <3> QED BY <1>3, <3>3, <3>4
  <2>9. g.con.sb_last = IF m = 0 THEN NULL ELSE t[m] BY <1>1, <1>3, <1>8
  <2> QED BY <1>1, <1>3, <1>8, <1>12, <2>1, <2>2, <2>3, <2>4, <2>7, <2>8, <2>9 DEF Chained
<1>14. IF m = 0 THEN g.con.sb_first = NULL ELSE g.node[t[m]].next = NULL
       BY <1>1, <1>3, <1>6, <1>10
<1> QED BY <1>8, <1>13, <1>14 DEF ListOf, g, t

\* The view is no part of the list.
LEMMA ViewIsApart ==
    ASSUME NEW h, NEW n, NEW s, NEW p \in Lines, ListOf(h, n, s)
    PROVE  LET g == [h EXCEPT !.con.sb_pos = p]
           IN  ListOf(g, n, s) /\ g.con.sb_pos = p /\ g.node = h.node /\ SameSettings(g, h)
<1> DEFINE g == [h EXCEPT !.con.sb_pos = p]
<1>1. h \in Heaps BY DEF ListOf, Chained
<1>2. /\ g \in Heaps /\ g.node = h.node /\ g.con.sb_pos = p
      /\ g.con.sb_count = h.con.sb_count /\ g.con.sb_first = h.con.sb_first
      /\ g.con.sb_last = h.con.sb_last /\ SameSettings(g, h)
      BY <1>1 DEF Heaps, Cons, SameSettings
<1> HIDE DEF g
<1>3. g.con.sb_last_id = h.con.sb_last_id BY <1>2 DEF SameSettings
<1>4. Chained(g, n, s) BY <1>2, <1>3, ZenonT(30) DEF ListOf, Chained
<1> QED BY <1>2, <1>4 DEF ListOf, g

\* tsm_screen_resize takes the newest line, and the view off it.
LEMMA LastGoes ==
    ASSUME NEW h, NEW n, NEW s, NEW top, Chained(h, n, s), n > 0, ViewOf(h, n, s, top)
    PROVE  LET g == WithoutLast(h)
           IN  /\ Chained(g, n - 1, Front(s, n - 1))
               /\ ViewOf(g, n - 1, Front(s, n - 1), IF top < n THEN top ELSE n - 1)
               /\ SameSettings(g, h)
<1> DEFINE g == WithoutLast(h)
           m == n - 1
           t == Front(s, m)
           line == h.con.sb_last
           pos == IF h.con.sb_pos = line THEN NULL ELSE h.con.sb_pos
           last == h.node[line].prev
           N == [next : Lines, prev : Lines, sb_id : Nat]
<1>1. /\ h \in Heaps /\ n \in Nat /\ s \in [1..n -> Line] /\ m \in Nat /\ n \in 1..n
      /\ h.con \in Cons /\ h.node \in [Line -> N] /\ line = s[n] /\ line \in Line
      BY DEF Chained, Heaps, Nodes
<1>2. t \in [1..m -> Line] /\ \A i \in 1..m : t[i] = s[i] /\ i \in 1..n /\ i < n
      BY <1>1 DEF Front
<1>3. /\ g.con = [h.con EXCEPT !.sb_pos = pos, !.sb_last = last, !.sb_count = @ - 1]
      /\ g.node = [h.node EXCEPT ![line] = Fresh]
      /\ g = [con |-> g.con, node |-> g.node]
      BY DEF WithoutLast
<1>4. last = (IF n = 1 THEN NULL ELSE s[n - 1]) BY <1>1 DEF Chained
<1>5. Fresh \in N BY NullIsNoLine DEF Fresh
<1>6. last \in Lines /\ pos \in Lines
  <2>1. h.con.sb_pos \in Lines BY <1>1 DEF Cons
  <2>2. last \in Lines BY <1>1
  <2> QED BY <2>1, <2>2, NullIsNoLine
<1> HIDE DEF g, t, N
<1>7. /\ g.con \in Cons /\ g.con.sb_first = h.con.sb_first /\ g.con.sb_last = last
      /\ g.con.sb_count = m /\ g.con.sb_pos = pos /\ SameSettings(g, h)
  <2>1. h.con.sb_count = n BY DEF Chained
  <2> HIDE DEF pos, last
  <2> QED BY <1>1, <1>3, <1>6, <2>1 DEF Cons, SameSettings
<1>8. g.node \in [Line -> N] /\ \A l \in Line \ {line} : g.node[l] = h.node[l]
      BY <1>1, <1>3, <1>5
<1>9. g \in Heaps BY <1>3, <1>7, <1>8 DEF Heaps, Nodes, N
<1>10. \A i \in 1..m : g.node[t[i]] = h.node[s[i]]
  <2> SUFFICES ASSUME NEW i \in 1..m PROVE g.node[t[i]] = h.node[s[i]] OBVIOUS
  <2>1. t[i] = s[i] /\ s[i] \in Line /\ s[i] # s[n] BY <1>1, <1>2 DEF Chained
  <2> QED BY <1>1, <1>8, <2>1
<1>11. Chained(g, m, t)
  <2>1. \A i, j \in 1..m : t[i] = t[j] => i = j BY <1>2 DEF Chained
  <2>2. g.con.sb_last = IF m = 0 THEN NULL ELSE t[m] BY <1>1, <1>2, <1>4, <1>7
  <2>3. m > 0 => g.con.sb_first = t[1] BY <1>1, <1>2, <1>7 DEF Chained
  <2>4. \A i \in 1..m : g.node[t[i]].prev = IF i = 1 THEN NULL ELSE t[i - 1]
    <3> SUFFICES ASSUME NEW i \in 1..m
                 PROVE  g.node[t[i]].prev = IF i = 1 THEN NULL ELSE t[i - 1]
        OBVIOUS
    <3>1. h.node[s[i]].prev = IF i = 1 THEN NULL ELSE s[i - 1] BY <1>2 DEF Chained
    <3>2. i # 1 => t[i - 1] = s[i - 1] BY <1>1, <1>2
    <3> QED BY <1>10, <3>1, <3>2
  <2>5. \A i \in 1..m : i < m => g.node[t[i]].next = t[i + 1]
    <3> SUFFICES ASSUME NEW i \in 1..m, i < m PROVE g.node[t[i]].next = t[i + 1]
        OBVIOUS
    <3>1. h.node[s[i]].next = s[i + 1] BY <1>2 DEF Chained
    <3>2. t[i + 1] = s[i + 1] BY <1>1, <1>2
    <3> QED BY <1>10, <3>1, <3>2
  <2>6. \A i \in 1..m : g.node[t[i]].sb_id <= g.con.sb_last_id
    <3>1. g.con.sb_last_id = h.con.sb_last_id BY <1>7 DEF SameSettings
    <3>2. \A i \in 1..n : h.node[s[i]].sb_id <= h.con.sb_last_id BY DEF Chained
    <3> QED BY <1>2, <1>10, <3>1, <3>2
  <2>7. \A i, j \in 1..m : i < j => g.node[t[i]].sb_id < g.node[t[j]].sb_id
    <3>1. \A i, j \in 1..n : i < j => h.node[s[i]].sb_id < h.node[s[j]].sb_id
          BY DEF Chained
    <3> QED BY <1>2, <1>10, <3>1
  <2> QED BY <1>1, <1>2, <1>7, <1>9, <2>1, <2>2, <2>3, <2>4, <2>5, <2>6, <2>7 DEF Chained
<1>12. ViewOf(g, m, t, IF top < n THEN top ELSE m)
  <2>1. top \in 0..n /\ h.con.sb_pos = IF top = n THEN NULL ELSE s[top + 1] BY DEF ViewOf
  <2>2. CASE top = n BY <1>1, <1>7, <2>1, <2>2, NullIsNoLine DEF ViewOf
  <2>3. CASE top = m BY <1>1, <1>7, <2>1, <2>3 DEF ViewOf
  <2>4. CASE top < m
    <3>1. top + 1 \in 1..m /\ top + 1 # n /\ top + 1 \in 1..n BY <1>1, <2>1, <2>4
    <3>2. s[top + 1] # line /\ t[top + 1] = s[top + 1] BY <1>1, <1>2, <3>1 DEF Chained
    <3>3. h.con.sb_pos = s[top + 1] /\ top # m /\ top < n /\ top \in 0..m BY <1>1, <2>1, <2>4
    <3> QED BY <1>7, <3>2, <3>3 DEF ViewOf
  <2> QED BY <1>1, <2>1, <2>2, <2>3, <2>4
<1> QED BY <1>7, <1>11, <1>12 DEF g, t

LEMMA Closing ==
    ASSUME NEW h, NEW n, NEW s, NEW top, Chained(h, n, s), ViewOf(h, n, s, top)
    PROVE  LET g == Closed(h)
           IN  ListOf(g, n, s) /\ ViewOf(g, n, s, top) /\ SameSettings(g, h)
<1> DEFINE g == Closed(h)
           last == h.con.sb_last
<1>1. /\ h \in Heaps /\ n \in Nat /\ s \in [1..n -> Line]
      /\ h.con \in Cons /\ h.node \in Nodes
      /\ last = IF n = 0 THEN NULL ELSE s[n]
      BY DEF Chained, Heaps
<1>2. CASE n = 0
  <2>1. g = [h EXCEPT !.con.sb_first = NULL] BY <1>1, <1>2 DEF Closed
  <2>2. /\ g \in Heaps /\ g.con.sb_first = NULL /\ g.con.sb_count = h.con.sb_count
        /\ g.con.sb_last = h.con.sb_last /\ g.con.sb_pos = h.con.sb_pos /\ SameSettings(g, h)
        /\ g.node = h.node
        BY <1>1, <2>1, NullIsNoLine DEF Heaps, Cons, SameSettings
  <2> HIDE DEF g
  <2>3. g.con.sb_last_id = h.con.sb_last_id BY <2>2 DEF SameSettings
  <2>4. Chained(g, n, s) BY <1>2, <2>2, <2>3 DEF Chained
  <2> QED BY <1>2, <2>2, <2>4 DEF ListOf, ViewOf, g
<1>3. CASE n # 0
  <2>1. last = s[n] /\ last \in Line /\ last # NULL /\ n \in 1..n BY <1>1, <1>3, NullIsNoLine
  <2>2. g = [h EXCEPT !.node[last].next = NULL] BY <2>1 DEF Closed
  <2>3. [h.node EXCEPT ![last].next = NULL] \in Nodes
        BY <1>1, <2>1, NullIsNoLine, PointerSet
  <2>4. g.con = h.con /\ g.node = [h.node EXCEPT ![last].next = NULL] /\ g \in Heaps
        BY <1>1, <2>2, <2>3 DEF Heaps
  <2>5. \A l \in Line : /\ g.node[l].prev = h.node[l].prev
                        /\ g.node[l].sb_id = h.node[l].sb_id
                        /\ g.node[l].next = IF l = last THEN NULL ELSE h.node[l].next
        BY <1>1, <2>1, <2>4 DEF Nodes
  <2> HIDE DEF g
  <2>6. \A i \in 1..n : /\ s[i] \in Line /\ (s[i] = last <=> i = n)
                        /\ g.node[s[i]].prev = h.node[s[i]].prev
                        /\ g.node[s[i]].sb_id = h.node[s[i]].sb_id
                        /\ g.node[s[i]].next = IF i = n THEN NULL ELSE h.node[s[i]].next
        BY <1>1, <2>1, <2>5 DEF Chained
  <2>7. Chained(g, n, s) BY <2>4, <2>6 DEF Chained
  <2> QED BY <1>3, <2>1, <2>4, <2>6, <2>7 DEF ListOf, ViewOf, SameSettings, g
<1> QED BY <1>2, <1>3

\* tsm_screen_set_max_sb drops the oldest line, and the view goes to the next.
LEMMA OldestGoes ==
    ASSUME NEW h, NEW n, NEW s, NEW top, ListOf(h, n, s), n > 0, ViewOf(h, n, s, top)
    PROVE  LET g == WithoutOldest(h)
           IN  /\ ListOf(g, n - 1, Behind(n, s, 1))
               /\ ViewOf(g, n - 1, Behind(n, s, 1), IF top = 0 THEN 0 ELSE top - 1)
               /\ SameSettings(g, h)
<1> DEFINE r == WithoutFirst(h)
           t == Behind(n, s, 1)
           p == IF r.con.sb_pos = h.con.sb_first THEN r.con.sb_first ELSE r.con.sb_pos
           g == [r EXCEPT !.con.sb_pos = p]
<1>1. ListOf(r, n - 1, t) /\ r.con.sb_pos = h.con.sb_pos /\ SameSettings(r, h) BY FirstGoes
<1>2. n \in Nat /\ s \in [1..n -> Line] /\ 1 \in 1..n /\ h.con.sb_first = s[1]
      BY DEF ListOf, Chained
<1>3. WithoutOldest(h) = g BY DEF WithoutOldest
<1> HIDE DEF r
<1>4. p \in Lines BY <1>1 DEF ListOf, Chained, Heaps, Cons
<1>5. ListOf(g, n - 1, t) /\ g.con.sb_pos = p /\ SameSettings(g, r) BY <1>1, <1>4, ViewIsApart
<1>6. top \in 0..n /\ h.con.sb_pos = IF top = n THEN NULL ELSE s[top + 1] BY DEF ViewOf
<1>7. r.con.sb_first = IF n - 1 = 0 THEN NULL ELSE t[1] BY <1>1, <1>2 DEF ListOf, Chained
<1>8. \A i \in 1..(n - 1) : t[i] = s[i + 1] BY DEF Behind
<1> HIDE DEF g, t
<1>9. ViewOf(g, n - 1, t, IF top = 0 THEN 0 ELSE top - 1)
  <2>1. CASE top = 0
    <3>1. p = r.con.sb_first BY <1>1, <1>2, <1>6, <2>1
    <3> QED BY <1>2, <1>5, <1>7, <2>1, <3>1 DEF ViewOf
  <2>2. CASE top # 0 /\ top < n
    <3>1. top + 1 \in 1..n /\ top \in 1..(n - 1) /\ top - 1 \in 0..(n - 1) /\ top - 1 # n - 1
          /\ (top - 1) + 1 = top /\ top + 1 # 1
          BY <1>2, <1>6, <2>2
    <3>2. h.con.sb_pos = s[top + 1] /\ s[top + 1] # s[1]
          BY <1>2, <1>6, <2>2, <3>1 DEF ListOf, Chained
    <3>3. p = t[top] BY <1>1, <1>2, <1>8, <3>1, <3>2
    <3> QED BY <1>5, <2>2, <3>1, <3>3 DEF ViewOf
  <2>3. CASE top # 0 /\ top = n
    <3>1. p = NULL BY <1>1, <1>2, <1>6, <2>3, NullIsNoLine
    <3> QED BY <1>2, <1>5, <2>3, <3>1 DEF ViewOf
  <2> QED BY <1>2, <1>6, <2>1, <2>2, <2>3
<1> QED BY <1>1, <1>3, <1>5, <1>9 DEF SameSettings, t

\* Where the view is after a line has come to a scrollback of at most max lines.
TopAfter(n, top, full, fixed) ==
    IF top = n THEN (IF full THEN n ELSE n + 1)
    ELSE IF full /\ fixed /\ top > 0 THEN top - 1 ELSE top

LEMMA LineComesInView ==
    ASSUME NEW h, NEW n, NEW s, NEW top, ListOf(h, n, s), ViewOf(h, n, s, top),
           NEW line \in Line, \A i \in 1..n : s[i] # line
    PROVE  ViewOf(WithLast(h, line), n + 1, With(n, s, line), IF top = n THEN n + 1 ELSE top)
<1> DEFINE g == WithLast(h, line)
           t == With(n, s, line)
<1>1. g.con.sb_pos = h.con.sb_pos BY LineComes
<1>2. n \in Nat /\ top \in 0..n /\ h.con.sb_pos = IF top = n THEN NULL ELSE s[top + 1]
      BY DEF ViewOf, ListOf, Chained
<1>3. \A i \in 1..n : t[i] = s[i] BY <1>2 DEF With
<1> HIDE DEF g, t
<1>4. CASE top = n BY <1>1, <1>2, <1>4 DEF ViewOf, g, t
<1>5. CASE top < n
  <2>1. top + 1 \in 1..n /\ top # n /\ top # n + 1 /\ top \in 0..(n + 1) BY <1>2, <1>5
  <2>2. g.con.sb_pos = t[top + 1] BY <1>1, <1>2, <1>3, <2>1
  <2> QED BY <2>1, <2>2 DEF ViewOf, g, t
<1> QED BY <1>2, <1>4, <1>5

\* link_to_scrollback, full: the view that is not fixed moves to the next line, which
\* is the new one after the newest.
LEMMA LinePushesOut ==
    ASSUME NEW n, NEW s, NEW top, ListOf(Heap, n, s), ViewOf(Heap, n, s, top), n > 0,
           NEW line \in Line, \A i \in 1..n : s[i] # line
    PROVE  LET t == With(n - 1, Behind(n, s, 1), line)
               g == WithLast(MovedView(WithoutFirst(Heap), line), line)
           IN  /\ ListOf(g, n, t) /\ ViewOf(g, n, t, TopAfter(n, top, TRUE, con.fixed_pos))
               /\ g.con.sb_max = con.sb_max /\ g.con.fixed_pos = con.fixed_pos
               /\ g.con.sb_last_id = con.sb_last_id + 1
<1> DEFINE r == WithoutFirst(Heap)
           m == n - 1
           u == Behind(n, s, 1)
           t == With(m, u, line)
           v == MovedView(r, line)
           pos == r.con.sb_pos
           next == IF r.node[pos].next # NULL THEN r.node[pos].next ELSE line
           g == WithLast(v, line)
           to == TopAfter(n, top, TRUE, con.fixed_pos)
<1>0. Heap.con = con /\ Heap.node = node BY DEF Heap
<1>1. /\ ListOf(r, m, u) /\ pos = con.sb_pos /\ SameSettings(r, Heap)
      /\ \A l \in Line : r.node[l].next = node[l].next
      BY <1>0, FirstGoes
<1>2. n \in Nat /\ m \in Nat /\ s \in [1..n -> Line] /\ 1 \in 1..n /\ con.sb_first = s[1]
      BY <1>0 DEF ListOf, Chained
<1>3. \A i \in 1..m : u[i] = s[i + 1] /\ i + 1 \in 1..n BY <1>2 DEF Behind
<1>4. top \in 0..n /\ pos = IF top = n THEN NULL ELSE s[top + 1] BY <1>0, <1>1 DEF ViewOf
<1>5. r.con.fixed_pos = con.fixed_pos BY <1>0, <1>1 DEF SameSettings
<1>6. v = IF pos = NULL \/ (pos # s[1] /\ con.fixed_pos) THEN r
          ELSE [r EXCEPT !.con.sb_pos = next]
      BY <1>0, <1>2, <1>5 DEF MovedView
<1>7. \A i \in 1..m : t[i] = u[i] BY <1>2 DEF With
<1>8. t[n] = line BY <1>2 DEF With
<1> HIDE DEF r, u, t, v
<1>9. \A i \in 1..m : u[i] # line BY <1>3
<1>10. top < n => top + 1 \in 1..n /\ pos = s[top + 1] /\ pos \in Line /\ pos # NULL
       BY <1>2, <1>4, NullIsNoLine
<1>11. top < n => (pos = s[1] <=> top = 0)
  <2>1. \A i \in 1..n : s[i] = s[1] => i = 1 BY <1>2 DEF ListOf, Chained
  <2>2. top \in Nat BY <1>2, <1>4
  <2> HIDE DEF pos
  <2> QED BY <1>10, <2>1, <2>2
<1>12. top < n => next = t[top + 1] /\ next \in Lines
  <2> SUFFICES ASSUME top < n PROVE next = t[top + 1] /\ next \in Lines OBVIOUS
  <2>1. r.node[pos].next = node[s[top + 1]].next BY <1>1, <1>10
  <2>2. CASE top + 1 = n
    <3>1. node[s[n]].next = NULL BY <1>0, <1>2 DEF ListOf
    <3> QED BY <1>8, <2>1, <2>2, <3>1, NullIsNoLine
  <2>3. CASE top + 1 < n
    <3>1. node[s[top + 1]].next = s[(top + 1) + 1] BY <1>0, <1>10, <2>3 DEF ListOf, Chained
    <3>2. top + 1 \in 1..m BY <1>2, <1>4, <2>3
    <3>3. s[(top + 1) + 1] = t[top + 1] /\ s[(top + 1) + 1] \in Line BY <1>2, <1>3, <1>7, <3>2
    <3> QED BY <2>1, <3>1, <3>3, NullIsNoLine
  <2> QED BY <1>4, <1>2, <2>2, <2>3
<1>17. top \in Nat /\ top <= n BY <1>2, <1>4
<1> HIDE DEF pos, next, g, to
<1>13. /\ ListOf(v, m, u) /\ SameSettings(v, r)
       /\ v.con.sb_pos = IF to = n THEN NULL ELSE t[to + 1]
       /\ to \in 0..n
  <2>1. CASE top = n
    <3>1. v = r /\ pos = NULL /\ to = n BY <1>4, <1>6, <2>1 DEF TopAfter, to
    <3> QED BY <1>1, <1>2, <3>1 DEF SameSettings, pos
  <2>2. CASE top < n /\ top > 0 /\ con.fixed_pos
    <3>1. v = r BY <1>6, <1>10, <1>11, <2>2
    <3>2. to = top - 1 BY <1>4, <2>2 DEF TopAfter, to
    <3>3. top \in 1..m /\ to \in 0..n /\ to # n /\ to + 1 = top BY <1>2, <1>17, <2>2, <3>2
    <3>4. pos = t[top] BY <1>3, <1>7, <1>10, <2>2, <3>3
    <3> QED BY <1>1, <3>1, <3>3, <3>4 DEF SameSettings, pos
  <2>3. CASE top < n /\ ~(top > 0 /\ con.fixed_pos)
    <3>1. v = [r EXCEPT !.con.sb_pos = next] BY <1>4, <1>6, <1>10, <1>11, <2>3
    <3>2. to = top BY <1>17, <2>3 DEF TopAfter, to
    <3>3. ListOf(v, m, u) /\ SameSettings(v, r) /\ v.con.sb_pos = next
          BY <1>1, <1>12, <2>3, <3>1, ViewIsApart
    <3> QED BY <1>2, <1>17, <1>12, <2>3, <3>2, <3>3
  <2> QED BY <1>2, <1>17, <2>1, <2>2, <2>3
<1>14. /\ ListOf(g, m + 1, t) /\ g.con.sb_pos = v.con.sb_pos
       /\ g.con.sb_last_id = v.con.sb_last_id + 1
       /\ g.con.sb_max = v.con.sb_max /\ g.con.fixed_pos = v.con.fixed_pos
       BY <1>9, <1>13, LineComes DEF t, g
<1>15. m + 1 = n BY <1>2
<1> HIDE DEF g, m
<1>16. ViewOf(g, n, t, to) BY <1>13, <1>14 DEF ViewOf
<1> QED BY <1>0, <1>1, <1>13, <1>14, <1>15, <1>16 DEF SameSettings, g, v, r, t, u, m, to

-----------------------------------------------------------------------------
(* Going along the list. *)

LEMMA BehindNone ==
    ASSUME NEW n \in Nat, NEW s \in [1..n -> Line]
    PROVE  Behind(n, s, 0) = s /\ Front(s, n) = s
<1>1. 1..(n - 0) = 1..n /\ \A i \in 1..n : i + 0 = i OBVIOUS
<1>2. Behind(n, s, 0) = [i \in 1..n |-> s[i]] BY <1>1 DEF Behind
<1> QED BY <1>2 DEF Front

LEMMA BehindMore ==
    ASSUME NEW n \in Nat, NEW s, NEW k \in Nat, k < n
    PROVE  /\ Behind(n - k, Behind(n, s, k), 1) = Behind(n, s, k + 1)
           /\ Front(Front(s, n - k), n - (k + 1)) = Front(s, n - (k + 1))
<1>1. (n - k) - 1 = n - (k + 1) OBVIOUS
<1>2. \A i \in 1..(n - (k + 1)) : /\ i + 1 \in 1..(n - k) /\ i \in 1..(n - k)
                                  /\ (i + 1) + k = i + (k + 1)
      OBVIOUS
<1>3. \A i \in 1..(n - (k + 1)) : Behind(n, s, k)[i + 1] = s[i + (k + 1)]
      BY <1>2 DEF Behind
<1>4. \A i \in 1..(n - (k + 1)) : Front(s, n - k)[i] = s[i] BY <1>2 DEF Front
<1>5. Behind(n - k, Behind(n, s, k), 1)
        = [i \in 1..(n - (k + 1)) |-> Behind(n, s, k)[i + 1]]
      BY <1>1 DEF Behind
<1>6. Behind(n, s, k + 1) = [i \in 1..(n - (k + 1)) |-> s[i + (k + 1)]] BY DEF Behind
<1>7. Front(Front(s, n - k), n - (k + 1)) = [i \in 1..(n - (k + 1)) |-> Front(s, n - k)[i]]
      BY DEF Front
<1>8. Front(s, n - (k + 1)) = [i \in 1..(n - (k + 1)) |-> s[i]] BY DEF Front
<1> QED BY <1>3, <1>4, <1>5, <1>6, <1>7, <1>8

LEMMA ShortenedIsFront ==
    ASSUME NEW h, NEW n, NEW s, NEW top, Chained(h, n, s), ViewOf(h, n, s, top),
           NEW num \in 0..n
    PROVE  /\ Chained(Shortened(h, num), n - num, Front(s, n - num))
           /\ ViewOf(Shortened(h, num), n - num, Front(s, n - num),
                     IF top < n - num THEN top ELSE n - num)
           /\ SameSettings(Shortened(h, num), h)
<1> DEFINE step == [g \in Heaps |-> WithoutLast(g)]
           At(k) == Iterated(step, h, k)
           Least(k) == IF top < n - k THEN top ELSE n - k
           T == {k \in Nat : k <= n => /\ Chained(At(k), n - k, Front(s, n - k))
                                       /\ ViewOf(At(k), n - k, Front(s, n - k), Least(k))
                                       /\ SameSettings(At(k), h)}
<1>1. n \in Nat /\ s \in [1..n -> Line] /\ top \in 0..n BY DEF Chained, ViewOf
<1>2. At(0) = h /\ \A k \in Nat : At(k + 1) = step[At(k)] BY IteratedStep
<1>3. 0 \in T
  <2>1. n - 0 = n /\ Front(s, n) = s /\ Least(0) = top BY <1>1, BehindNone
  <2> HIDE DEF At, Least
  <2> QED BY <1>2, <2>1 DEF SameSettings
<1>4. ASSUME NEW k \in Nat, k \in T PROVE k + 1 \in T
  <2> SUFFICES ASSUME k + 1 <= n
               PROVE  /\ Chained(At(k + 1), n - (k + 1), Front(s, n - (k + 1)))
                      /\ ViewOf(At(k + 1), n - (k + 1), Front(s, n - (k + 1)), Least(k + 1))
                      /\ SameSettings(At(k + 1), h)
      OBVIOUS
  <2> DEFINE m == n - k
             t == Front(s, m)
  <2>1. Chained(At(k), m, t) /\ ViewOf(At(k), m, t, Least(k)) /\ SameSettings(At(k), h)
        BY <1>1, <1>4
  <2>2. m \in Nat /\ m > 0 /\ m - 1 = n - (k + 1) BY <1>1
  <2>3. Front(t, m - 1) = Front(s, n - (k + 1))
    <3>1. k < n BY <1>1
    <3>2. Front(Front(s, n - k), n - (k + 1)) = Front(s, n - (k + 1))
      <4> HIDE DEF m, t, At, Least
      <4> QED BY <1>1, <3>1, BehindMore
    <3> QED BY <2>2, <3>2
  <2>4. (IF Least(k) < m THEN Least(k) ELSE m - 1) = Least(k + 1) BY <1>1, <2>2
  <2>5. At(k + 1) = step[At(k)] BY <1>2
  <2> HIDE DEF At, m, t, Least
  <2>6. At(k) \in Heaps BY <2>1 DEF Chained
  <2>7. At(k + 1) = WithoutLast(At(k)) BY <2>5, <2>6
  <2>8. /\ Chained(At(k + 1), m - 1, Front(t, m - 1))
        /\ ViewOf(At(k + 1), m - 1, Front(t, m - 1), IF Least(k) < m THEN Least(k) ELSE m - 1)
        /\ SameSettings(At(k + 1), At(k))
        BY <2>1, <2>2, <2>7, LastGoes
  <2>9. SameSettings(At(k + 1), h) BY <2>1, <2>8 DEF SameSettings
  <2> QED BY <2>2, <2>3, <2>4, <2>8, <2>9
<1> HIDE DEF T
<1>5. Nat \subseteq T BY <1>3, <1>4, NatSet
<1>6. num \in T /\ num <= n BY <1>1, <1>5
<1>7. Shortened(h, num) = At(num) BY DEF Shortened
<1> QED BY <1>6, <1>7 DEF T

LEMMA LoweredIsBehind ==
    ASSUME NEW h, NEW n, NEW s, NEW top, ListOf(h, n, s), ViewOf(h, n, s, top),
           NEW num \in 0..n
    PROVE  /\ ListOf(Lowered(h, num), n - num, Behind(n, s, num))
           /\ ViewOf(Lowered(h, num), n - num, Behind(n, s, num),
                     IF top < num THEN 0 ELSE top - num)
           /\ SameSettings(Lowered(h, num), h)
<1> DEFINE step == [g \in Heaps |-> WithoutOldest(g)]
           At(k) == Iterated(step, h, k)
           Above(k) == IF top < k THEN 0 ELSE top - k
           T == {k \in Nat : k <= n => /\ ListOf(At(k), n - k, Behind(n, s, k))
                                       /\ ViewOf(At(k), n - k, Behind(n, s, k), Above(k))
                                       /\ SameSettings(At(k), h)}
<1>1. n \in Nat /\ s \in [1..n -> Line] /\ top \in 0..n BY DEF ListOf, Chained, ViewOf
<1>2. At(0) = h /\ \A k \in Nat : At(k + 1) = step[At(k)] BY IteratedStep
<1>3. 0 \in T
  <2>1. n - 0 = n /\ Behind(n, s, 0) = s /\ Above(0) = top BY <1>1, BehindNone
  <2> HIDE DEF At, Above
  <2> QED BY <1>2, <2>1 DEF SameSettings
<1>4. ASSUME NEW k \in Nat, k \in T PROVE k + 1 \in T
  <2> SUFFICES ASSUME k + 1 <= n
               PROVE  /\ ListOf(At(k + 1), n - (k + 1), Behind(n, s, k + 1))
                      /\ ViewOf(At(k + 1), n - (k + 1), Behind(n, s, k + 1), Above(k + 1))
                      /\ SameSettings(At(k + 1), h)
      OBVIOUS
  <2> DEFINE m == n - k
             t == Behind(n, s, k)
  <2>1. ListOf(At(k), m, t) /\ ViewOf(At(k), m, t, Above(k)) /\ SameSettings(At(k), h)
        BY <1>1, <1>4
  <2>2. m \in Nat /\ m > 0 /\ m - 1 = n - (k + 1) BY <1>1
  <2>3. Behind(m, t, 1) = Behind(n, s, k + 1) BY <1>1, <2>2, BehindMore
  <2>4. (IF Above(k) = 0 THEN 0 ELSE Above(k) - 1) = Above(k + 1) BY <1>1
  <2>5. At(k + 1) = step[At(k)] BY <1>2
  <2> HIDE DEF At, m, t, Above
  <2>6. At(k) \in Heaps BY <2>1 DEF ListOf, Chained
  <2>7. At(k + 1) = WithoutOldest(At(k)) BY <2>5, <2>6
  <2>8. /\ ListOf(At(k + 1), m - 1, Behind(m, t, 1))
        /\ ViewOf(At(k + 1), m - 1, Behind(m, t, 1), IF Above(k) = 0 THEN 0 ELSE Above(k) - 1)
        /\ SameSettings(At(k + 1), At(k))
        BY <2>1, <2>2, <2>7, OldestGoes
  <2>9. SameSettings(At(k + 1), h) BY <2>1, <2>8 DEF SameSettings
  <2> QED BY <2>2, <2>3, <2>4, <2>8, <2>9
<1> HIDE DEF T
<1>5. Nat \subseteq T BY <1>3, <1>4, NatSet
<1>6. num \in T /\ num <= n BY <1>1, <1>5
<1>7. Lowered(h, num) = At(num) BY DEF Lowered
<1> QED BY <1>6, <1>7 DEF T

\* k lines down the list from its line i, and past its end.
LEMMA ForwardIsLater ==
    ASSUME NEW n, NEW s, ListOf(Heap, n, s), NEW i \in 1..n, NEW k \in Nat
    PROVE  Iterated(Forward, s[i], k) = IF i + k <= n THEN s[i + k] ELSE NULL
<1> DEFINE At(j) == Iterated(Forward, s[i], j)
           T == {j \in Nat : At(j) = IF i + j <= n THEN s[i + j] ELSE NULL}
<1>1. n \in Nat /\ s \in [1..n -> Line] /\ i \in Nat BY DEF ListOf, Chained
<1>2. At(0) = s[i] /\ \A j \in Nat : At(j + 1) = Forward[At(j)] BY IteratedStep
<1>3. 0 \in T
  <2>1. i + 0 = i /\ i <= n BY <1>1
  <2> HIDE DEF At
  <2> QED BY <1>2, <2>1
<1>4. ASSUME NEW j \in Nat, j \in T PROVE j + 1 \in T
  <2>1. At(j) = IF i + j <= n THEN s[i + j] ELSE NULL BY <1>4
  <2>2. At(j + 1) = Forward[At(j)] BY <1>2
  <2>3. i + (j + 1) = (i + j) + 1 BY <1>1
  <2> HIDE DEF At
  <2>4. CASE i + j <= n
    <3>1. i + j \in 1..n /\ s[i + j] \in Line /\ s[i + j] # NULL BY <1>1, <2>4, NullIsNoLine
    <3>2. At(j + 1) = node[s[i + j]].next BY <2>1, <2>2, <2>4, <3>1, NullIsNoLine DEF Forward
    <3>3. node[s[i + j]].next = IF i + j = n THEN NULL ELSE s[(i + j) + 1]
          BY <1>1, <3>1 DEF ListOf, Chained, Heap
    <3> QED BY <1>1, <2>3, <2>4, <3>2, <3>3
  <2>5. CASE i + j > n
    <3>1. At(j + 1) = NULL BY <1>1, <2>1, <2>2, <2>5, NullIsNoLine DEF Forward
    <3> QED BY <1>1, <2>5, <3>1
  <2> QED BY <1>1, <2>4, <2>5
<1> HIDE DEF T
<1>5. Nat \subseteq T BY <1>3, <1>4, NatSet
<1> QED BY <1>5 DEF T

LEMMA ForwardFromNull ==
    ASSUME NEW k \in Nat PROVE Iterated(Forward, NULL, k) = NULL
<1> DEFINE T == {j \in Nat : Iterated(Forward, NULL, j) = NULL}
<1>1. 0 \in T BY IteratedStep
<1>2. ASSUME NEW j \in Nat, j \in T PROVE j + 1 \in T
  <2>1. Iterated(Forward, NULL, j + 1) = Forward[Iterated(Forward, NULL, j)] BY IteratedStep
  <2> QED BY <1>2, <2>1, NullIsNoLine DEF Forward
<1> HIDE DEF T
<1>3. Nat \subseteq T BY <1>1, <1>2, NatSet
<1> QED BY <1>3 DEF T

LEMMA BackwardIsEarlier ==
    ASSUME NEW n, NEW s, ListOf(Heap, n, s), n > 0, NEW k \in Nat, k < n
    PROVE  Earlier(con.sb_last, k) = s[n - k]
<1> DEFINE At(j) == Iterated(Backward, s[n], j)
           T == {j \in Nat : j < n => At(j) = s[n - j]}
<1>1. n \in Nat /\ s \in [1..n -> Line] /\ con.sb_last = s[n] BY DEF ListOf, Chained, Heap
<1>2. At(0) = s[n] /\ \A j \in Nat : At(j + 1) = Backward[At(j)] BY IteratedStep
<1>3. 0 \in T
  <2>1. n - 0 = n BY <1>1
  <2> HIDE DEF At
  <2> QED BY <1>2, <2>1
<1>4. ASSUME NEW j \in Nat, j \in T PROVE j + 1 \in T
  <2> SUFFICES ASSUME j + 1 < n PROVE At(j + 1) = s[n - (j + 1)] OBVIOUS
  <2>1. At(j) = s[n - j] /\ At(j + 1) = Backward[At(j)] BY <1>1, <1>2, <1>4
  <2> HIDE DEF At
  <2>2. n - j \in 1..n /\ n - j # 1 /\ (n - j) - 1 = n - (j + 1) BY <1>1
  <2>3. s[n - j] \in Line /\ s[n - j] # NULL BY <1>1, <2>2, NullIsNoLine
  <2>4. At(j + 1) = node[s[n - j]].prev BY <2>1, <2>3, NullIsNoLine DEF Backward
  <2>5. node[s[n - j]].prev = s[(n - j) - 1] BY <2>2 DEF ListOf, Chained, Heap
  <2> QED BY <2>2, <2>4, <2>5
<1> HIDE DEF T
<1>5. Nat \subseteq T BY <1>3, <1>4, NatSet
<1> QED BY <1>1, <1>5 DEF T, Earlier

\* There are no more lines in the list than in memory.
LEMMA ListFits ==
    ASSUME NEW h, NEW n, NEW s, ListOf(h, n, s)
    PROVE  n \in Nat /\ Cardinality(Line) \in Nat /\ n <= Cardinality(Line)
<1>1. n \in Nat /\ s \in [1..n -> Line] /\ \A i, j \in 1..n : s[i] = s[j] => i = j
      BY DEF ListOf, Chained
<1>2. IsFiniteSet(Line) /\ Cardinality(Line) \in Nat BY ListAssumption, FS_CardinalityType
<1>3. IsFiniteSet(1..n) /\ Cardinality(1..n) = n BY <1>1, FS_Interval
<1>4. SUFFICES ASSUME Cardinality(Line) < n PROVE FALSE BY <1>1, <1>2
<1>5. Cardinality(Line) < Cardinality(1..n) BY <1>3, <1>4
<1>6. \E x, y \in 1..n : x # y /\ s[x] = s[y] BY <1>1, <1>2, <1>3, <1>5, FS_PigeonHole
<1> QED BY <1>1, <1>6

\* Who follows the next pointers from sb_first on goes through the list.
LEMMA LinkedIs ==
    ASSUME NEW n, NEW s, ListOf(Heap, n, s)
    PROVE  Linked = s
<1> DEFINE Nth(k) == Iterated(Forward, con.sb_first, k - 1)
           size == Cardinality(Line)
           S == {k \in 1..size : Nth(k) # NULL}
<1>1. n \in Nat /\ s \in [1..n -> Line] BY DEF ListOf, Chained
<1>2. size \in Nat /\ n <= size BY ListFits
<1>3. \A k \in Nat \ {0} : Nth(k) = IF k <= n THEN s[k] ELSE NULL
  <2> SUFFICES ASSUME NEW k \in Nat \ {0} PROVE Nth(k) = IF k <= n THEN s[k] ELSE NULL
      OBVIOUS
  <2>1. k - 1 \in Nat /\ 1 + (k - 1) = k OBVIOUS
  <2>2. CASE n = 0
    <3>1. con.sb_first = NULL BY <2>2 DEF ListOf, Heap
    <3>2. Iterated(Forward, NULL, k - 1) = NULL BY <2>1, ForwardFromNull
    <3> QED BY <2>2, <3>1, <3>2
  <2>3. CASE n # 0
    <3>1. con.sb_first = s[1] /\ 1 \in 1..n BY <1>1, <2>3 DEF ListOf, Chained, Heap
    <3> DEFINE i == 1
               j == k - 1
    <3>2. i \in 1..n /\ j \in Nat /\ i + j = k BY <2>1, <3>1
    <3> HIDE DEF i, j
    <3>3. Iterated(Forward, s[i], j) = IF i + j <= n THEN s[i + j] ELSE NULL
          BY <3>2, ForwardIsLater
    <3> QED BY <3>1, <3>2, <3>3 DEF i, j
  <2> QED BY <2>2, <2>3
<1> HIDE DEF Nth
<1>4. \A k \in 1..n : s[k] # NULL BY <1>1, NullIsNoLine
<1>5. S = 1..n BY <1>1, <1>2, <1>3, <1>4
<1>6. Cardinality(1..n) = n BY <1>1, FS_Interval
<1>7. [i \in 1..n |-> Nth(i)] = [i \in 1..n |-> s[i]] BY <1>1, <1>3
<1>8. [i \in 1..Cardinality(S) |-> Nth(i)] = s BY <1>1, <1>5, <1>6, <1>7
<1> QED BY <1>8 DEF Linked, Nth

\* What the gadget is told of the view is how many lines are above it.
LEMMA SbTopIs ==
    ASSUME NEW n, NEW s, NEW top, ListOf(Heap, n, s), ViewOf(Heap, n, s, top)
    PROVE  SbTop = top
<1>1. n \in Nat /\ s \in [1..n -> Line] /\ con.sb_count = n /\ DOMAIN s = 1..n
      /\ \A i, j \in 1..n : s[i] = s[j] => i = j
      BY DEF ListOf, Chained, Heap
<1>2. top \in 0..n /\ con.sb_pos = IF top = n THEN NULL ELSE s[top + 1] BY DEF ViewOf, Heap
<1>3. Linked = s BY LinkedIs
<1>4. CASE top = n BY <1>1, <1>2, <1>4 DEF SbTop
<1>5. CASE top # n
  <2> DEFINE S == {i \in DOMAIN s : \A j \in 1..i : s[j] # con.sb_pos}
  <2>1. top + 1 \in 1..n /\ con.sb_pos = s[top + 1] /\ con.sb_pos # NULL
        BY <1>1, <1>2, <1>5, NullIsNoLine
  <2>2. ASSUME NEW i \in 1..n PROVE i \in S <=> i <= top
    <3>1. ASSUME i <= top, NEW j \in 1..i PROVE s[j] # con.sb_pos
          BY <1>1, <1>2, <2>1, <3>1
    <3>2. ASSUME i > top PROVE \E j \in 1..i : s[j] = con.sb_pos
      <4>1. top + 1 \in 1..i BY <1>2, <3>2
      <4> QED BY <2>1, <4>1
    <3> QED BY <1>1, <1>2, <3>1, <3>2
  <2>3. S = 1..top BY <1>1, <1>2, <2>2
  <2>4. top \in Nat /\ Cardinality(1..top) = top BY <1>1, <1>2, FS_Interval
  <2>5. SbTop = Cardinality(S) BY <1>3, <2>1 DEF SbTop
  <2> QED BY <2>3, <2>4, <2>5
<1> QED BY <1>4, <1>5

\* k lines up the list from its line i, and no further than its oldest.
LEMMA OlderIsEarlier ==
    ASSUME NEW n, NEW s, ListOf(Heap, n, s), NEW i \in 1..n, NEW k \in Nat
    PROVE  LET older == [line \in Line |-> IF node[line].prev = NULL THEN line
                                           ELSE node[line].prev]
           IN  Iterated(older, s[i], k) = IF k < i THEN s[i - k] ELSE s[1]
<1> DEFINE older == [line \in Line |-> IF node[line].prev = NULL THEN line
                                       ELSE node[line].prev]
           At(j) == Iterated(older, s[i], j)
           T == {j \in Nat : At(j) = IF j < i THEN s[i - j] ELSE s[1]}
<1>1. n \in Nat /\ s \in [1..n -> Line] /\ i \in Nat /\ 0 < i /\ i <= n BY DEF ListOf, Chained
<1>2. \A j \in 1..n : /\ s[j] \in Line /\ s[j] # NULL
                      /\ older[s[j]] = IF j = 1 THEN s[1] ELSE s[j - 1]
  <2> SUFFICES ASSUME NEW j \in 1..n
               PROVE  /\ s[j] \in Line /\ s[j] # NULL
                      /\ older[s[j]] = IF j = 1 THEN s[1] ELSE s[j - 1]
      OBVIOUS
  <2>1. s[j] \in Line /\ s[j] # NULL BY <1>1, NullIsNoLine
  <2>2. node[s[j]].prev = IF j = 1 THEN NULL ELSE s[j - 1] BY DEF ListOf, Chained, Heap
  <2>3. j # 1 => j - 1 \in 1..n /\ s[j - 1] # NULL BY <1>1, NullIsNoLine
  <2> QED BY <2>1, <2>2, <2>3
<1> HIDE DEF older
<1>3. At(0) = s[i] /\ \A j \in Nat : At(j + 1) = older[At(j)] BY IteratedStep
<1>4. 0 \in T
  <2>1. i - 0 = i BY <1>1
  <2> HIDE DEF At
  <2> QED BY <1>1, <1>3, <2>1
<1>5. ASSUME NEW j \in Nat, j \in T PROVE j + 1 \in T
  <2>1. At(j) = (IF j < i THEN s[i - j] ELSE s[1]) /\ At(j + 1) = older[At(j)] BY <1>3, <1>5
  <2> HIDE DEF At
  <2>2. CASE j + 1 < i
    <3>1. i - j \in 1..n /\ i - j # 1 /\ (i - j) - 1 = i - (j + 1) /\ j < i BY <1>1, <2>2
    <3> QED BY <1>2, <2>1, <2>2, <3>1
  <2>3. CASE j + 1 = i
    <3>1. i - j = 1 /\ j < i /\ 1 \in 1..n BY <1>1, <2>3
    <3> QED BY <1>1, <1>2, <2>1, <2>3, <3>1
  <2>4. CASE j + 1 > i
    <3>1. ~(j < i) /\ 1 \in 1..n BY <1>1, <2>4
    <3> QED BY <1>1, <1>2, <2>1, <2>4, <3>1
  <2> QED BY <1>1, <2>2, <2>3, <2>4
<1> HIDE DEF T
<1>6. Nat \subseteq T BY <1>4, <1>5, NatSet
<1> QED BY <1>6 DEF T, older

-----------------------------------------------------------------------------
(* Lists as sequences. *)

LEMMA ListIsSeq ==
    ASSUME NEW n \in Nat, NEW s \in [1..n -> Line]
    PROVE  s \in Seq(Line) /\ Len(s) = n /\ DOMAIN s = 1..n
OBVIOUS

LEMMA Joined ==
    ASSUME NEW n \in Nat, NEW s \in [1..n -> Line],
           NEW m \in Nat, NEW t \in [1..m -> Line]
    PROVE  s \o t = [i \in 1..(n + m) |-> IF i <= n THEN s[i] ELSE t[i - n]]
<1>1. s \in Seq(Line) /\ t \in Seq(Line) /\ Len(s) = n /\ Len(t) = m BY ListIsSeq
<1> DEFINE u == s \o t
<1>2. u \in Seq(Line) /\ Len(u) = n + m BY <1>1
<1>3. \A i \in 1..(n + m) : u[i] = IF i <= n THEN s[i] ELSE t[i - n] BY <1>1
<1> HIDE DEF u
<1>4. u = [i \in 1..(n + m) |-> u[i]] BY <1>2
<1>5. u = [i \in 1..(n + m) |-> IF i <= n THEN s[i] ELSE t[i - n]] BY <1>3, <1>4
<1> QED BY <1>5 DEF u

LEMMA JoinedOne ==
    ASSUME NEW n \in Nat, NEW s \in [1..n -> Line], NEW line \in Line
    PROVE  s \o <<line>> = With(n, s, line)
BY ListIsSeq DEF With

LEMMA CutBehind ==
    ASSUME NEW n \in Nat, NEW s \in [1..n -> Line], NEW k \in 0..n
    PROVE  SubSeq(s, k + 1, n) = Behind(n, s, k) /\ Behind(n, s, k) \in [1..(n - k) -> Line]
<1>1. \A i \in 1..(n - k) : i + (k + 1) - 1 = i + k /\ i + k \in 1..n OBVIOUS
<1>2. n - (k + 1) + 1 = n - k OBVIOUS
<1> QED BY <1>1, <1>2, ListIsSeq DEF Behind

LEMMA CutFront ==
    ASSUME NEW n \in Nat, NEW s \in [1..n -> Line], NEW k \in 0..n
    PROVE  SubSeq(s, 1, k) = Front(s, k) /\ Front(s, k) \in [1..k -> Line]
BY ListIsSeq DEF Front

LEMMA ScreenScrolls ==
    ASSUME NEW scr \in [1..Size_y -> Line], NEW new \in Line
    PROVE  /\ Head(scr) = scr[1]
           /\ Append(Tail(scr), new) = [i \in 1..Size_y |-> IF i = Size_y THEN new ELSE scr[i + 1]]
<1>1. scr \in Seq(Line) /\ Len(scr) = Size_y /\ Size_y \in Nat \ {0}
      BY ListAssumption, ListIsSeq
<1>2. /\ Tail(scr) \in Seq(Line) /\ Len(Tail(scr)) = Size_y - 1
      /\ \A i \in 1..(Size_y - 1) : Tail(scr)[i] = scr[i + 1]
      BY <1>1
<1> DEFINE t == Tail(scr)
           u == Append(t, new)
<1> HIDE DEF t
<1>3. u \in Seq(Line) /\ Len(u) = Size_y /\ u[Size_y] = new
      /\ \A i \in 1..(Size_y - 1) : u[i] = t[i]
      BY <1>1, <1>2 DEF t
<1> HIDE DEF u
<1>4. u = [i \in 1..Size_y |-> u[i]] BY <1>3
<1>5. \A i \in 1..Size_y : u[i] = IF i = Size_y THEN new ELSE scr[i + 1]
      BY <1>1, <1>2, <1>3 DEF t
<1>6. u = [i \in 1..Size_y |-> IF i = Size_y THEN new ELSE scr[i + 1]] BY <1>4, <1>5
<1>7. Head(scr) = scr[1] BY <1>1
<1> QED BY <1>6, <1>7 DEF u, t

-----------------------------------------------------------------------------
(* Memory. *)

\* Every line is in one place: in the list, on the screen scr or in the set fr of
\* those that are not allocated.
Places(scr, fr, n, s) ==
    /\ scr \in [1..Size_y -> Line] /\ fr \subseteq Line
    /\ \A i, j \in 1..Size_y : scr[i] = scr[j] => i = j
    /\ \A i \in 1..n, j \in 1..Size_y : s[i] # scr[j]
    /\ \A l \in Line : (l \in fr) <=> (/\ \A i \in 1..n : s[i] # l
                                       /\ \A j \in 1..Size_y : scr[j] # l)

\* The screen after a scroll that lets `new` in.
Scrolled(scr, new) == [i \in 1..Size_y |-> IF i = Size_y THEN new ELSE scr[i + 1]]

LEMMA ScreenIsPlaced ==
    ASSUME NEW scr, NEW fr, NEW n, NEW s, Places(scr, fr, n, s), NEW new \in fr
    PROVE  /\ Scrolled(scr, new) \in [1..Size_y -> Line]
           /\ scr[1] \in Line /\ new \in Line /\ scr[1] # new
           /\ \A i \in 1..n : s[i] # scr[1] /\ s[i] # new
           /\ \A i, j \in 1..Size_y : Scrolled(scr, new)[i] = Scrolled(scr, new)[j] => i = j
           /\ \A i \in 1..n, j \in 1..Size_y : s[i] # Scrolled(scr, new)[j]
           /\ \A l \in Line : (\A j \in 1..Size_y : Scrolled(scr, new)[j] # l)
                               <=> (l # new /\ \A j \in 2..Size_y : scr[j] # l)
           /\ \A l \in Line : (\A j \in 1..Size_y : scr[j] # l)
                               <=> (l # scr[1] /\ \A j \in 2..Size_y : scr[j] # l)
<1> DEFINE t == Scrolled(scr, new)
<1>1. Size_y \in Nat /\ Size_y > 0 /\ 1 \in 1..Size_y /\ Size_y \in 1..Size_y
      BY ListAssumption
<1>2. /\ scr \in [1..Size_y -> Line] /\ new \in Line
      /\ \A i, j \in 1..Size_y : scr[i] = scr[j] => i = j
      /\ \A j \in 1..Size_y : scr[j] # new
      /\ \A i \in 1..n : s[i] # new
      /\ \A i \in 1..n, j \in 1..Size_y : s[i] # scr[j]
      BY DEF Places
<1>3. \A i \in 1..Size_y : IF i = Size_y THEN t[i] = new
                           ELSE i + 1 \in 1..Size_y /\ t[i] = scr[i + 1]
      BY <1>1 DEF Scrolled
<1>4. t \in [1..Size_y -> Line] BY <1>1, <1>2 DEF Scrolled
<1> HIDE DEF t
<1>5. \A i, j \in 1..Size_y : t[i] = t[j] => i = j
  <2> SUFFICES ASSUME NEW i \in 1..Size_y, NEW j \in 1..Size_y, t[i] = t[j] PROVE i = j
      OBVIOUS
  <2>1. CASE i = Size_y BY <1>2, <1>3, <2>1
  <2>2. CASE j = Size_y BY <1>2, <1>3, <2>2
  <2>3. CASE i # Size_y /\ j # Size_y
    <3>1. i + 1 = j + 1 BY <1>2, <1>3, <2>3
    <3> QED BY <3>1
  <2> QED BY <2>1, <2>2, <2>3
<1>6. \A i \in 1..n, j \in 1..Size_y : s[i] # t[j] BY <1>2, <1>3
<1>7. \A j \in 2..Size_y : j - 1 \in 1..Size_y /\ j - 1 # Size_y /\ t[j - 1] = scr[j]
      BY <1>1, <1>3
<1>8. \A l \in Line : (\A j \in 1..Size_y : t[j] # l)
                       <=> (l # new /\ \A j \in 2..Size_y : scr[j] # l)
  <2> SUFFICES ASSUME NEW l \in Line
               PROVE  (\A j \in 1..Size_y : t[j] # l)
                       <=> (l # new /\ \A j \in 2..Size_y : scr[j] # l)
      OBVIOUS
  <2>1. ASSUME \A j \in 1..Size_y : t[j] # l PROVE l # new /\ \A j \in 2..Size_y : scr[j] # l
        BY <1>1, <1>3, <1>7, <2>1
  <2>2. ASSUME l # new, \A j \in 2..Size_y : scr[j] # l, NEW j \in 1..Size_y PROVE t[j] # l
    <3>1. j # Size_y => j + 1 \in 2..Size_y BY <1>1
    <3> QED BY <1>3, <2>2, <3>1
  <2> QED BY <2>1, <2>2
<1>9. \A l \in Line : (\A j \in 1..Size_y : scr[j] # l)
                       <=> (l # scr[1] /\ \A j \in 2..Size_y : scr[j] # l)
  <2>1. \A j \in 1..Size_y : j = 1 \/ j \in 2..Size_y BY <1>1
  <2>2. \A j \in 2..Size_y : j \in 1..Size_y BY <1>1
  <2> QED BY <1>1, <2>1, <2>2
<1> QED BY <1>1, <1>2, <1>4, <1>5, <1>6, <1>8, <1>9 DEF t

\* A line that scrolls off is freed when there is no scrollback, and linked when
\* there is.
LEMMA LineIsPlaced ==
    ASSUME NEW scr, NEW fr, NEW n \in Nat, NEW s, Places(scr, fr, n, s), NEW new \in fr
    PROVE  /\ Places(Scrolled(scr, new), (fr \ {new}) \cup {scr[1]}, n, s)
           /\ Places(Scrolled(scr, new), fr \ {new}, n + 1, With(n, s, scr[1]))
<1> DEFINE t == Scrolled(scr, new)
           line == scr[1]
           u == With(n, s, line)
<1>1. /\ t \in [1..Size_y -> Line] /\ line \in Line /\ new \in Line /\ line # new
      /\ \A i \in 1..n : s[i] # line /\ s[i] # new
      /\ \A i, j \in 1..Size_y : t[i] = t[j] => i = j
      /\ \A i \in 1..n, j \in 1..Size_y : s[i] # t[j]
      BY ScreenIsPlaced
<1>2. \A l \in Line : (\A j \in 1..Size_y : t[j] # l)
                       <=> (l # new /\ \A j \in 2..Size_y : scr[j] # l)
      BY ScreenIsPlaced
<1>3. \A l \in Line : (\A j \in 1..Size_y : scr[j] # l)
                       <=> (l # line /\ \A j \in 2..Size_y : scr[j] # l)
      BY ScreenIsPlaced
<1>4. fr \subseteq Line /\ \A l \in Line : (l \in fr) <=> (/\ \A i \in 1..n : s[i] # l
                                                           /\ \A j \in 1..Size_y : scr[j] # l)
      BY DEF Places
<1>5. /\ \A i \in 1..n : i \in 1..(n + 1) /\ u[i] = s[i]
      /\ n + 1 \in 1..(n + 1) /\ u[n + 1] = line
      /\ \A i \in 1..(n + 1) : i \in 1..n \/ i = n + 1
      BY DEF With
<1> HIDE DEF t, line, u
<1>6. line \in fr \/ \A j \in 1..Size_y : t[j] # line
  <2>1. \A j \in 2..Size_y : scr[j] # line
    <3> SUFFICES ASSUME NEW j \in 2..Size_y PROVE scr[j] # scr[1] BY DEF line
    <3>1. j \in 1..Size_y /\ 1 \in 1..Size_y /\ j # 1 BY ListAssumption
    <3> QED BY <3>1 DEF Places
  <2> QED BY <1>1, <1>2, <2>1
<1>7. Places(t, (fr \ {new}) \cup {line}, n, s)
  <2>1. \A l \in Line : (l \in (fr \ {new}) \cup {line})
                         <=> (/\ \A i \in 1..n : s[i] # l
                              /\ \A j \in 1..Size_y : t[j] # l)
    <3> SUFFICES ASSUME NEW l \in Line
                 PROVE  (l \in (fr \ {new}) \cup {line})
                         <=> (/\ \A i \in 1..n : s[i] # l
                              /\ \A j \in 1..Size_y : t[j] # l)
        OBVIOUS
    <3>1. CASE l = line
      <4>1. line \notin fr BY <1>1, <1>3, <1>4
      <4> QED BY <1>1, <1>6, <3>1, <4>1
    <3>2. CASE l # line BY <1>2, <1>3, <1>4, <3>2
    <3> QED BY <3>1, <3>2
  <2> QED BY <1>1, <1>4, <2>1 DEF Places
<1>8. Places(t, fr \ {new}, n + 1, u)
  <2>1. \A l \in Line : (\A i \in 1..(n + 1) : u[i] # l)
                         <=> (l # line /\ \A i \in 1..n : s[i] # l)
        BY <1>5
  <2>2. \A l \in Line : (l \in fr \ {new}) <=> (/\ \A i \in 1..(n + 1) : u[i] # l
                                               /\ \A j \in 1..Size_y : t[j] # l)
        BY <1>2, <1>3, <1>4, <2>1
  <2>3. line \notin fr BY <1>1, <1>3, <1>4
  <2>4. \A j \in 1..Size_y : t[j] # line BY <1>6, <2>3
  <2>5. \A i \in 1..(n + 1), j \in 1..Size_y : u[i] # t[j] BY <1>1, <1>5, <2>4
  <2> QED BY <1>1, <1>4, <2>2, <2>5 DEF Places
<1> QED BY <1>7, <1>8 DEF t, line, u

\* The k oldest lines are freed.
LEMMA OldestAreFreed ==
    ASSUME NEW scr, NEW fr, NEW n \in Nat, NEW s \in [1..n -> Line], Places(scr, fr, n, s),
           \A i, j \in 1..n : s[i] = s[j] => i = j, NEW k \in 0..n
    PROVE  Places(scr, fr \cup Range(SubSeq(s, 1, k)), n - k, Behind(n, s, k))
<1> DEFINE t == Behind(n, s, k)
           gone == Range(SubSeq(s, 1, k))
<1>1. /\ fr \subseteq Line
      /\ \A i \in 1..n, j \in 1..Size_y : s[i] # scr[j]
      /\ \A l \in Line : (l \in fr) <=> (/\ \A i \in 1..n : s[i] # l
                                         /\ \A j \in 1..Size_y : scr[j] # l)
      BY DEF Places
<1>2. \A i \in 1..(n - k) : i + k \in 1..n /\ t[i] = s[i + k] BY DEF Behind
<1>3. gone = {s[i] : i \in 1..k}
  <2>1. SubSeq(s, 1, k) = Front(s, k) BY CutFront
  <2>2. Range(Front(s, k)) = {Front(s, k)[i] : i \in 1..k} BY DEF Front, Range
  <2>3. \A i \in 1..k : Front(s, k)[i] = s[i] BY DEF Front
  <2>4. gone = {Front(s, k)[i] : i \in 1..k} BY <2>1, <2>2
  <2> HIDE DEF gone
  <2> QED BY <2>3, <2>4
<1>4. \A i \in 1..k : i \in 1..n OBVIOUS
<1> HIDE DEF t, gone
<1>5. \A i \in 1..n : i \in 1..k \/ (i - k \in 1..(n - k) /\ t[i - k] = s[i])
  <2> SUFFICES ASSUME NEW i \in 1..n, i \notin 1..k
               PROVE  i - k \in 1..(n - k) /\ t[i - k] = s[i]
      OBVIOUS
  <2>1. i - k \in 1..(n - k) /\ (i - k) + k = i OBVIOUS
  <2> QED BY <1>2, <2>1
<1>6. \A l \in Line : (\A i \in 1..n : s[i] # l)
                       <=> (l \notin gone /\ \A i \in 1..(n - k) : t[i] # l)
      BY <1>2, <1>3, <1>4, <1>5
<1>7. \A l \in gone : /\ l \in Line /\ \A i \in 1..(n - k) : t[i] # l
                      /\ \A j \in 1..Size_y : scr[j] # l
  <2> SUFFICES ASSUME NEW l \in gone
               PROVE  /\ l \in Line /\ \A i \in 1..(n - k) : t[i] # l
                      /\ \A j \in 1..Size_y : scr[j] # l
      OBVIOUS
  <2>1. PICK m \in 1..k : l = s[m] BY <1>3
  <2>2. m \in 1..n /\ s[m] \in Line BY <1>4
  <2>3. \A i \in 1..(n - k) : i + k # m BY <2>1
  <2> QED BY <1>1, <1>2, <2>1, <2>2, <2>3
<1>8. \A l \in Line : (l \in fr \cup gone) <=> (/\ \A i \in 1..(n - k) : t[i] # l
                                                /\ \A j \in 1..Size_y : scr[j] # l)
      BY <1>1, <1>6, <1>7
<1>9. \A i \in 1..(n - k), j \in 1..Size_y : t[i] # scr[j] BY <1>1, <1>2
<1> QED BY <1>1, <1>7, <1>8, <1>9 DEF Places, t, gone

\* The num newest lines go to the top of the screen, and the rows at its end are freed.
LEMMA NewestAreTaken ==
    ASSUME NEW scr, NEW fr, NEW n \in Nat, NEW s \in [1..n -> Line], Places(scr, fr, n, s),
           \A i, j \in 1..n : s[i] = s[j] => i = j, NEW num \in 1..n, num <= Size_y
    PROVE  Places(Behind(n, s, n - num) \o SubSeq(scr, 1, Size_y - num),
                  fr \cup Range(SubSeq(scr, Size_y - num + 1, Size_y)),
                  n - num, Front(s, n - num))
<1> DEFINE m == n - num
           rest == Size_y - num
           t == Behind(n, s, m) \o SubSeq(scr, 1, rest)
           u == Front(s, m)
           gone == Range(SubSeq(scr, rest + 1, Size_y))
<1>1. /\ scr \in [1..Size_y -> Line] /\ fr \subseteq Line /\ Size_y \in Nat
      /\ \A i, j \in 1..Size_y : scr[i] = scr[j] => i = j
      /\ \A i \in 1..n, j \in 1..Size_y : s[i] # scr[j]
      /\ \A l \in Line : (l \in fr) <=> (/\ \A i \in 1..n : s[i] # l
                                         /\ \A j \in 1..Size_y : scr[j] # l)
      BY ListAssumption DEF Places
<1>2. /\ num \in Nat /\ num > 0 /\ m \in Nat /\ m \in 0..n /\ rest \in Nat /\ rest \in 0..Size_y
      /\ n - m = num /\ Size_y - rest = num /\ num + rest = Size_y /\ m + num = n
      BY <1>1
<1>3. Behind(n, s, m) \in [1..num -> Line] /\ \A i \in 1..num : Behind(n, s, m)[i] = s[i + m]
  <2> HIDE DEF m
  <2> QED BY <1>2, CutBehind DEF Behind
<1>4. SubSeq(scr, 1, rest) = Front(scr, rest) /\ Front(scr, rest) \in [1..rest -> Line]
  <2> HIDE DEF rest
  <2> QED BY <1>1, <1>2, CutFront
<1>5. t = [i \in 1..(num + rest) |-> IF i <= num THEN Behind(n, s, m)[i] ELSE Front(scr, rest)[i - num]]
  <2> DEFINE a == Behind(n, s, m)
             b == Front(scr, rest)
  <2>1. t = a \o b BY <1>4
  <2>2. a \in [1..num -> Line] /\ b \in [1..rest -> Line] BY <1>3, <1>4
  <2>3. num \in Nat /\ rest \in Nat BY <1>2
  <2> HIDE DEF m, rest, t, a, b
  <2>4. a \o b = [i \in 1..(num + rest) |-> IF i <= num THEN a[i] ELSE b[i - num]]
    <3>1. \A x \in [1..num -> Line] : \A q \in Nat : \A y \in [1..q -> Line] :
              x \o y = [i \in 1..(num + q) |-> IF i <= num THEN x[i] ELSE y[i - num]]
          BY <2>3, Joined
    <3>2. \A q \in Nat : \A y \in [1..q -> Line] :
              a \o y = [i \in 1..(num + q) |-> IF i <= num THEN a[i] ELSE y[i - num]]
          BY <2>2, <3>1
    <3>3. \A y \in [1..rest -> Line] :
              a \o y = [i \in 1..(num + rest) |-> IF i <= num THEN a[i] ELSE y[i - num]]
          BY <2>3, <3>2
    <3> QED BY <2>2, <3>3
  <2> QED BY <2>1, <2>4 DEF a, b
<1>6. gone = {scr[i + rest] : i \in 1..num}
  <2>1. SubSeq(scr, rest + 1, Size_y) = Behind(Size_y, scr, rest)
    <3> HIDE DEF rest
    <3> QED BY <1>1, <1>2, CutBehind
  <2>2. Behind(Size_y, scr, rest) = [i \in 1..num |-> scr[i + rest]] BY <1>2 DEF Behind
  <2>3. gone = Range([i \in 1..num |-> scr[i + rest]]) BY <2>1, <2>2
  <2> HIDE DEF gone
  <2> QED BY <2>3 DEF Range
<1> HIDE DEF t, gone
<1>7. t \in [1..Size_y -> Line]
      /\ (\A i \in 1..num : i \in 1..Size_y /\ i + m \in 1..n /\ t[i] = s[i + m])
      /\ (\A i \in 1..rest : i \in 1..Size_y /\ i + num \in 1..Size_y /\ t[i + num] = scr[i])
      /\ (\A i \in 1..Size_y : i \in 1..num \/ i - num \in 1..rest)
  <2>1. \A i \in 1..rest : Front(scr, rest)[i] = scr[i] BY DEF Front
  <2>2. \A i \in 1..num : i + m \in 1..n /\ i \in 1..Size_y BY <1>1, <1>2
  <2>3. \A i \in 1..rest : /\ i \in 1..Size_y /\ i + num \in 1..Size_y
                           /\ (i + num) - num = i /\ ~(i + num <= num)
        BY <1>1, <1>2
  <2>4. \A i \in 1..Size_y : i \in 1..num \/ (i - num \in 1..rest /\ ~(i <= num))
        BY <1>1, <1>2
  <2>5. t = [i \in 1..Size_y |-> IF i <= num THEN Behind(n, s, m)[i]
                                 ELSE Front(scr, rest)[i - num]]
        BY <1>2, <1>5
  <2> HIDE DEF m, rest
  <2>6. t \in [1..Size_y -> Line] BY <1>2, <1>3, <1>4, <2>4, <2>5
  <2>7. \A i \in 1..num : t[i] = s[i + m] BY <1>2, <1>3, <2>2, <2>5
  <2>8. \A i \in 1..rest : t[i + num] = scr[i] BY <1>2, <2>1, <2>3, <2>5
  <2> QED BY <2>2, <2>3, <2>4, <2>6, <2>7, <2>8
<1>8. \A i \in 1..m : i \in 1..n /\ u[i] = s[i] BY <1>2 DEF Front
<1>9. \A i \in 1..Size_y : i \in 1..rest \/ (i - rest \in 1..num /\ scr[i] \in gone)
  <2>1. \A i \in 1..Size_y : i \in 1..rest \/ (i - rest \in 1..num /\ (i - rest) + rest = i)
        BY <1>1, <1>2
  <2> QED BY <1>6, <2>1
<1>10. \A l \in gone : \E i \in 1..num : i + rest \in 1..Size_y /\ i + rest \notin 1..rest
                                         /\ l = scr[i + rest]
  <2>1. \A i \in 1..num : i + rest \in 1..Size_y /\ i + rest \notin 1..rest BY <1>1, <1>2
  <2> QED BY <1>6, <2>1
<1>11. \A i \in 1..n : i \in 1..m \/ (i - m \in 1..num /\ (i - m) + m = i) BY <1>2
<1>18. \A i \in 1..num : i + m \notin 1..m BY <1>2
<1>19. \A i \in Int, j \in Int : i + m = j + m => i = j BY <1>2
<1>20. \A i \in Int : (i - num) + num = i BY <1>2
<1> HIDE DEF m, rest, u
<1>12. \A i, j \in 1..Size_y : t[i] = t[j] => i = j
  <2> SUFFICES ASSUME NEW i \in 1..Size_y, NEW j \in 1..Size_y, t[i] = t[j] PROVE i = j
      OBVIOUS
  <2>1. CASE i \in 1..num /\ j \in 1..num
    <3>1. s[i + m] = s[j + m] BY <1>7, <2>1
    <3>2. i + m = j + m BY <1>7, <2>1, <3>1
    <3> QED BY <1>19, <3>2
  <2>2. CASE i \notin 1..num /\ j \notin 1..num
    <3>1. i - num \in 1..rest /\ j - num \in 1..rest BY <1>7, <2>2
    <3>2. t[i] = scr[i - num] /\ t[j] = scr[j - num] BY <1>7, <1>20, <3>1
    <3>3. i - num \in 1..Size_y /\ j - num \in 1..Size_y BY <1>7, <3>1
    <3>4. scr[i - num] = scr[j - num] BY <3>2
    <3>5. i - num = j - num BY <1>1, <3>3, <3>4
    <3> QED BY <1>2, <3>5
  <2>3. CASE i \in 1..num /\ j \notin 1..num
    <3>1. j - num \in 1..rest BY <1>7, <2>3
    <3>2. t[i] = s[i + m] /\ t[j] = scr[j - num] BY <1>7, <1>20, <2>3, <3>1
    <3>3. i + m \in 1..n /\ j - num \in 1..Size_y BY <1>7, <2>3, <3>1
    <3>4. s[i + m] # scr[j - num] BY <1>1, <3>3
    <3> QED BY <3>2, <3>4
  <2>4. CASE i \notin 1..num /\ j \in 1..num
    <3>1. i - num \in 1..rest BY <1>7, <2>4
    <3>2. t[j] = s[j + m] /\ t[i] = scr[i - num] BY <1>7, <1>20, <2>4, <3>1
    <3>3. j + m \in 1..n /\ i - num \in 1..Size_y BY <1>7, <2>4, <3>1
    <3>4. s[j + m] # scr[i - num] BY <1>1, <3>3
    <3> QED BY <3>2, <3>4
  <2> QED BY <2>1, <2>2, <2>3, <2>4
<1>13. \A j \in 1..Size_y : \/ j \in 1..num /\ t[j] = s[j + m]
                            \/ j - num \in 1..rest /\ t[j] = scr[j - num]
       BY <1>7, <1>20
<1>14. \A i \in 1..m, j \in 1..Size_y : u[i] # t[j]
  <2> SUFFICES ASSUME NEW i \in 1..m, NEW j \in 1..Size_y PROVE u[i] # t[j] OBVIOUS
  <2>1. u[i] = s[i] /\ i \in 1..n BY <1>8
  <2>2. CASE j \in 1..num /\ t[j] = s[j + m]
    <3>1. j + m \in 1..n /\ j + m # i BY <1>7, <1>18, <2>2
    <3>2. s[j + m] # s[i] BY <2>1, <3>1
    <3> QED BY <2>1, <2>2, <3>2
  <2>3. CASE j - num \in 1..rest /\ t[j] = scr[j - num]
    <3>1. j - num \in 1..Size_y BY <1>7, <2>3
    <3>2. scr[j - num] # s[i] BY <1>1, <2>1, <3>1
    <3> QED BY <2>1, <2>3, <3>2
  <2> QED BY <1>13, <2>2, <2>3
<1>15. \A l \in Line : (\A i \in 1..n : s[i] # l)
                        <=> ((\A i \in 1..m : u[i] # l) /\ \A i \in 1..num : s[i + m] # l)
  <2> SUFFICES ASSUME NEW l \in Line
               PROVE  (\A i \in 1..n : s[i] # l)
                       <=> ((\A i \in 1..m : u[i] # l) /\ \A i \in 1..num : s[i + m] # l)
      OBVIOUS
  <2>1. ASSUME \A i \in 1..n : s[i] # l
        PROVE  (\A i \in 1..m : u[i] # l) /\ \A i \in 1..num : s[i + m] # l
        BY <1>7, <1>8, <2>1
  <2>2. ASSUME \A i \in 1..m : u[i] # l, \A i \in 1..num : s[i + m] # l, NEW i \in 1..n
        PROVE  s[i] # l
    <3>1. CASE i \in 1..m BY <1>8, <2>2, <3>1
    <3>2. CASE i - m \in 1..num /\ (i - m) + m = i
      <4>1. s[(i - m) + m] # l BY <2>2, <3>2
      <4> QED BY <3>2, <4>1
    <3> QED BY <1>11, <3>1, <3>2
  <2> QED BY <2>1, <2>2
<1>16. \A l \in Line : (\A j \in 1..Size_y : t[j] # l)
                        <=> ((\A i \in 1..num : s[i + m] # l) /\ \A i \in 1..rest : scr[i] # l)
  <2> SUFFICES ASSUME NEW l \in Line
               PROVE  (\A j \in 1..Size_y : t[j] # l)
                       <=> ((\A i \in 1..num : s[i + m] # l) /\ \A i \in 1..rest : scr[i] # l)
      OBVIOUS
  <2>1. ASSUME \A j \in 1..Size_y : t[j] # l, NEW i \in 1..num PROVE s[i + m] # l
        BY <1>7, <2>1
  <2>2. ASSUME \A j \in 1..Size_y : t[j] # l, NEW i \in 1..rest PROVE scr[i] # l
    <3>1. i + num \in 1..Size_y /\ t[i + num] = scr[i] BY <1>7
    <3>2. t[i + num] # l BY <2>2, <3>1
    <3> QED BY <3>1, <3>2
  <2>3. ASSUME \A i \in 1..num : s[i + m] # l, \A i \in 1..rest : scr[i] # l,
               NEW j \in 1..Size_y
        PROVE  t[j] # l
        BY <1>13, <2>3
  <2> QED BY <2>1, <2>2, <2>3
<1>17. \A l \in Line : (\A j \in 1..Size_y : scr[j] # l)
                        <=> ((\A i \in 1..rest : scr[i] # l) /\ l \notin gone)
       BY <1>7, <1>9, <1>10
<1>21. \A l \in gone : /\ l \in Line /\ \A i \in 1..m : u[i] # l
                       /\ \A i \in 1..num : s[i + m] # l
                       /\ \A i \in 1..rest : scr[i] # l
  <2> SUFFICES ASSUME NEW i \in 1..num, i + rest \in 1..Size_y, i + rest \notin 1..rest
               PROVE  /\ scr[i + rest] \in Line /\ \A j \in 1..m : u[j] # scr[i + rest]
                      /\ \A j \in 1..num : s[j + m] # scr[i + rest]
                      /\ \A j \in 1..rest : scr[j] # scr[i + rest]
      BY <1>10
  <2> QED BY <1>1, <1>7, <1>8
<1>22. \A l \in Line : (l \in fr \cup gone) <=> (/\ \A i \in 1..m : u[i] # l
                                                 /\ \A j \in 1..Size_y : t[j] # l)
       BY <1>1, <1>15, <1>16, <1>17, <1>21
<1> QED BY <1>1, <1>7, <1>12, <1>14, <1>21, <1>22 DEF Places, t, u, gone, m, rest

-----------------------------------------------------------------------------
(* What the abstract scrollback does. *)

As(s, top, max) == [lines |-> s, top |-> top, max |-> max]

LEMMA LargerOfTwo ==
    ASSUME NEW a \in Int
    PROVE  Max({0, a}) = IF a < 0 THEN 0 ELSE a
<1> DEFINE m == IF a < 0 THEN 0 ELSE a
<1>1. m \in {0, a} /\ \A y \in {0, a} : m >= y OBVIOUS
<1>2. \A x \in {0, a} : (\A y \in {0, a} : x >= y) => x = m OBVIOUS
<1> QED BY <1>1, <1>2 DEF Max

LEMMA SmallerOfTwo ==
    ASSUME NEW a \in Int, NEW b \in Int
    PROVE  Min({a, b}) = IF a < b THEN a ELSE b
<1> DEFINE m == IF a < b THEN a ELSE b
<1>1. m \in {a, b} /\ \A y \in {a, b} : m <= y OBVIOUS
<1>2. \A x \in {a, b} : (\A y \in {a, b} : x <= y) => x = m OBVIOUS
<1> QED BY <1>1, <1>2 DEF Min

LEMMA PushedIs ==
    ASSUME NEW n \in Nat, NEW s \in [1..n -> Line], NEW top \in 0..n, NEW max \in Nat,
           n <= max, NEW line \in Line, NEW fixed \in BOOLEAN
    PROVE  Abstract!Pushed(As(s, top, max), <<line>>, fixed) =
               IF max = 0 THEN As(s, top, max)
               ELSE IF n < max THEN As(With(n, s, line), TopAfter(n, top, FALSE, fixed), max)
               ELSE As(With(n - 1, Behind(n, s, 1), line), TopAfter(n, top, TRUE, fixed), max)
<1> DEFINE st == As(s, top, max)
           all == s \o <<line>>
           gone == Abstract!Larger(0, Len(all) - max)
           kept == SubSeq(all, gone + 1, Len(all))
           above == IF Abstract!Live(st) THEN Len(kept)
                    ELSE IF fixed THEN Abstract!Larger(0, top - gone) ELSE top
<1>1. st.lines = s /\ st.top = top /\ st.max = max BY DEF As
<1>2. Len(s) = n /\ (Abstract!Live(st) <=> top = n) BY <1>1, ListIsSeq DEF Abstract!Live
<1>3. all = With(n, s, line) /\ all \in [1..(n + 1) -> Line] /\ Len(all) = n + 1
  <2>1. all = With(n, s, line) BY JoinedOne
  <2>2. With(n, s, line) \in [1..(n + 1) -> Line] BY DEF With
  <2>3. n + 1 \in Nat OBVIOUS
  <2> HIDE DEF all
  <2> QED BY <2>1, <2>2, <2>3, ListIsSeq
<1>4. Abstract!Pushed(st, <<line>>, fixed) = IF max = 0 THEN st ELSE As(kept, above, max)
  <2>1. Abstract!Pushed(st, <<line>>, fixed) =
            IF max = 0 THEN st ELSE [st EXCEPT !.lines = kept, !.top = above]
        BY <1>1 DEF Abstract!Pushed
  <2>2. st = [lines |-> s, top |-> top, max |-> max] BY DEF As
  <2> HIDE DEF kept, above, st
  <2>3. [st EXCEPT !.lines = kept, !.top = above] = As(kept, above, max)
    <3> DEFINE r == [lines |-> s, top |-> top, max |-> max]
    <3>1. [r EXCEPT !.lines = kept, !.top = above]
            = [[r EXCEPT !.lines = kept] EXCEPT !.top = above]
          OBVIOUS
    <3>2. [r EXCEPT !.lines = kept] = [lines |-> kept, top |-> top, max |-> max] OBVIOUS
    <3>3. [[lines |-> kept, top |-> top, max |-> max] EXCEPT !.top = above]
            = [lines |-> kept, top |-> above, max |-> max]
          OBVIOUS
    <3> QED BY <2>2, <3>1, <3>2, <3>3 DEF As
  <2> QED BY <2>1, <2>3
<1> HIDE DEF st, all
<1>5. CASE n < max
  <2>1. gone = 0 BY <1>3, <1>5 DEF Abstract!Larger
  <2>2. kept = all
    <3>1. SubSeq(all, 1, n + 1) = Front(all, n + 1) BY <1>3, CutFront
    <3>2. Front(all, n + 1) = all BY <1>3, BehindNone
    <3> QED BY <1>3, <2>1, <3>1, <3>2
  <2>3. above = TopAfter(n, top, FALSE, fixed)
        BY <1>2, <1>3, <2>1, <2>2 DEF TopAfter, Abstract!Larger
  <2> HIDE DEF kept, above
  <2> QED BY <1>3, <1>4, <1>5, <2>2, <2>3 DEF st
<1>6. CASE n = max /\ max # 0
  <2>1. gone = 1 /\ n > 0 BY <1>3, <1>6 DEF Abstract!Larger
  <2>2. kept = Behind(n + 1, all, 1)
    <3> DEFINE k == 1
               m == n + 1
    <3>1. k \in 0..m /\ m \in Nat OBVIOUS
    <3>2. all \in [1..m -> Line] BY <1>3
    <3> HIDE DEF k, m, kept
    <3>3. SubSeq(all, k + 1, m) = Behind(m, all, k) BY <3>1, <3>2, CutBehind
    <3> QED BY <1>3, <2>1, <3>3 DEF k, m, kept
  <2>3. Behind(n + 1, all, 1) = With(n - 1, Behind(n, s, 1), line)
    <3>1. (n + 1) - 1 = n /\ (n - 1) + 1 = n OBVIOUS
    <3>2. Behind(n + 1, all, 1) = [i \in 1..n |-> all[i + 1]] BY <3>1 DEF Behind
    <3>3. With(n - 1, Behind(n, s, 1), line)
            = [i \in 1..n |-> IF i <= n - 1 THEN Behind(n, s, 1)[i] ELSE line]
          BY <3>1 DEF With
    <3>4. \A i \in 1..n : all[i + 1] = IF i <= n - 1 THEN s[i + 1] ELSE line
          BY <1>3 DEF With
    <3>5. \A i \in 1..(n - 1) : Behind(n, s, 1)[i] = s[i + 1] BY DEF Behind
    <3>6. \A i \in 1..n : i <= n - 1 => i \in 1..(n - 1) OBVIOUS
    <3> QED BY <3>2, <3>3, <3>4, <3>5, <3>6
  <2>4. Len(kept) = n
    <3>1. Behind(n + 1, all, 1) \in [1..n -> Line]
      <4>1. \A i \in 1..n : i + 1 \in 1..(n + 1) OBVIOUS
      <4>2. (n + 1) - 1 = n OBVIOUS
      <4> QED BY <1>3, <4>1, <4>2 DEF Behind
    <3> QED BY <2>2, <3>1, ListIsSeq
  <2>5. above = TopAfter(n, top, TRUE, fixed)
    <3>1. above = IF top = n THEN n ELSE IF fixed THEN Abstract!Larger(0, top - 1) ELSE top
          BY <1>2, <2>1, <2>4
    <3>2. Abstract!Larger(0, top - 1) = IF top > 0 THEN top - 1 ELSE 0
          BY DEF Abstract!Larger
    <3>3. top \in Nat OBVIOUS
    <3> HIDE DEF above
    <3> QED BY <3>1, <3>2, <3>3 DEF TopAfter
  <2>6. ~(n < max) BY <1>6
  <2> HIDE DEF kept, above
  <2>7. Abstract!Pushed(st, <<line>>, fixed)
          = As(With(n - 1, Behind(n, s, 1), line), TopAfter(n, top, TRUE, fixed), max)
        BY <1>4, <1>6, <2>2, <2>3, <2>5
  <2> QED BY <1>6, <2>6, <2>7 DEF st
<1>7. CASE max = 0
  <2> HIDE DEF kept, above
  <2> QED BY <1>4, <1>7 DEF st
<1>8. n < max \/ (n = max /\ max # 0) \/ max = 0 OBVIOUS
<1> QED BY <1>5, <1>6, <1>7, <1>8

LEMMA PulledIs ==
    ASSUME NEW n \in Nat, NEW s \in [1..n -> Line], NEW top \in 0..n, NEW max, NEW num \in 0..n
    PROVE  Abstract!Pulled(As(s, top, max), num) =
               As(Front(s, n - num), IF top < n - num THEN top ELSE n - num, max)
<1>1. n - num \in 0..n /\ n - num \in Nat OBVIOUS
<1>2. SubSeq(s, 1, n - num) = Front(s, n - num) BY <1>1, CutFront
<1>3. Len(s) = n BY ListIsSeq
<1> QED BY <1>2, <1>3 DEF Abstract!Pulled, Abstract!Smaller, As

LEMMA LimitedIs ==
    ASSUME NEW n \in Nat, NEW s \in [1..n -> Line], NEW top \in 0..n, NEW most, NEW limit \in Nat,
           NEW num \in Nat, num = IF n < limit THEN 0 ELSE n - limit
    PROVE  /\ num \in 0..n /\ n - num <= limit
           /\ Abstract!Limited(As(s, top, most), limit) =
                  As(Behind(n, s, num), IF top < num THEN 0 ELSE top - num, limit)
<1>2. num \in 0..n /\ n - num <= limit OBVIOUS
<1>3. Len(s) = n BY ListIsSeq
<1>4. Abstract!Larger(0, n - limit) = num BY DEF Abstract!Larger
<1>5. SubSeq(s, num + 1, n) = Behind(n, s, num) BY <1>2, CutBehind
<1>6. Abstract!Larger(0, top - num) = IF top < num THEN 0 ELSE top - num
      BY <1>2 DEF Abstract!Larger
<1>7. As(s, top, most).lines = s /\ As(s, top, most).top = top BY DEF As
<1>8. Abstract!Limited(As(s, top, most), limit) =
          [lines |-> SubSeq(s, num + 1, n), top |-> Abstract!Larger(0, top - num), max |-> limit]
      BY <1>3, <1>4, <1>7 DEF Abstract!Limited
<1> QED BY <1>2, <1>5, <1>6, <1>8 DEF As

-----------------------------------------------------------------------------
(* The operations. *)

\* The state is a list s of n lines with a view of it.
Stands(n, s, top) ==
    /\ ListOf(Heap, n, s) /\ ViewOf(Heap, n, s, top)
    /\ con.sb_last_id <= MaxId /\ n <= con.sb_max
    /\ Places(screen, free, n, s)

LEMMA StandsTypes ==
    ASSUME NEW n, NEW s, NEW top, Stands(n, s, top)
    PROVE  /\ Heap \in Heaps /\ con \in Cons /\ node \in Nodes
           /\ n \in Nat /\ s \in [1..n -> Line] /\ top \in 0..n
           /\ con.sb_count = n /\ con.sb_max \in Nat /\ con.fixed_pos \in BOOLEAN
           /\ con.sb_last_id \in Nat
           /\ \A i, j \in 1..n : s[i] = s[j] => i = j
<1>1. ListOf(Heap, n, s) /\ ViewOf(Heap, n, s, top) BY DEF Stands
<1>2. /\ Heap \in Heaps /\ n \in Nat /\ s \in [1..n -> Line] /\ top \in 0..n
      /\ con.sb_count = n /\ \A i, j \in 1..n : s[i] = s[j] => i = j
      BY <1>1 DEF ListOf, Chained, ViewOf, Heap
<1>3. con \in Cons /\ node \in Nodes BY <1>2 DEF Heaps, Heap
<1> QED BY <1>2, <1>3 DEF Cons

LEMMA PutStands ==
    ASSUME NEW g, NEW n, NEW s, NEW top, ListOf(g, n, s), ViewOf(g, n, s, top),
           g.con.sb_last_id <= MaxId, n <= g.con.sb_max, Put(g),
           Places(screen', free', n, s)
    PROVE  Stands(n, s, top)'
<1>1. g \in Heaps BY DEF ListOf, Chained
<1>2. g = [con |-> g.con, node |-> g.node] BY <1>1 DEF Heaps
<1>3. con' = g.con /\ node' = g.node BY DEF Put
<1>4. Heap' = g BY <1>2, <1>3 DEF Heap
<1>5. ListOf(Heap', n, s) /\ ViewOf(Heap', n, s, top) BY <1>4
<1>6. con'.sb_last_id <= MaxId /\ n <= con'.sb_max BY <1>3
<1> QED BY <1>5, <1>6 DEF Stands

LEMMA Linking ==
    ASSUME NEW n, NEW s, NEW top, Stands(n, s, top), LinkToScrollback
    PROVE  /\ screen[1] \in Line /\ con'.sb_max = con.sb_max
           /\ \E m, t, to : /\ Stands(m, t, to)'
                            /\ Abstract!Pushed(As(s, top, con.sb_max), <<screen[1]>>, con.fixed_pos)
                                 = As(t, to, con.sb_max)
<1>0. PICK row, max, fixed : row = screen[1] /\ max = con.sb_max /\ fixed = con.fixed_pos
      OBVIOUS
<1> DEFINE oldest == Head(screen)
           new == LineNew
           full == con.sb_count >= con.sb_max
           gone == IF con.sb_max = 0 THEN {oldest} ELSE IF full THEN {con.sb_first} ELSE {}
           evicted == IF full THEN MovedView(WithoutFirst(Heap), oldest) ELSE Heap
           g == IF con.sb_max = 0 THEN Heap ELSE WithLast(evicted, oldest)
<1>1. /\ free # {} /\ con.sb_last_id < MaxId /\ Put(g)
      /\ screen' = Append(Tail(screen), new) /\ free' = (free \ {new}) \cup gone
      BY DEF LinkToScrollback
<1>2. /\ n \in Nat /\ s \in [1..n -> Line] /\ top \in 0..n /\ con.sb_count = n
      /\ max \in Nat /\ fixed \in BOOLEAN /\ n <= max /\ con.sb_last_id \in Nat
      /\ \A i, j \in 1..n : s[i] = s[j] => i = j
      BY <1>0, StandsTypes DEF Stands
<1>3. ListOf(Heap, n, s) /\ ViewOf(Heap, n, s, top) /\ Places(screen, free, n, s) BY DEF Stands
<1>4. new \in free BY <1>1 DEF LineNew
<1>5. /\ row \in Line /\ new \in Line
      /\ \A i \in 1..n : s[i] # row
      BY <1>0, <1>3, <1>4, ScreenIsPlaced
<1>6. screen \in [1..Size_y -> Line] BY <1>3 DEF Places
<1> HIDE DEF new
<1>7. oldest = row /\ screen' = Scrolled(screen, new)
      BY <1>0, <1>1, <1>5, <1>6, ScreenScrolls DEF Scrolled
<1>8. Abstract!Pushed(As(s, top, max), <<row>>, fixed) =
          IF max = 0 THEN As(s, top, max)
          ELSE IF n < max THEN As(With(n, s, row), TopAfter(n, top, FALSE, fixed), max)
          ELSE As(With(n - 1, Behind(n, s, 1), row), TopAfter(n, top, TRUE, fixed), max)
  <2>1. n \in Nat /\ max \in Nat /\ n <= max /\ row \in Line /\ fixed \in BOOLEAN BY <1>2, <1>5
  <2>2. \A x \in [1..n -> Line] : \A y \in 0..n :
            Abstract!Pushed(As(x, y, max), <<row>>, fixed) =
              IF max = 0 THEN As(x, y, max)
              ELSE IF n < max THEN As(With(n, x, row), TopAfter(n, y, FALSE, fixed), max)
              ELSE As(With(n - 1, Behind(n, x, 1), row), TopAfter(n, y, TRUE, fixed), max)
        BY <2>1, PushedIs
  <2> QED BY <1>2, <2>2
<1>9. Heap.con = con BY DEF Heap
<1> HIDE DEF oldest
<1>10. CASE max = 0
  <2>1. g = Heap /\ free' = (free \ {new}) \cup {row} BY <1>0, <1>1, <1>7, <1>10
  <2>2. Places(screen', free', n, s) BY <1>0, <1>2, <1>3, <1>4, <1>7, <2>1, LineIsPlaced
  <2>3. Put(Heap) /\ Heap.con.sb_last_id <= MaxId /\ n <= Heap.con.sb_max
        BY <1>1, <1>9, <2>1 DEF Stands
  <2>4. Stands(n, s, top)' BY <1>3, <2>2, <2>3, PutStands
  <2>5. con' = con BY <1>9, <2>3 DEF Put
  <2> QED BY <1>0, <1>5, <1>8, <1>10, <2>4, <2>5
<1>11. CASE max # 0 /\ n < max
  <2>1. /\ g = WithLast(Heap, row) /\ free' = free \ {new}
        BY <1>0, <1>1, <1>2, <1>7, <1>11
  <2>2. Places(screen', free', n + 1, With(n, s, row))
        BY <1>0, <1>2, <1>3, <1>4, <1>7, <2>1, LineIsPlaced
  <2> HIDE DEF g
  <2>3. /\ ListOf(g, n + 1, With(n, s, row))
        /\ g.con.sb_last_id = con.sb_last_id + 1 /\ g.con.sb_max = max
        BY <1>0, <1>3, <1>5, <1>9, <2>1, LineComes
  <2>4. ViewOf(g, n + 1, With(n, s, row), TopAfter(n, top, FALSE, fixed))
    <3>1. ViewOf(g, n + 1, With(n, s, row), IF top = n THEN n + 1 ELSE top)
          BY <1>3, <1>5, <2>1, LineComesInView
    <3> QED BY <3>1 DEF TopAfter
  <2>5. g.con.sb_last_id <= MaxId /\ n + 1 <= g.con.sb_max
    <3>1. MaxId \in Nat BY ListAssumption
    <3> QED BY <1>1, <1>2, <1>11, <2>3, <3>1
  <2>6. Stands(n + 1, With(n, s, row), TopAfter(n, top, FALSE, fixed))'
        BY <1>1, <2>2, <2>3, <2>4, <2>5, PutStands
  <2>7. con'.sb_max = max BY <1>1, <2>3 DEF Put
  <2> QED BY <1>0, <1>5, <1>8, <1>11, <2>6, <2>7
<1>12. CASE max # 0 /\ n = max
  <2> DEFINE t == With(n - 1, Behind(n, s, 1), row)
  <2>1. /\ g = WithLast(MovedView(WithoutFirst(Heap), row), row)
        /\ free' = (free \ {new}) \cup {con.sb_first}
        BY <1>0, <1>1, <1>2, <1>7, <1>12
  <2>2. n > 0 /\ con.sb_first = s[1] BY <1>2, <1>3, <1>12 DEF ListOf, Chained, Heap
  <2>3. Places(screen', free', n, t)
    <3> DEFINE k == 1
               fr == free \cup {s[1]}
    <3>1. k \in 0..n BY <1>2, <2>2
    <3>2. Range(SubSeq(s, 1, 1)) = {s[1]}
      <4> DEFINE a == Front(s, k)
      <4>1. a = [i \in 1..1 |-> s[i]] BY DEF Front
      <4>2. SubSeq(s, 1, k) = a
        <5> HIDE DEF k
        <5> QED BY <1>2, <3>1, CutFront
      <4> HIDE DEF a
      <4>3. Range(a) = {s[1]} BY <4>1 DEF Range
      <4> QED BY <4>2, <4>3
    <3>3. Places(screen, fr, n - 1, Behind(n, s, 1))
      <4>1. Range(SubSeq(s, 1, k)) = {s[1]} BY <3>2
      <4> HIDE DEF k
      <4>2. Places(screen, free \cup Range(SubSeq(s, 1, k)), n - k, Behind(n, s, k))
            BY <1>2, <1>3, <3>1, OldestAreFreed
      <4>3. Places(screen, fr, n - k, Behind(n, s, k)) BY <4>1, <4>2
      <4> QED BY <4>3 DEF k
    <3>4. n - 1 \in Nat /\ (n - 1) + 1 = n BY <1>2, <2>2
    <3>5. new \in fr BY <1>4
    <3>6. free' = fr \ {new}
      <4>1. s[1] # new
        <5>1. 1 \in 1..n BY <1>2, <2>2
        <5> QED BY <1>3, <1>4, <5>1, ScreenIsPlaced
      <4> QED BY <2>1, <2>2, <4>1
    <3> HIDE DEF fr
    <3>7. Places(Scrolled(screen, new), fr \ {new}, (n - 1) + 1, t)
          BY <1>0, <3>3, <3>4, <3>5, LineIsPlaced
    <3> QED BY <1>7, <3>4, <3>6, <3>7
  <2> HIDE DEF g
  <2>4. /\ ListOf(g, n, t) /\ ViewOf(g, n, t, TopAfter(n, top, TRUE, fixed))
        /\ g.con.sb_max = max /\ g.con.sb_last_id = con.sb_last_id + 1
    <3>1. /\ ListOf(g, n, t) /\ ViewOf(g, n, t, TopAfter(n, top, TRUE, con.fixed_pos))
          /\ g.con.sb_max = con.sb_max /\ g.con.sb_last_id = con.sb_last_id + 1
      <4>1. row \in Line /\ \A i \in 1..n : s[i] # row BY <1>0, <1>5
      <4> DEFINE a == WithLast(MovedView(WithoutFirst(Heap), row), row)
      <4>2. n > 0 /\ ListOf(Heap, n, s) /\ ViewOf(Heap, n, s, top) BY <1>3, <2>2
      <4>3. /\ ListOf(a, n, t) /\ ViewOf(a, n, t, TopAfter(n, top, TRUE, con.fixed_pos))
            /\ a.con.sb_max = con.sb_max /\ a.con.sb_last_id = con.sb_last_id + 1
            BY <4>1, <4>2, LinePushesOut
      <4> QED BY <2>1, <4>3
    <3> QED BY <1>0, <3>1
  <2>5. g.con.sb_last_id <= MaxId /\ n <= g.con.sb_max
    <3>1. MaxId \in Nat BY ListAssumption
    <3> QED BY <1>1, <1>2, <2>4, <3>1
  <2>6. Stands(n, t, TopAfter(n, top, TRUE, fixed))' BY <1>1, <2>3, <2>4, <2>5, PutStands
  <2>7. con'.sb_max = max BY <1>1, <2>4 DEF Put
  <2>8. ~(n < max) BY <1>2, <1>12
  <2> QED BY <1>0, <1>5, <1>8, <1>12, <2>6, <2>7, <2>8
<1> QED BY <1>2, <1>10, <1>11, <1>12

LEMMA TakingBack ==
    ASSUME NEW n, NEW s, NEW top, Stands(n, s, top), TakeBack
    PROVE  /\ con'.sb_max = con.sb_max
           /\ \E num \in 1..n : \E m, t, to :
                  /\ Stands(m, t, to)'
                  /\ Abstract!Pulled(As(s, top, con.sb_max), num) = As(t, to, con.sb_max)
<1>1. /\ n \in Nat /\ s \in [1..n -> Line] /\ top \in 0..n /\ con.sb_count = n
      /\ con.sb_max \in Nat /\ n <= con.sb_max
      /\ \A i, j \in 1..n : s[i] = s[j] => i = j
      BY StandsTypes DEF Stands
<1>2. ListOf(Heap, n, s) /\ ViewOf(Heap, n, s, top) /\ Places(screen, free, n, s)
      /\ con.sb_last_id <= MaxId
      BY DEF Stands
<1>3. PICK num \in 1..Min({con.sb_count, Size_y}) :
          LET taken == [i \in 1..num |-> Earlier(con.sb_last, num - i)]
          IN  /\ Put(Closed(Shortened(Heap, num)))
              /\ screen' = taken \o SubSeq(screen, 1, Size_y - num)
              /\ free' = free \cup Range(SubSeq(screen, Size_y - num + 1, Size_y))
      BY DEF TakeBack
<1>4. num \in 1..n /\ num <= Size_y
  <2>1. Size_y \in Int BY ListAssumption
  <2>2. Min({n, Size_y}) = IF n < Size_y THEN n ELSE Size_y BY <1>1, <2>1, SmallerOfTwo
  <2> QED BY <1>1, <1>3, <2>1, <2>2
<1> DEFINE taken == [i \in 1..num |-> Earlier(con.sb_last, num - i)]
           m == n - num
           t == Front(s, m)
           to == IF top < m THEN top ELSE m
           g == Closed(Shortened(Heap, num))
<1>5. taken = Behind(n, s, m)
  <2>1. \A i \in 1..num : /\ num - i \in Nat /\ num - i < n /\ n - (num - i) = i + m
        BY <1>1, <1>4
  <2>2. n > 0 BY <1>1, <1>4
  <2>3. ASSUME NEW i \in 1..num PROVE Earlier(con.sb_last, num - i) = s[i + m]
    <3> DEFINE k == num - i
    <3>1. k \in Nat /\ k < n /\ n - k = i + m BY <2>1
    <3> HIDE DEF k, m
    <3>2. Earlier(con.sb_last, k) = s[n - k] BY <1>2, <2>2, <3>1, BackwardIsEarlier
    <3> QED BY <3>1, <3>2 DEF k
  <2>4. n - m = num BY <1>1, <1>4
  <2> HIDE DEF m
  <2> QED BY <2>3, <2>4 DEF Behind
<1>6. Places(screen', free', m, t)
  <2>1. /\ screen' = Behind(n, s, n - num) \o SubSeq(screen, 1, Size_y - num)
        /\ free' = free \cup Range(SubSeq(screen, Size_y - num + 1, Size_y))
        BY <1>3, <1>5
  <2>2. Places(Behind(n, s, n - num) \o SubSeq(screen, 1, Size_y - num),
               free \cup Range(SubSeq(screen, Size_y - num + 1, Size_y)),
               n - num, Front(s, n - num))
        BY <1>1, <1>2, <1>4, NewestAreTaken
  <2> QED BY <2>1, <2>2
<1>7. ListOf(g, m, t) /\ ViewOf(g, m, t, to) /\ SameSettings(g, Heap)
  <2> DEFINE h == Shortened(Heap, num)
  <2>1. Chained(Heap, n, s) BY <1>2 DEF ListOf
  <2>2. num \in 0..n BY <1>4
  <2>3. Chained(h, m, t) /\ ViewOf(h, m, t, to) /\ SameSettings(h, Heap)
        BY <1>2, <2>1, <2>2, ShortenedIsFront
  <2> HIDE DEF h, m, t, to
  <2>4. LET c == Closed(h) IN ListOf(c, m, t) /\ ViewOf(c, m, t, to) /\ SameSettings(c, h)
        BY <2>3, Closing
  <2> QED BY <2>3, <2>4 DEF SameSettings, h
<1>8. Abstract!Pulled(As(s, top, con.sb_max), num) = As(t, to, con.sb_max)
  <2>1. num \in 0..n BY <1>4
  <2> QED BY <1>1, <2>1, PulledIs
<1>9. m <= n /\ Put(g) BY <1>1, <1>3, <1>4
<1> HIDE DEF g, m, t, to
<1>10. m \in Nat BY <1>7 DEF ListOf, Chained
<1>11. /\ g.con.sb_max = con.sb_max /\ g.con.sb_last_id <= MaxId /\ m <= g.con.sb_max
       BY <1>1, <1>2, <1>7, <1>9, <1>10 DEF SameSettings, Heap
<1>12. Stands(m, t, to)' BY <1>6, <1>7, <1>9, <1>11, PutStands
<1>13. con'.sb_max = con.sb_max BY <1>9, <1>11 DEF Put
<1> QED BY <1>4, <1>8, <1>12, <1>13

LEMMA Limiting ==
    ASSUME NEW n, NEW s, NEW top, Stands(n, s, top), SetMaxSb
    PROVE  \E max \in Maxima : \E m, t, to :
               /\ Stands(m, t, to)' /\ con'.sb_max = max
               /\ Abstract!Limited(As(s, top, con.sb_max), max) = As(t, to, max)
<1>1. /\ n \in Nat /\ s \in [1..n -> Line] /\ top \in 0..n /\ con.sb_count = n
      /\ Heap \in Heaps
      /\ \A i, j \in 1..n : s[i] = s[j] => i = j
      BY StandsTypes DEF Stands
<1>2. ListOf(Heap, n, s) /\ ViewOf(Heap, n, s, top) /\ Places(screen, free, n, s)
      /\ con.sb_last_id <= MaxId
      BY DEF Stands
<1>3. PICK max \in Maxima :
          LET num == Max({0, con.sb_count - max})
          IN  /\ Put([Lowered(Heap, num) EXCEPT !.con.sb_max = max])
              /\ free' = free \cup Range(SubSeq(Linked, 1, num))
              /\ UNCHANGED screen
      BY DEF SetMaxSb
<1>4. max \in Nat BY ListAssumption
<1>5. PICK num : num = Max({0, n - max}) OBVIOUS
<1> DEFINE m == n - num
           t == Behind(n, s, num)
           to == IF top < num THEN 0 ELSE top - num
           h == Lowered(Heap, num)
           g == [h EXCEPT !.con.sb_max = max]
<1>6. /\ num \in 0..n /\ m <= max
      /\ Abstract!Limited(As(s, top, con.sb_max), max) = As(t, to, max)
  <2>1. num = IF n < max THEN 0 ELSE n - max
    <3>1. n - max \in Int BY <1>1, <1>4
    <3>2. Max({0, n - max}) = IF n - max < 0 THEN 0 ELSE n - max BY <3>1, LargerOfTwo
    <3> QED BY <1>1, <1>4, <1>5, <3>2
  <2>2. num \in Nat BY <1>1, <1>4, <2>1
  <2> QED BY <1>1, <1>4, <2>1, <2>2, LimitedIs
<1>7. /\ Put(g) /\ free' = free \cup Range(SubSeq(s, 1, num)) /\ screen' = screen
  <2>1. Linked = s BY <1>2, LinkedIs
  <2> QED BY <1>1, <1>3, <1>5, <2>1
<1>8. ListOf(h, m, t) /\ ViewOf(h, m, t, to) /\ SameSettings(h, Heap)
      BY <1>2, <1>6, LoweredIsBehind
<1>9. Places(screen', free', m, t) BY <1>1, <1>2, <1>6, <1>7, OldestAreFreed
<1> HIDE DEF h, m, t, to
<1>10. /\ g \in Heaps /\ g.con.sb_max = max /\ g.node = h.node
       /\ g.con.sb_count = h.con.sb_count /\ g.con.sb_first = h.con.sb_first
       /\ g.con.sb_last = h.con.sb_last /\ g.con.sb_pos = h.con.sb_pos
       /\ g.con.sb_last_id = h.con.sb_last_id
  <2>1. h \in Heaps BY <1>8 DEF ListOf, Chained
  <2> QED BY <1>4, <2>1 DEF Heaps, Cons
<1> HIDE DEF g
<1>11. Chained(g, m, t) BY <1>8, <1>10 DEF ListOf, Chained
<1>12. ListOf(g, m, t) BY <1>8, <1>10, <1>11 DEF ListOf
<1>13. ViewOf(g, m, t, to) BY <1>8, <1>10 DEF ViewOf
<1>14. g.con.sb_last_id <= MaxId /\ m <= g.con.sb_max
       BY <1>2, <1>6, <1>8, <1>10 DEF SameSettings, Heap
<1>15. Stands(m, t, to)' BY <1>7, <1>9, <1>12, <1>13, <1>14, PutStands
<1>16. con'.sb_max = max BY <1>7, <1>10 DEF Put
<1> QED BY <1>6, <1>15, <1>16

LEMMA Clearing ==
    ASSUME NEW n, NEW s, NEW top, Stands(n, s, top), ClearSb
    PROVE  Stands(0, << >>, 0)' /\ con'.sb_max = con.sb_max
<1>1. /\ n \in Nat /\ s \in [1..n -> Line] /\ top \in 0..n /\ con \in Cons /\ node \in Nodes
      /\ con.sb_max \in Nat /\ \A i, j \in 1..n : s[i] = s[j] => i = j
      BY StandsTypes DEF Stands
<1>2. ListOf(Heap, n, s) /\ Places(screen, free, n, s) /\ con.sb_last_id <= MaxId
      BY DEF Stands
<1>3. /\ con' = [con EXCEPT !.sb_first = NULL, !.sb_last = NULL, !.sb_count = 0, !.sb_pos = NULL]
      /\ free' = free \cup Range(Linked) /\ screen' = screen /\ node' = node
      BY DEF ClearSb
<1> DEFINE g == [con |-> con', node |-> node]
<1>4. /\ con' \in Cons /\ con'.sb_count = 0 /\ con'.sb_first = NULL /\ con'.sb_last = NULL
      /\ con'.sb_pos = NULL /\ con'.sb_max = con.sb_max /\ con'.sb_last_id = con.sb_last_id
      BY <1>1, <1>3, NullIsNoLine DEF Cons
<1>5. g \in Heaps BY <1>1, <1>4 DEF Heaps
<1>6. g.con = con' /\ g.node = node OBVIOUS
<1> HIDE DEF g
<1>7. << >> \in [1..0 -> Line] OBVIOUS
<1>8. ListOf(g, 0, << >>) BY <1>4, <1>5, <1>6, <1>7 DEF ListOf, Chained
<1>9. ViewOf(g, 0, << >>, 0) BY <1>4, <1>6 DEF ViewOf
<1>10. Places(screen', free', 0, << >>)
  <2>1. n \in 0..n BY <1>1
  <2>2. Places(screen, free \cup Range(SubSeq(s, 1, n)), n - n, Behind(n, s, n))
        BY <1>1, <1>2, <2>1, OldestAreFreed
  <2>3. SubSeq(s, 1, n) = s BY <1>1, <2>1, CutFront, BehindNone
  <2>4. Linked = s BY <1>2, LinkedIs
  <2>5. n - n = 0 BY <1>1
  <2>6. Places(screen, free \cup Range(s), 0, Behind(n, s, n)) BY <2>2, <2>3, <2>5
  <2>7. Places(screen', free', 0, Behind(n, s, n)) BY <1>3, <2>4, <2>6
  <2>8. 1..0 = {} OBVIOUS
  <2> QED BY <2>7, <2>8 DEF Places
<1>11. Put(g) BY <1>3, <1>6 DEF Put
<1>12. Stands(0, << >>, 0)' BY <1>1, <1>2, <1>4, <1>6, <1>8, <1>9, <1>10, <1>11, PutStands
<1> QED BY <1>4, <1>12

\* The view goes to where the line p starts it.
LEMMA Viewing ==
    ASSUME NEW n, NEW s, NEW top, Stands(n, s, top), NEW to \in 0..n,
           ViewAt(IF to = n THEN NULL ELSE s[to + 1])
    PROVE  Stands(n, s, to)' /\ con'.sb_max = con.sb_max
<1> DEFINE p == IF to = n THEN NULL ELSE s[to + 1]
           g == [Heap EXCEPT !.con.sb_pos = p]
<1>1. n \in Nat /\ s \in [1..n -> Line] /\ con.sb_max \in Nat /\ Heap \in Heaps
      BY StandsTypes
<1>2. /\ ListOf(Heap, n, s) /\ Places(screen, free, n, s) /\ con.sb_last_id <= MaxId
      /\ n <= con.sb_max
      BY DEF Stands
<1>3. p \in Lines
  <2>1. to # n => to + 1 \in 1..n BY <1>1
  <2> QED BY <1>1, <2>1, NullIsNoLine
<1>4. /\ con' = [con EXCEPT !.sb_pos = p] /\ node' = node /\ screen' = screen /\ free' = free
      BY DEF ViewAt
<1> HIDE DEF p
<1>5. ListOf(g, n, s) /\ g.con.sb_pos = p /\ g.node = node /\ SameSettings(g, Heap)
      BY <1>2, <1>3, ViewIsApart DEF Heap
<1>6. g.con = [con EXCEPT !.sb_pos = p] BY DEF Heap
<1> HIDE DEF g
<1>7. Put(g) BY <1>4, <1>5, <1>6 DEF Put
<1>8. ViewOf(g, n, s, to) BY <1>5 DEF ViewOf, p
<1>9. g.con.sb_last_id <= MaxId /\ n <= g.con.sb_max /\ g.con.sb_max = con.sb_max
      BY <1>2, <1>5 DEF SameSettings, Heap
<1>10. Places(screen', free', n, s) BY <1>2, <1>4
<1>11. Stands(n, s, to)' BY <1>5, <1>7, <1>8, <1>9, <1>10, PutStands
<1> QED BY <1>7, <1>9, <1>11 DEF Put

\* Where tsm_screen_sb_up and tsm_screen_sb_down put the view, num steps away.
LEMMA UpIs ==
    ASSUME NEW n, NEW s, NEW top, Stands(n, s, top), NEW num \in Nat \ {0}
    PROVE  LET to == IF top < num THEN 0 ELSE top - num
           IN  /\ to \in 0..n /\ Abstract!Larger(0, top - num) = to
               /\ UpFrom(con.sb_pos, num) = IF to = n THEN NULL ELSE s[to + 1]
<1> DEFINE to == IF top < num THEN 0 ELSE top - num
           older == [line \in Line |-> IF node[line].prev = NULL THEN line ELSE node[line].prev]
<1>1. n \in Nat /\ s \in [1..n -> Line] /\ top \in 0..n BY StandsTypes
<1>2. ListOf(Heap, n, s) /\ ViewOf(Heap, n, s, top) BY DEF Stands
<1>3. to \in 0..n /\ Abstract!Larger(0, top - num) = to BY <1>1 DEF Abstract!Larger
<1>4. con.sb_pos = IF top = n THEN NULL ELSE s[top + 1] BY <1>2 DEF ViewOf, Heap
<1>5. con.sb_last = IF n = 0 THEN NULL ELSE s[n] BY <1>2 DEF ListOf, Chained, Heap
<1>6. \A i \in 1..n : \A k \in Nat : Iterated(older, s[i], k) = IF k < i THEN s[i - k] ELSE s[1]
      BY <1>2, OlderIsEarlier
<1>7. UpFrom(con.sb_pos, num) =
          IF con.sb_pos # NULL THEN Iterated(older, con.sb_pos, num)
          ELSE IF con.sb_last = NULL THEN NULL ELSE Iterated(older, con.sb_last, num - 1)
      BY DEF UpFrom
<1>9. \A i \in 1..n : s[i] # NULL BY <1>1, NullIsNoLine
<1> HIDE DEF older
<1>8. UpFrom(con.sb_pos, num) = IF to = n THEN NULL ELSE s[to + 1]
  <2>1. CASE top # n
    <3>1. top + 1 \in 1..n /\ con.sb_pos = s[top + 1] /\ con.sb_pos # NULL
          BY <1>1, <1>4, <1>9, <2>1
    <3>2. Iterated(older, s[top + 1], num) = IF num < top + 1 THEN s[(top + 1) - num] ELSE s[1]
          BY <1>6, <3>1
    <3>3. (num < top + 1 <=> ~(top < num)) /\ (~(top < num) => (top + 1) - num = to + 1)
          /\ (top < num => to + 1 = 1) /\ to # n
          BY <1>1, <2>1
    <3> QED BY <1>7, <3>1, <3>2, <3>3
  <2>2. CASE top = n /\ n = 0
    <3>1. con.sb_pos = NULL /\ con.sb_last = NULL /\ to = n BY <1>4, <1>5, <2>2
    <3> QED BY <1>7, <3>1
  <2>3. CASE top = n /\ n # 0
    <3>1. con.sb_pos = NULL /\ con.sb_last = s[n] /\ n \in 1..n /\ num - 1 \in Nat
          /\ s[n] # NULL
          BY <1>1, <1>4, <1>5, <1>9, <2>3
    <3>2. Iterated(older, s[n], num - 1) = IF num - 1 < n THEN s[n - (num - 1)] ELSE s[1]
          BY <1>6, <3>1
    <3>3. (num - 1 < n <=> ~(top < num)) /\ (~(top < num) => n - (num - 1) = to + 1)
          /\ (top < num => to + 1 = 1) /\ to # n
          BY <1>1, <2>3
    <3> QED BY <1>7, <3>1, <3>2, <3>3
  <2> QED BY <2>1, <2>2, <2>3
<1> QED BY <1>3, <1>8

LEMMA DownIs ==
    ASSUME NEW n, NEW s, NEW top, Stands(n, s, top), NEW num \in Nat \ {0}
    PROVE  LET to == IF top + num < n THEN top + num ELSE n
           IN  /\ to \in 0..n /\ Abstract!Smaller(top + num, n) = to
               /\ DownFrom(con.sb_pos, num) = IF to = n THEN NULL ELSE s[to + 1]
<1> DEFINE to == IF top + num < n THEN top + num ELSE n
<1>1. n \in Nat /\ s \in [1..n -> Line] /\ top \in 0..n BY StandsTypes
<1>2. ListOf(Heap, n, s) /\ ViewOf(Heap, n, s, top) BY DEF Stands
<1>3. to \in 0..n /\ Abstract!Smaller(top + num, n) = to BY <1>1 DEF Abstract!Smaller
<1>4. con.sb_pos = IF top = n THEN NULL ELSE s[top + 1] BY <1>2 DEF ViewOf, Heap
<1>5. DownFrom(con.sb_pos, num) = Iterated(Forward, con.sb_pos, num) BY DEF DownFrom
<1>6. CASE top = n
  <2>1. to = n /\ con.sb_pos = NULL BY <1>1, <1>4, <1>6
  <2>2. Iterated(Forward, NULL, num) = NULL BY ForwardFromNull
  <2> QED BY <1>3, <1>5, <2>1, <2>2
<1>7. CASE top # n
  <2> DEFINE i == top + 1
  <2>1. i \in 1..n /\ con.sb_pos = s[i] BY <1>1, <1>4, <1>7
  <2>2. (i + num <= n <=> top + num < n) /\ (top + num < n => i + num = to + 1 /\ to # n)
        BY <1>1, <1>7
  <2> HIDE DEF i
  <2>3. Iterated(Forward, s[i], num) = IF i + num <= n THEN s[i + num] ELSE NULL
        BY <1>2, <2>1, ForwardIsLater
  <2> QED BY <1>3, <1>5, <2>1, <2>2, <2>3
<1> QED BY <1>6, <1>7

LEMMA StepsAreMoves == \A num \in Steps : num \in Nat \ {0}
<1>1. Counts \subseteq Nat \ {0} /\ Size_y \in Nat \ {0} BY ListAssumption
<1>2. ASSUME NEW a \in Nat \ {0}, NEW b \in Nat \ {0} PROVE a * b \in Nat \ {0} OBVIOUS
<1> QED BY <1>1, <1>2 DEF Steps

LEMMA GoingUp ==
    ASSUME NEW n, NEW s, NEW top, Stands(n, s, top), SbUp
    PROVE  /\ con'.sb_max = con.sb_max
           /\ \E num \in Steps : \E m, t, to :
                  /\ Stands(m, t, to)'
                  /\ Abstract!Up(As(s, top, con.sb_max), num) = As(t, to, con.sb_max)
<1>1. PICK num \in Steps : ViewAt(UpFrom(con.sb_pos, num)) BY DEF SbUp
<1> DEFINE to == IF top < num THEN 0 ELSE top - num
<1>2. num \in Nat \ {0} BY StepsAreMoves
<1>3. /\ to \in 0..n /\ Abstract!Larger(0, top - num) = to
      /\ UpFrom(con.sb_pos, num) = IF to = n THEN NULL ELSE s[to + 1]
      BY <1>2, UpIs
<1> HIDE DEF to
<1>4. ViewAt(IF to = n THEN NULL ELSE s[to + 1]) BY <1>1, <1>3
<1>5. Stands(n, s, to)' /\ con'.sb_max = con.sb_max BY <1>3, <1>4, Viewing
<1>6. Abstract!Up(As(s, top, con.sb_max), num) = As(s, to, con.sb_max)
      BY <1>3 DEF Abstract!Up, As
<1> QED BY <1>5, <1>6

LEMMA GoingDown ==
    ASSUME NEW n, NEW s, NEW top, Stands(n, s, top), SbDown
    PROVE  /\ con'.sb_max = con.sb_max
           /\ \E num \in Steps : \E m, t, to :
                  /\ Stands(m, t, to)'
                  /\ Abstract!Down(As(s, top, con.sb_max), num) = As(t, to, con.sb_max)
<1>1. PICK num \in Steps : ViewAt(DownFrom(con.sb_pos, num)) BY DEF SbDown
<1> DEFINE to == IF top + num < n THEN top + num ELSE n
<1>2. num \in Nat \ {0} BY StepsAreMoves
<1>3. /\ to \in 0..n /\ Abstract!Smaller(top + num, n) = to
      /\ DownFrom(con.sb_pos, num) = IF to = n THEN NULL ELSE s[to + 1]
      BY <1>2, DownIs
<1> HIDE DEF to
<1>4. ViewAt(IF to = n THEN NULL ELSE s[to + 1]) BY <1>1, <1>3
<1>5. Stands(n, s, to)' /\ con'.sb_max = con.sb_max BY <1>3, <1>4, Viewing
<1>6. Len(s) = n BY StandsTypes, ListIsSeq
<1>7. Abstract!Down(As(s, top, con.sb_max), num) = As(s, to, con.sb_max)
      BY <1>3, <1>6 DEF Abstract!Down, As
<1> QED BY <1>5, <1>7

LEMMA GoingBack ==
    ASSUME NEW n, NEW s, NEW top, Stands(n, s, top), SbReset
    PROVE  /\ con'.sb_max = con.sb_max /\ Stands(n, s, n)'
           /\ Abstract!Reset(As(s, top, con.sb_max)) = As(s, n, con.sb_max)
<1>1. n \in Nat /\ s \in [1..n -> Line] BY StandsTypes
<1>2. n \in 0..n /\ Len(s) = n BY <1>1, ListIsSeq
<1>3. ViewAt(IF n = n THEN NULL ELSE s[n + 1]) BY DEF SbReset
<1>4. Stands(n, s, n)' /\ con'.sb_max = con.sb_max BY <1>2, <1>3, Viewing
<1>5. Abstract!Reset(As(s, top, con.sb_max)) = As(s, n, con.sb_max)
      BY <1>2 DEF Abstract!Reset, As
<1> QED BY <1>4, <1>5

-----------------------------------------------------------------------------
(* The theorems. *)

\* The inductive invariant: there is a list, and a line of it the view starts at.
IInv == \E n, s, top : Stands(n, s, top)

\* The mapping reads that list and that line.
LEMMA Reading ==
    \A n, s, top : Stands(n, s, top) => Linked = s /\ SbTop = top
BY LinkedIs, SbTopIs DEF Stands

\* A memory with lines enough for the screen has a screen in which no line is twice.
LEMMA ScreenExists ==
    \E s \in [1..Size_y -> Line] : \A i, j \in 1..Size_y : s[i] = s[j] => i = j
<1> DEFINE size == Cardinality(Line)
<1>1. size \in Nat /\ ExistsBijection(1..size, Line) BY ListAssumption, FS_CardinalityType
<1>2. Size_y <= size /\ Size_y \in Nat BY ListAssumption
<1> HIDE DEF size
<1>3. PICK f \in [1..size -> Line] : \A i, j \in 1..size : f[i] = f[j] => i = j
      BY <1>1 DEF ExistsBijection, Bijection, Injection, IsInjective
<1> DEFINE g == [i \in 1..Size_y |-> f[i]]
<1>4. \A i \in 1..Size_y : i \in 1..size BY <1>1, <1>2
<1>5. g \in [1..Size_y -> Line] /\ \A i, j \in 1..Size_y : g[i] = g[j] => i = j
      BY <1>3, <1>4
<1> HIDE DEF g
<1> QED BY <1>5

LEMMA InitStands == Init => Stands(0, << >>, 0) /\ con.sb_max = 0
<1> SUFFICES ASSUME Init PROVE Stands(0, << >>, 0) /\ con.sb_max = 0 OBVIOUS
<1>1. /\ con.sb_count = 0 /\ con.sb_first = NULL /\ con.sb_last = NULL /\ con.sb_max = 0
      /\ con.sb_pos = NULL /\ con.sb_last_id = 0 /\ con \in Cons
      BY NullIsNoLine DEF Init, Cons
<1>2. node \in Nodes BY NullIsNoLine DEF Init, Nodes, Fresh
<1>3. Heap \in Heaps /\ Heap.con = con BY <1>1, <1>2 DEF Heap, Heaps
<1>4. ListOf(Heap, 0, << >>)
  <2>1. << >> \in [1..0 -> Line] OBVIOUS
  <2> QED BY <1>1, <1>3, <2>1 DEF ListOf, Chained
<1>5. ViewOf(Heap, 0, << >>, 0) BY <1>1, <1>3 DEF ViewOf
<1>6. screen \in [1..Size_y -> Line] /\ \A i, j \in 1..Size_y : screen[i] = screen[j] => i = j
  <2>1. \E s \in [1..Size_y -> Line] : IsInjective(s) BY ScreenExists DEF IsInjective
  <2>2. screen = CHOOSE s \in [1..Size_y -> Line] : IsInjective(s) BY DEF Init
  <2>3. screen \in [1..Size_y -> Line] /\ IsInjective(screen) BY <2>1, <2>2
  <2> QED BY <2>3 DEF IsInjective
<1>7. Places(screen, free, 0, << >>)
  <2>1. free = Line \ {screen[j] : j \in 1..Size_y} BY <1>6 DEF Init, Range
  <2>2. 1..0 = {} OBVIOUS
  <2> QED BY <1>6, <2>1, <2>2 DEF Places
<1>8. MaxId \in Nat BY ListAssumption
<1> QED BY <1>1, <1>4, <1>5, <1>7, <1>8 DEF Stands

\* Every step of the list is one of the abstract scrollback.
LEMMA StepPushes ==
    ASSUME NEW n, NEW s, NEW top, Stands(n, s, top), Next
    PROVE  \E m, t, to :
               /\ Stands(m, t, to)'
               /\ \/ \E line \in Line, fixed \in BOOLEAN :
                         As(t, to, con'.sb_max)
                           = Abstract!Pushed(As(s, top, con.sb_max), <<line>>, fixed)
                  \/ \E num \in 1..Len(s) :
                         As(t, to, con'.sb_max) = Abstract!Pulled(As(s, top, con.sb_max), num)
                  \/ \E max \in Maxima :
                         As(t, to, con'.sb_max) = Abstract!Limited(As(s, top, con.sb_max), max)
                  \/ As(t, to, con'.sb_max) = Abstract!Cleared(As(s, top, con.sb_max))
                  \/ \E num \in Steps :
                         \/ As(t, to, con'.sb_max) = Abstract!Up(As(s, top, con.sb_max), num)
                         \/ As(t, to, con'.sb_max) = Abstract!Down(As(s, top, con.sb_max), num)
                  \/ As(t, to, con'.sb_max) = Abstract!Reset(As(s, top, con.sb_max))
<1>1. Len(s) = n /\ con.fixed_pos \in BOOLEAN BY StandsTypes, ListIsSeq
<1>2. CASE LinkToScrollback BY <1>1, <1>2, Linking
<1>3. CASE TakeBack BY <1>1, <1>3, TakingBack
<1>4. CASE SetMaxSb BY <1>4, Limiting
<1>5. CASE ClearSb
  <2>1. Stands(0, << >>, 0)' /\ con'.sb_max = con.sb_max BY <1>5, Clearing
  <2>2. Abstract!Cleared(As(s, top, con.sb_max)) = As(<< >>, 0, con.sb_max)
        BY DEF Abstract!Cleared, As
  <2> QED BY <2>1, <2>2
<1>6. CASE SbUp BY <1>6, GoingUp
<1>7. CASE SbDown BY <1>7, GoingDown
<1>8. CASE SbReset BY <1>8, GoingBack
<1> QED BY <1>2, <1>3, <1>4, <1>5, <1>6, <1>7, <1>8 DEF Next

LEMMA Inductive ==
    ASSUME IInv, [Next]_vars
    PROVE  IInv'
<1>1. PICK n, s, top : Stands(n, s, top) BY DEF IInv
<1>2. CASE Next
  <2>1. \E m, t, to : Stands(m, t, to)' BY <1>1, <1>2, StepPushes
  <2> QED BY <2>1 DEF IInv
<1>3. CASE UNCHANGED vars
  <2>1. Stands(n, s, top)' BY <1>1, <1>3 DEF vars, Stands, Heap
  <2> QED BY <2>1 DEF IInv
<1> QED BY <1>2, <1>3

LEMMA Invariance == Spec => []IInv
<1>1. Init => IInv BY InitStands DEF IInv
<1>2. IInv /\ [Next]_vars => IInv' BY Inductive
<1> QED BY <1>1, <1>2, PTL DEF Spec

\* Whatever scrolls off, is taken back, dropped or cleared, the pointers go through
\* sb_count lines, back as forth, and every line is in the list, on the screen or
\* freed, and in one of them only (link_to_scrollback, tsm_screen_resize,
\* tsm_screen_set_max_sb, tsm_screen_clear_sb).
THEOREM LinesAreKept == Spec => []LinesHaveOnePlace
<1>1. IInv => LinesHaveOnePlace
  <2> SUFFICES ASSUME NEW n, NEW s, NEW top, Stands(n, s, top) PROVE LinesHaveOnePlace
      BY DEF IInv
  <2>1. Linked = s BY Reading
  <2>2. /\ Heap \in Heaps /\ n \in Nat /\ s \in [1..n -> Line] /\ con.sb_count = n
        /\ \A i, j \in 1..n : s[i] = s[j] => i = j
        BY StandsTypes
  <2>3. Len(s) = n /\ DOMAIN s = 1..n BY <2>2, ListIsSeq
  <2>4. /\ ListOf(Heap, n, s) /\ Places(screen, free, n, s) /\ con.sb_last_id <= MaxId
        BY DEF Stands
  <2>5. /\ screen \in [1..Size_y -> Line] /\ free \subseteq Line
        /\ \A i, j \in 1..Size_y : screen[i] = screen[j] => i = j
        /\ \A i \in 1..n, j \in 1..Size_y : s[i] # screen[j]
        BY <2>4 DEF Places
  <2>6. TypeOK BY <2>2, <2>4, <2>5 DEF TypeOK
  <2>7. IsInjective(s) /\ IsInjective(screen) BY <2>2, <2>3, <2>5 DEF IsInjective
  <2>8. Range(s) = {s[i] : i \in 1..n} /\ Range(screen) = {screen[j] : j \in 1..Size_y}
        BY <2>3, <2>5 DEF Range
  <2>9. Range(s) \cap Range(screen) = {} BY <2>5, <2>8
  <2>10. free = Line \ (Range(s) \cup Range(screen))
    <3>1. \A l \in Line : (l \in free) <=> (/\ \A i \in 1..n : s[i] # l
                                            /\ \A j \in 1..Size_y : screen[j] # l)
          BY <2>4 DEF Places
    <3> QED BY <2>5, <2>8, <3>1
  <2>11. con.sb_last = IF s = << >> THEN NULL ELSE s[Len(s)]
    <3>1. s = << >> <=> n = 0 BY <2>2, <2>3
    <3> QED BY <2>3, <2>4, <3>1 DEF ListOf, Chained, Heap
  <2>12. \A i \in DOMAIN s : node[s[i]].prev = IF i = 1 THEN NULL ELSE s[i - 1]
         BY <2>3, <2>4 DEF ListOf, Chained, Heap
  <2> QED BY <2>1, <2>2, <2>3, <2>6, <2>7, <2>9, <2>10, <2>11, <2>12 DEF LinesHaveOnePlace
<1> QED BY <1>1, Invariance, PTL

\* The numbers drawing and copying a selection compare increase along the list
\* (link_to_scrollback numbers a line, and no line keeps a number it had before).
THEOREM NumbersAreOrdered == Spec => []NumberedInOrder
<1>1. IInv => NumberedInOrder
  <2> SUFFICES ASSUME NEW n, NEW s, NEW top, Stands(n, s, top) PROVE NumberedInOrder
      BY DEF IInv
  <2>1. Linked = s BY Reading
  <2>2. DOMAIN s = 1..n BY StandsTypes
  <2>3. ListOf(Heap, n, s) BY DEF Stands
  <2> QED BY <2>1, <2>2, <2>3 DEF NumberedInOrder, ListOf, Chained, Heap
<1> QED BY <1>1, Invariance, PTL

\* The linked list with its pointer to a line does what the sequence with its number
\* of lines above the view does, step by step (everything tsm-screen.c does with sb_first,
\* sb_last, sb_pos and sb_count).
THEOREM ListImplementsScrollback == Spec => ImplementsScrollback
<1> DEFINE sb == [lines |-> Linked, top |-> SbTop, max |-> con.sb_max]
<1>1. Init => Abstract!Init
  <2> SUFFICES ASSUME Init PROVE Abstract!Init OBVIOUS
  <2>1. Stands(0, << >>, 0) /\ con.sb_max = 0 BY InitStands
  <2>2. Linked = << >> /\ SbTop = 0 BY <2>1, Reading
  <2> QED BY <2>1, <2>2 DEF Abstract!Init, Abstract!Empty
<1>2. (\A n, s, top : Stands(n, s, top) => Linked = s /\ SbTop = top)' BY Reading, PTL
<1>3. IInv /\ [Next]_vars => [Abstract!Next]_sb
  <2> SUFFICES ASSUME IInv, [Next]_vars PROVE [Abstract!Next]_sb OBVIOUS
  <2>1. PICK n, s, top : Stands(n, s, top) BY DEF IInv
  <2>2. sb = As(s, top, con.sb_max) BY <2>1, Reading DEF As
  <2>3. ASSUME NEW m, NEW t, NEW to, Stands(m, t, to)' PROVE sb' = As(t, to, con'.sb_max)
        BY <1>2, <2>3 DEF As
  <2>4. Linked = s BY <2>1, Reading
  <2>5. CASE Next
    <3> HIDE DEF sb
    <3>1. PICK m, t, to :
               /\ Stands(m, t, to)'
               /\ \/ \E line \in Line, fixed \in BOOLEAN :
                         As(t, to, con'.sb_max)
                           = Abstract!Pushed(As(s, top, con.sb_max), <<line>>, fixed)
                  \/ \E num \in 1..Len(s) :
                         As(t, to, con'.sb_max) = Abstract!Pulled(As(s, top, con.sb_max), num)
                  \/ \E max \in Maxima :
                         As(t, to, con'.sb_max) = Abstract!Limited(As(s, top, con.sb_max), max)
                  \/ As(t, to, con'.sb_max) = Abstract!Cleared(As(s, top, con.sb_max))
                  \/ \E num \in Steps :
                         \/ As(t, to, con'.sb_max) = Abstract!Up(As(s, top, con.sb_max), num)
                         \/ As(t, to, con'.sb_max) = Abstract!Down(As(s, top, con.sb_max), num)
                  \/ As(t, to, con'.sb_max) = Abstract!Reset(As(s, top, con.sb_max))
          BY <2>1, <2>5, StepPushes
    <3>2. sb' = As(t, to, con'.sb_max) BY <2>3, <3>1
    <3>3. sb.lines = s BY <2>2 DEF As
    <3> QED BY <2>2, <3>1, <3>2, <3>3 DEF Abstract!Next, sb
  <2>6. CASE UNCHANGED vars
    <3>1. Stands(n, s, top)' /\ con' = con BY <2>1, <2>6 DEF vars, Stands, Heap
    <3>2. sb' = As(s, top, con'.sb_max) BY <2>3, <3>1
    <3> QED BY <2>2, <3>1, <3>2
  <2> QED BY <2>5, <2>6
<1> QED BY <1>1, <1>3, Invariance, PTL DEF Spec, ImplementsScrollback, Abstract!Spec

=============================================================================
