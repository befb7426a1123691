---------------------------- MODULE RegisterProofs ----------------------------
(***************************************************************************)
(* Proofs about Register for every page size, every register and every     *)
(* number of changes of it.                                                *)
(*                                                                         *)
(* The idea: the client has seen a prefix of what a query shows.  An entry *)
(* that is added anywhere can only push others towards pages that are yet  *)
(* to be read, and the number of pages of the last answer says that        *)
(* nothing is left behind it.                                              *)
(***************************************************************************)
EXTENDS Register, Lemmas

\* The entry as the client reads it.
Read(entry) == [id |-> entry.id, url |-> entry.url]

EachOnce(repositories) ==
  \A i, j \in DOMAIN repositories : repositories[i].id = repositories[j].id => i = j

\* The IDs after one more repository.
LEMMA AppendedID ==
  ASSUME NEW S, NEW s \in Seq(S), NEW last \in S
  PROVE  IdsOf(Append(s, last)) = IdsOf(s) \cup {last.id}
<1> DEFINE longer == Append(s, last)
<1>1. /\ DOMAIN longer = 1..Len(s) + 1 /\ DOMAIN s = 1..Len(s) /\ Len(s) \in Nat
      /\ \A k \in 1..Len(s) : longer[k] = s[k]
      /\ longer[Len(s) + 1] = last
  OBVIOUS
<1> HIDE DEF longer
<1>2. ASSUME NEW k \in DOMAIN longer PROVE longer[k].id \in IdsOf(s) \cup {last.id}
  <2>1. k \in 1..Len(s) \/ k = Len(s) + 1
    BY <1>1
  <2>2. QED
    BY <1>1, <2>1 DEF IdsOf
<1>3. ASSUME NEW k \in DOMAIN s PROVE s[k].id \in IdsOf(longer)
  <2>1. k \in DOMAIN longer /\ longer[k] = s[k]
    BY <1>1
  <2>2. QED
    BY <2>1 DEF IdsOf
<1>4. last.id \in IdsOf(longer)
  <2>1. Len(s) + 1 \in DOMAIN longer
    BY <1>1
  <2>2. QED
    BY <1>1, <2>1 DEF IdsOf
<1>5. QED
  BY <1>2, <1>3, <1>4 DEF IdsOf, longer

-----------------------------------------------------------------------------
(* The loop over a page. *)

\* upTo has the result of the loop after each item.
IsJoin(known, items, upTo) ==
  /\ upTo[0] = known
  /\ \A i \in 1..Len(items) :
       upTo[i] = IF items[i].id \in Seen(known, items, i) THEN upTo[i - 1]
                 ELSE Append(upTo[i - 1], items[i])

LEMMA JoinDefined ==
  ASSUME NEW known \in Seq(Repository), NEW items \in Seq(Repository)
  PROVE  \E upTo : IsJoin(known, items, upTo) /\ Joined(known, items) = upTo[Len(items)]
<1> DEFINE n == Len(items)
           Pass(acc, i) == IF items[i].id \in Seen(known, items, i) THEN acc
                           ELSE Append(acc, items[i])
           Loop(f) == [i \in 0..n |-> IF i = 0 THEN known ELSE Pass(f[i - 1], i)]
           step == [i \in 1..n |-> [acc \in Seq(Repository) |-> Pass(acc, i)]]
           upTo == CHOOSE f : f = Loop(f)
<1>1. n \in Nat /\ \A i \in 1..n : items[i] \in Repository
  OBVIOUS
<1>2. step \in [1..n -> [Seq(Repository) -> Seq(Repository)]]
  BY <1>1
<1>3. PICK f : IsLoop(f, n, Seq(Repository), known, step)
  <2>1. n \in Nat
    OBVIOUS
  <2> HIDE DEF step, n
  <2>2. QED
    BY <1>2, <2>1, LoopExists
<1>4. f = Loop(f)
  <2>1. \A i \in 1..n : f[i - 1] \in Seq(Repository)
    BY <1>3 DEF IsLoop
  <2>2. f[0] = known /\ \A i \in 1..n : f[i] = Pass(f[i - 1], i)
    BY <1>3, <2>1 DEF IsLoop
  <2> HIDE DEF n, Pass, step
  <2>3. f = [i \in 0..n |-> f[i]]
    BY <1>3 DEF IsLoop
  <2>4. \A i \in 0..n : f[i] = IF i = 0 THEN known ELSE Pass(f[i - 1], i)
    <3>1. \A i \in 0..n : i = 0 \/ i \in 1..n
      OBVIOUS
    <3>2. QED
      BY <2>2, <3>1
  <2>5. QED
    BY <2>3, <2>4
<1>5. upTo = Loop(upTo)
  <2> HIDE DEF Loop
  <2>1. QED
    BY <1>4
<1>6. Joined(known, items) = upTo[n]
  BY DEF Joined
<1>7. IsJoin(known, items, upTo)
  <2>1. \A i \in 0..n : upTo[i] = IF i = 0 THEN known ELSE Pass(upTo[i - 1], i)
    <3> HIDE DEF upTo, Pass, n
    <3>1. QED
      BY <1>5
  <2>2. 0 \in 0..n /\ \A i \in 1..n : i \in 0..n /\ i # 0
    OBVIOUS
  <2>3. upTo[0] = known /\ \A i \in 1..n : upTo[i] = Pass(upTo[i - 1], i)
    <3> HIDE DEF upTo, Pass, n
    <3>1. QED
      BY <2>1, <2>2
  <2> HIDE DEF upTo
  <2>4. QED
    BY <2>3 DEF IsJoin
<1>8. QED
  BY <1>6, <1>7

\* A page adds the repositories that were not read before, each once, and is
\* without effect when it has none.
LEMMA JoinedFacts ==
  ASSUME NEW known \in Seq(Repository), NEW items \in Seq(Repository)
  PROVE  /\ Joined(known, items) \in Seq(Repository)
         /\ IdsOf(Joined(known, items)) = IdsOf(known) \cup IdsOf(items)
         /\ EachOnce(known) => EachOnce(Joined(known, items))
         /\ IdsOf(items) \subseteq IdsOf(known) => Joined(known, items) = known
<1> DEFINE n == Len(items)
<1>1. n \in Nat /\ DOMAIN items = 1..n /\ \A i \in 1..n : items[i] \in Repository
  OBVIOUS
<1>2. PICK upTo : IsJoin(known, items, upTo) /\ Joined(known, items) = upTo[n]
  BY JoinDefined
<1> DEFINE Kept(i) ==
             /\ upTo[i] \in Seq(Repository)
             /\ IdsOf(upTo[i]) = Seen(known, items, i + 1)
             /\ EachOnce(known) => EachOnce(upTo[i])
             /\ IdsOf(items) \subseteq IdsOf(known) => upTo[i] = known
           T == {i \in 0..n : Kept(i)}
<1>3. 0 \in T
  <2>1. upTo[0] = known
    BY <1>2 DEF IsJoin
  <2>2. Seen(known, items, 0 + 1) = IdsOf(known)
    BY DEF Seen
  <2>3. QED
    BY <1>1, <2>1, <2>2
<1>4. ASSUME NEW i \in 1..n, i - 1 \in T PROVE i \in T
  <2>1. Kept(i - 1) /\ i \in 0..n /\ (i - 1) + 1 = i
    BY <1>1, <1>4
  <2>2. Seen(known, items, i + 1) = Seen(known, items, i) \cup {items[i].id}
    BY <1>1 DEF Seen
  <2>3. upTo[i] = IF items[i].id \in Seen(known, items, i) THEN upTo[i - 1]
                  ELSE Append(upTo[i - 1], items[i])
    BY <1>2 DEF IsJoin
  <2>4. CASE items[i].id \in Seen(known, items, i)
    <3>1. upTo[i] = upTo[i - 1] /\ Seen(known, items, i + 1) = Seen(known, items, i)
      BY <2>2, <2>3, <2>4
    <3>2. QED
      BY <2>1, <3>1
  <2>5. CASE items[i].id \notin Seen(known, items, i)
    <3> DEFINE old == upTo[i - 1]
    <3>1. old \in Seq(Repository) /\ IdsOf(old) = Seen(known, items, i)
      BY <2>1
    <3>2. upTo[i] = Append(old, items[i])
      BY <2>3, <2>5
    <3> HIDE DEF old
    <3>3. upTo[i] \in Seq(Repository)
      BY <1>1, <3>1, <3>2
    <3>4. DOMAIN upTo[i] = 1..Len(old) + 1 /\ DOMAIN old = 1..Len(old) /\ Len(old) \in Nat
          /\ \A k \in 1..Len(old) : upTo[i][k] = old[k]
          /\ upTo[i][Len(old) + 1] = items[i]
      BY <1>1, <3>1, <3>2
    <3>5. IdsOf(upTo[i]) = IdsOf(old) \cup {items[i].id}
      BY <1>1, <3>1, <3>2, AppendedID
    <3>6. EachOnce(known) => EachOnce(upTo[i])
      <4> SUFFICES ASSUME EachOnce(known), NEW k \in DOMAIN upTo[i], NEW m \in DOMAIN upTo[i],
                          upTo[i][k].id = upTo[i][m].id
                   PROVE  k = m
        BY DEF EachOnce
      <4>1. EachOnce(old)
        BY <2>1 DEF old
      <4>2. \A l \in 1..Len(old) : old[l].id # items[i].id
        BY <2>5, <3>1, <3>4 DEF IdsOf
      <4>3. QED
        BY <3>4, <4>1, <4>2 DEF EachOnce
    <3>7. IdsOf(items) \subseteq IdsOf(known) => upTo[i] = known
      BY <1>1, <2>5 DEF IdsOf, Seen
    <3>8. QED
      BY <2>1, <2>2, <3>1, <3>3, <3>5, <3>6, <3>7
  <2>6. QED
    BY <2>4, <2>5
<1>5. 0..n \subseteq T
  <2> HIDE DEF T, n
  <2>1. QED
    BY <1>1, <1>3, <1>4, LoopInduction
<1>6. Kept(n)
  BY <1>1, <1>5
<1>7. Seen(known, items, n + 1) = IdsOf(known) \cup IdsOf(items)
  BY <1>1 DEF Seen, IdsOf
<1>8. QED
  BY <1>2, <1>6, <1>7

-----------------------------------------------------------------------------
(* What a query shows. *)

\* upTo has what a query shows of the first entries.
IsShown(entries, all, q, upTo) ==
  /\ upTo[0] = <<>>
  /\ \A i \in 1..Len(entries) :
       upTo[i] = IF Shows(all, q, entries[i]) THEN Append(upTo[i - 1], Read(entries[i]))
                 ELSE upTo[i - 1]

LEMMA ShownDefined ==
  ASSUME NEW entries \in Seq(Entries), NEW all, NEW q
  PROVE  \E upTo : /\ IsShown(entries, all, q, upTo)
                   /\ \A i \in 0..Len(entries) : upTo[i] \in Seq(Repository)
                   /\ Shown(entries, all, q) = upTo[Len(entries)]
<1> DEFINE n == Len(entries)
           Pass(acc, i) == IF Shows(all, q, entries[i])
                           THEN Append(acc, [id |-> entries[i].id, url |-> entries[i].url])
                           ELSE acc
           Loop(f) == [i \in 0..n |-> IF i = 0 THEN <<>> ELSE Pass(f[i - 1], i)]
           step == [i \in 1..n |-> [acc \in Seq(Repository) |-> Pass(acc, i)]]
           upTo == CHOOSE f : f = Loop(f)
<1>1. n \in Nat /\ \A i \in 1..n : [id |-> entries[i].id, url |-> entries[i].url] \in Repository
  <2>1. \A i \in 1..n : entries[i] \in Entries
    OBVIOUS
  <2>2. \A i \in 1..n : entries[i].id \in Ids /\ entries[i].url \in URLs
    BY <2>1 DEF Entries
  <2>3. n \in Nat
    OBVIOUS
  <2>4. QED
    BY <2>2, <2>3 DEF Repository
<1>2. step \in [1..n -> [Seq(Repository) -> Seq(Repository)]]
  BY <1>1
<1>3. PICK f : IsLoop(f, n, Seq(Repository), <<>>, step)
  <2>1. n \in Nat /\ <<>> \in Seq(Repository)
    OBVIOUS
  <2> HIDE DEF step, n
  <2>2. QED
    BY <1>2, <2>1, LoopExists
<1>4. f = Loop(f)
  <2>1. \A i \in 1..n : f[i - 1] \in Seq(Repository)
    BY <1>3 DEF IsLoop
  <2>2. f[0] = <<>> /\ \A i \in 1..n : f[i] = Pass(f[i - 1], i)
    BY <1>3, <2>1 DEF IsLoop
  <2> HIDE DEF n, Pass, step
  <2>3. f = [i \in 0..n |-> f[i]]
    BY <1>3 DEF IsLoop
  <2>4. \A i \in 0..n : f[i] = IF i = 0 THEN <<>> ELSE Pass(f[i - 1], i)
    <3>1. \A i \in 0..n : i = 0 \/ i \in 1..n
      OBVIOUS
    <3>2. QED
      BY <2>2, <3>1
  <2>5. QED
    BY <2>3, <2>4
<1>5. upTo = Loop(upTo)
  <2> HIDE DEF Loop
  <2>1. QED
    BY <1>4
<1>6. Shown(entries, all, q) = upTo[n]
  BY DEF Shown
<1>7. upTo[0] = <<>> /\ \A i \in 1..n : upTo[i] = Pass(upTo[i - 1], i)
  <2>1. \A i \in 0..n : upTo[i] = IF i = 0 THEN <<>> ELSE Pass(upTo[i - 1], i)
    <3> HIDE DEF upTo, Pass, n
    <3>1. QED
      BY <1>5
  <2>2. 0 \in 0..n /\ \A i \in 1..n : i \in 0..n /\ i # 0
    OBVIOUS
  <2> HIDE DEF upTo, Pass, n
  <2>3. QED
    BY <2>1, <2>2
<1>8. \A i \in 0..n : upTo[i] \in Seq(Repository)
  <2> DEFINE T == {i \in 0..n : upTo[i] \in Seq(Repository)}
  <2>1. 0 \in T
    <3>1. <<>> \in Seq(Repository)
      OBVIOUS
    <3> HIDE DEF upTo, n
    <3>2. upTo[0] = <<>> /\ 0 \in 0..n
      BY <1>1, <1>7
    <3>3. upTo[0] \in Seq(Repository)
      BY <3>1, <3>2
    <3>4. QED
      BY <3>2, <3>3
  <2>2. ASSUME NEW i \in 1..n, i - 1 \in T PROVE i \in T
    <3> HIDE DEF upTo, n
    <3>1. upTo[i - 1] \in Seq(Repository) /\ upTo[i] = Pass(upTo[i - 1], i) /\ i \in 0..n
      BY <1>1, <1>7, <2>2
    <3>2. Pass(upTo[i - 1], i) \in Seq(Repository)
      BY <1>1, <3>1
    <3>3. QED
      BY <3>1, <3>2
  <2>3. 0..n \subseteq T
    <3> HIDE DEF T, n
    <3>1. QED
      BY <1>1, <2>1, <2>2, LoopInduction
  <2>4. QED
    BY <2>3
<1>9. IsShown(entries, all, q, upTo)
  <2> HIDE DEF upTo
  <2>1. QED
    BY <1>7 DEF IsShown, Read
<1>10. QED
  BY <1>6, <1>8, <1>9

\* A query shows the entries it should, and no others.
LEMMA ShownFacts ==
  ASSUME NEW entries \in Seq(Entries), NEW all, NEW q
  PROVE  /\ Shown(entries, all, q) \in Seq(Repository)
         /\ IdsOf(Shown(entries, all, q)) =
              {entries[i].id : i \in {i \in DOMAIN entries : Shows(all, q, entries[i])}}
<1> DEFINE n == Len(entries)
           First(i) == {entries[j].id : j \in {j \in 1..i : Shows(all, q, entries[j])}}
<1>1. n \in Nat /\ DOMAIN entries = 1..n /\ \A i \in 1..n : entries[i] \in Entries
  OBVIOUS
<1>2. PICK upTo : /\ IsShown(entries, all, q, upTo)
                  /\ \A i \in 0..n : upTo[i] \in Seq(Repository)
                  /\ Shown(entries, all, q) = upTo[n]
  BY ShownDefined
<1> DEFINE T == {i \in 0..n : IdsOf(upTo[i]) = First(i)}
<1>3. 0 \in T
  <2>1. upTo[0] = <<>>
    BY <1>2 DEF IsShown
  <2>2. IdsOf(<<>>) = {}
    BY DEF IdsOf
  <2>3. First(0) = {}
    OBVIOUS
  <2>4. QED
    BY <1>1, <2>1, <2>2, <2>3
<1>4. ASSUME NEW i \in 1..n, i - 1 \in T PROVE i \in T
  <2> DEFINE old == upTo[i - 1]
  <2>1. IdsOf(old) = First(i - 1) /\ old \in Seq(Repository) /\ i \in 0..n
    BY <1>1, <1>2, <1>4
  <2>2. upTo[i] = IF Shows(all, q, entries[i]) THEN Append(old, Read(entries[i])) ELSE old
    BY <1>2 DEF IsShown
  <2>3. Read(entries[i]).id = entries[i].id
    BY DEF Read
  <2>4. 1..i = 1..i - 1 \cup {i}
    BY <1>1
  <2>5. CASE Shows(all, q, entries[i])
    <3>1. Read(entries[i]) \in Repository
      BY <1>1 DEF Read, Entries, Repository
    <3>2. IdsOf(Append(old, Read(entries[i]))) = IdsOf(old) \cup {entries[i].id}
      <4> HIDE DEF old
      <4>1. QED
        BY <2>1, <2>3, <3>1, AppendedID
    <3>3. First(i) = First(i - 1) \cup {entries[i].id}
      BY <2>4, <2>5
    <3>4. QED
      BY <2>1, <2>2, <2>5, <3>2, <3>3
  <2>6. CASE ~Shows(all, q, entries[i])
    <3>1. First(i) = First(i - 1)
      BY <2>4, <2>6
    <3>2. QED
      BY <2>1, <2>2, <2>6, <3>1
  <2>7. QED
    BY <2>5, <2>6
<1>5. 0..n \subseteq T
  <2> HIDE DEF T, n
  <2>1. QED
    BY <1>1, <1>3, <1>4, LoopInduction
<1>6. IdsOf(upTo[n]) = First(n)
  <2>1. n \in T
    <3> HIDE DEF T, n
    <3>1. QED
      BY <1>1, <1>5
  <2> HIDE DEF First
  <2>2. QED
    BY <2>1
<1>7. upTo[n] \in Seq(Repository)
  BY <1>1, <1>2
<1>8. QED
  BY <1>1, <1>2, <1>6, <1>7

\* An entry that is added is between those before it and those after it.
Inserted(s, k, entry, t) ==
  /\ Len(t) = Len(s) + 1
  /\ \A i \in 1..Len(s) + 1 : t[i] = IF i < k THEN s[i] ELSE IF i = k THEN entry ELSE s[i - 1]

LEMMA InsertedEntry ==
  ASSUME NEW S, NEW s \in Seq(S), NEW entry \in S, NEW k \in 1..Len(s) + 1
  PROVE  InsertAt(s, k, entry) \in Seq(S) /\ Inserted(s, k, entry, InsertAt(s, k, entry))
<1> DEFINE before == SubSeq(s, 1, k - 1)
           after == SubSeq(s, k, Len(s))
<1>1. Len(s) \in Nat /\ k \in Int /\ 1 <= k /\ k <= Len(s) + 1
  OBVIOUS
<1>2. before \in Seq(S) /\ Len(before) = k - 1 /\ \A i \in 1..k - 1 : before[i] = s[i]
  BY <1>1
<1>3. after \in Seq(S) /\ Len(after) = Len(s) + 1 - k
      /\ \A i \in 1..Len(s) + 1 - k : after[i] = s[k + i - 1]
  BY <1>1
<1>4. InsertAt(s, k, entry) = (before \o <<entry>>) \o after
  BY DEF InsertAt
<1> DEFINE head == before \o <<entry>>
<1> HIDE DEF before, after
<1>5. head \in Seq(S) /\ Len(head) = k /\ (\A i \in 1..k - 1 : head[i] = s[i]) /\ head[k] = entry
  BY <1>1, <1>2
<1> HIDE DEF head
<1>6. head \o after \in Seq(S) /\ Len(head \o after) = Len(s) + 1
      /\ \A i \in 1..Len(s) + 1 : (head \o after)[i] = IF i <= k THEN head[i] ELSE after[i - k]
  <2>1. head \o after \in Seq(S) /\ Len(head \o after) = Len(head) + Len(after)
        /\ \A i \in 1..Len(head) + Len(after) :
             (head \o after)[i] = IF i <= Len(head) THEN head[i] ELSE after[i - Len(head)]
    BY <1>3, <1>5, ConcatProperties
  <2>2. Len(head) + Len(after) = Len(s) + 1
    BY <1>1, <1>3, <1>5
  <2>3. QED
    BY <1>5, <2>1, <2>2
<1>7. \A i \in 1..Len(s) + 1 : (head \o after)[i] =
        IF i < k THEN s[i] ELSE IF i = k THEN entry ELSE s[i - 1]
  <2> TAKE i \in 1..Len(s) + 1
  <2>1. CASE i <= k
    <3>1. (head \o after)[i] = head[i]
      BY <1>6, <2>1
    <3>2. i \in 1..k - 1 \/ i = k
      BY <1>1, <2>1
    <3>3. QED
      BY <1>1, <1>5, <3>1, <3>2
  <2>2. CASE i > k
    <3>1. i - k \in 1..Len(s) + 1 - k /\ k + (i - k) - 1 = i - 1
      BY <1>1, <2>2
    <3>2. (head \o after)[i] = after[i - k]
      BY <1>1, <1>6, <2>2
    <3>3. after[i - k] = s[i - 1]
      BY <1>3, <3>1
    <3>4. ~(i < k) /\ i # k
      BY <1>1, <2>2
    <3>5. QED
      BY <3>2, <3>3, <3>4
  <2>3. i <= k \/ i > k
    BY <1>1
  <2>4. QED
    BY <2>1, <2>2, <2>3
<1>8. QED
  BY <1>4, <1>6, <1>7 DEF head, Inserted

\* An added entry only pushes others to later pages: what a query then shows at a
\* place is the new entry, or was at that place or before it.
LEMMA AddedToShown ==
  ASSUME NEW s \in Seq(Entries), NEW entry \in Entries, NEW k \in 1..Len(s) + 1,
         NEW all, NEW q
  PROVE  LET old == Shown(s, all, q)
             new == Shown(InsertAt(s, k, entry), all, q)
         IN \A j \in DOMAIN new :
              new[j].id = entry.id \/ \E m \in DOMAIN old : m <= j /\ old[m] = new[j]
<1> DEFINE n == Len(s)
           t == InsertAt(s, k, entry)
           Pushed(old, new) ==
             /\ Len(old) <= Len(new)
             /\ \A j \in DOMAIN new :
                  new[j].id = entry.id \/ \E m \in DOMAIN old : m <= j /\ old[m] = new[j]
<1>1. n \in Nat /\ k \in 1..n + 1
  OBVIOUS
<1>2. t \in Seq(Entries) /\ Len(t) = n + 1
      /\ \A i \in 1..n + 1 : t[i] = IF i < k THEN s[i] ELSE IF i = k THEN entry ELSE s[i - 1]
  <2>1. t \in Seq(Entries) /\ Inserted(s, k, entry, t)
    BY InsertedEntry
  <2>2. QED
    BY <2>1 DEF Inserted
<1>3. PICK old : /\ IsShown(s, all, q, old)
                 /\ \A i \in 0..n : old[i] \in Seq(Repository)
                 /\ Shown(s, all, q) = old[n]
  BY ShownDefined
<1> HIDE DEF n, t
<1>4. PICK new : /\ IsShown(t, all, q, new)
                 /\ \A i \in 0..Len(t) : new[i] \in Seq(Repository)
                 /\ Shown(t, all, q) = new[Len(t)]
  BY <1>2, ShownDefined
<1>5. /\ old[0] = <<>> /\ new[0] = <<>>
      /\ \A i \in 1..n : old[i] = IF Shows(all, q, s[i]) THEN Append(old[i - 1], Read(s[i]))
                                  ELSE old[i - 1]
      /\ \A i \in 1..n + 1 : new[i] = IF Shows(all, q, t[i]) THEN Append(new[i - 1], Read(t[i]))
                                      ELSE new[i - 1]
  BY <1>2, <1>3, <1>4 DEF IsShown, n
<1>6. (\A i \in 0..n : old[i] \in Seq(Repository)) /\ \A i \in 0..n + 1 : new[i] \in Seq(Repository)
  BY <1>2, <1>3, <1>4
<1>7. \A i \in 0..n : i < k => new[i] = old[i]
  <2> DEFINE T == {i \in 0..n : i < k => new[i] = old[i]}
  <2>1. 0 \in T
    BY <1>1, <1>5
  <2>2. ASSUME NEW i \in 1..n, i - 1 \in T PROVE i \in T
    <3>1. i \in 0..n
      BY <1>1
    <3>2. CASE i < k
      <4>1. i \in 1..n + 1 /\ t[i] = s[i] /\ new[i - 1] = old[i - 1]
        BY <1>1, <1>2, <2>2, <3>2
      <4>2. QED
        BY <1>5, <3>1, <4>1
    <3>3. QED
      BY <3>1, <3>2
  <2>3. 0..n \subseteq T
    <3> HIDE DEF T
    <3>1. QED
      BY <1>1, <2>1, <2>2, LoopInduction
  <2>4. QED
    BY <2>3
<1>8. \A i \in 0..n : i >= k - 1 => Pushed(old[i], new[i + 1])
  <2> DEFINE T == {i \in 0..n : i >= k - 1 => Pushed(old[i], new[i + 1])}
  <2>1. ASSUME NEW i \in 0..n, i = k - 1 PROVE Pushed(old[i], new[i + 1])
    <3>1. new[i] = old[i] /\ i + 1 \in 1..n + 1 /\ i + 1 = k /\ (i + 1) - 1 = i
      BY <1>1, <1>7, <2>1
    <3>2. t[i + 1] = entry
      BY <1>1, <1>2, <3>1
    <3>3. new[i + 1] = old[i] \/ new[i + 1] = Append(old[i], Read(entry))
      BY <1>5, <3>1, <3>2
    <3>4. old[i] \in Seq(Repository) /\ Read(entry).id = entry.id
      BY <1>6 DEF Read
    <3>5. Read(entry) \in Repository
      BY DEF Read, Entries, Repository
    <3> DEFINE w == old[i]
               v == new[i + 1]
               x == Read(entry)
    <3>6. w \in Seq(Repository) /\ x.id = entry.id /\ x \in Repository /\ (v = w \/ v = Append(w, x))
      BY <3>3, <3>4, <3>5
    <3> HIDE DEF w, v, x
    <3>7. Pushed(w, v)
      BY <3>6
    <3>8. QED
      BY <3>7 DEF w, v
  <2>2. 0 \in T
    BY <1>1, <2>1
  <2>3. ASSUME NEW i \in 1..n, i - 1 \in T PROVE i \in T
    <3>1. i \in 0..n /\ i - 1 \in 0..n /\ i + 1 \in 1..n + 1 /\ (i - 1) + 1 = i /\ (i + 1) - 1 = i
      BY <1>1
    <3>2. CASE i > k - 1
      <4> DEFINE w == old[i - 1]
                 v == new[i]
                 x == Read(s[i])
      <4>1. Pushed(w, v)
        BY <1>1, <2>3, <3>1, <3>2
      <4>2. t[i + 1] = s[i]
        BY <1>1, <1>2, <3>1, <3>2
      <4>3. \/ old[i] = w /\ new[i + 1] = v
            \/ old[i] = Append(w, x) /\ new[i + 1] = Append(v, x)
        BY <1>5, <3>1, <4>2
      <4>4. w \in Seq(Repository) /\ v \in Seq(Repository) /\ x \in Repository
        <5>1. s[i] \in Entries
          BY DEF n
        <5>2. x \in Repository
          BY <5>1 DEF Read, Entries, Repository
        <5>3. QED
          BY <1>1, <1>6, <3>1, <5>2
      <4> HIDE DEF w, v, x
      <4>5. Pushed(Append(w, x), Append(v, x))
        <5> DEFINE ww == Append(w, x)
                   vv == Append(v, x)
        <5>1. /\ Len(w) \in Nat /\ Len(v) \in Nat
              /\ DOMAIN w = 1..Len(w) /\ DOMAIN v = 1..Len(v)
              /\ Len(ww) = Len(w) + 1 /\ DOMAIN ww = 1..Len(w) + 1
              /\ Len(vv) = Len(v) + 1 /\ DOMAIN vv = 1..Len(v) + 1
              /\ (\A j \in 1..Len(w) : ww[j] = w[j]) /\ ww[Len(w) + 1] = x
              /\ (\A j \in 1..Len(v) : vv[j] = v[j]) /\ vv[Len(v) + 1] = x
          BY <4>4
        <5> HIDE DEF ww, vv
        <5>2. ASSUME NEW j \in DOMAIN vv
              PROVE  vv[j].id = entry.id \/ \E m \in DOMAIN ww : m <= j /\ ww[m] = vv[j]
          <6>1. CASE j \in 1..Len(v)
            <7>1. vv[j] = v[j]
              BY <5>1, <6>1
            <7>2. v[j].id = entry.id \/ \E m \in 1..Len(w) : m <= j /\ w[m] = v[j]
              BY <4>1, <5>1, <6>1
            <7>3. 1..Len(w) \subseteq DOMAIN ww
              BY <5>1
            <7>4. QED
              BY <5>1, <7>1, <7>2, <7>3
          <6>2. CASE j = Len(v) + 1
            <7>1. Len(w) + 1 \in DOMAIN ww /\ Len(w) + 1 <= j /\ ww[Len(w) + 1] = vv[j]
              BY <4>1, <5>1, <6>2
            <7>2. QED
              BY <7>1
          <6>3. QED
            BY <5>1, <6>1, <6>2
        <5>3. Len(ww) <= Len(vv)
          BY <4>1, <5>1
        <5>4. QED
          BY <5>2, <5>3 DEF ww, vv
      <4>6. Pushed(old[i], new[i + 1])
        <5> HIDE DEF Pushed
        <5>1. QED
          BY <4>1, <4>3, <4>5
      <4>7. QED
        BY <3>1, <4>6
    <3>3. CASE i = k - 1
      BY <2>1, <3>1, <3>3
    <3>4. CASE i < k - 1
      BY <1>1, <3>1, <3>4
    <3>5. QED
      BY <1>1, <3>2, <3>3, <3>4
  <2>4. 0..n \subseteq T
    <3> HIDE DEF T
    <3>1. QED
      BY <1>1, <2>2, <2>3, LoopInduction
  <2>5. QED
    <3> HIDE DEF Pushed
    <3>1. QED
      BY <2>4
<1>9. Pushed(old[n], new[n + 1])
  <2> HIDE DEF Pushed
  <2>1. QED
    BY <1>1, <1>8
<1>10. QED
  BY <1>2, <1>3, <1>4, <1>9 DEF t

\* A repository that moves to another URL stays at its place.
LEMMA MovedInShown ==
  ASSUME NEW s \in Seq(Entries), NEW t \in Seq(Entries), NEW all, NEW q, Len(t) = Len(s),
         \A i \in 1..Len(s) : t[i].id = s[i].id /\ t[i].code = s[i].code
  PROVE  /\ Len(Shown(t, all, q)) = Len(Shown(s, all, q))
         /\ \A j \in DOMAIN Shown(s, all, q) : Shown(t, all, q)[j].id = Shown(s, all, q)[j].id
<1> DEFINE n == Len(s)
           SameIDs(v, w) == Len(w) = Len(v) /\ \A j \in DOMAIN v : w[j].id = v[j].id
<1>1. n \in Nat
  OBVIOUS
<1>2. PICK old : /\ IsShown(s, all, q, old)
                 /\ \A i \in 0..n : old[i] \in Seq(Repository)
                 /\ Shown(s, all, q) = old[n]
  BY ShownDefined
<1>3. PICK new : /\ IsShown(t, all, q, new)
                 /\ \A i \in 0..n : new[i] \in Seq(Repository)
                 /\ Shown(t, all, q) = new[n]
  BY ShownDefined
<1> DEFINE T == {i \in 0..n : SameIDs(old[i], new[i])}
<1>4. 0 \in T
  BY <1>1, <1>2, <1>3 DEF IsShown
<1>5. ASSUME NEW i \in 1..n, i - 1 \in T PROVE i \in T
  <2> DEFINE v == old[i - 1]
             w == new[i - 1]
             x == Read(s[i])
             y == Read(t[i])
  <2>1. SameIDs(v, w) /\ i \in 0..n /\ i - 1 \in 0..n
    BY <1>1, <1>5
  <2>2. x.id = y.id /\ s[i].code = t[i].code
    BY DEF Read
  <2>3. Shows(all, q, s[i]) <=> Shows(all, q, t[i])
    BY <2>2 DEF Shows
  <2>4. \/ old[i] = v /\ new[i] = w
        \/ old[i] = Append(v, x) /\ new[i] = Append(w, y)
    BY <1>2, <1>3, <2>3 DEF IsShown
  <2>5. v \in Seq(Repository) /\ w \in Seq(Repository)
    BY <1>2, <1>3, <2>1
  <2> HIDE DEF v, w, x, y
  <2>6. SameIDs(Append(v, x), Append(w, y))
    BY <2>1, <2>2, <2>5
  <2>7. SameIDs(old[i], new[i])
    <3> HIDE DEF SameIDs
    <3>1. QED
      BY <2>1, <2>4, <2>6
  <2>8. QED
    BY <2>1, <2>7
<1>6. 0..n \subseteq T
  <2> HIDE DEF T, n
  <2>1. QED
    BY <1>1, <1>4, <1>5, LoopInduction
<1>7. SameIDs(old[n], new[n])
  <2>1. n \in T
    <3> HIDE DEF T, n
    <3>1. QED
      BY <1>1, <1>6
  <2> HIDE DEF SameIDs
  <2>2. QED
    BY <2>1
<1>8. QED
  BY <1>2, <1>3, <1>7

-----------------------------------------------------------------------------
(* The inductive invariant. *)

TypeOK ==
  /\ register \in Seq(Entries) /\ start \in Seq(Entries)
  /\ showsAll \in BOOLEAN /\ pageless \in BOOLEAN /\ left \in BOOLEAN
  /\ changes \in Nat
  /\ at \in {"ask", "done", "failed"} /\ query \in {1, 2}
  /\ page \in Nat \ {0} /\ pages \in Int
  /\ listed \in Seq(Repository) /\ result \in Seq(Repository)

\* What the pages and the register can still say about the start of the listing.
Faithful == ~left /\ (pageless => changes = 0)

\* What the register did since.
StartKept ==
  /\ changes = 0 => register = start /\ ~left
  /\ ~left => \A i \in DOMAIN start : \E k \in DOMAIN register :
       register[k].id = start[i].id /\ register[k].code = start[i].code

\* The client starts a query without anything that it read.
QueryStarts == (page = 1 <=> pages = -1) /\ (page = 1 => listed = <<>>)

NothingTwice == EachOnce(listed) /\ EachOnce(result)

NothingInvented == changes = 0 => IdsOf(listed) \cup IdsOf(result) \subseteq IdsOf(start)

\* The pages before the next one are read, as far as the start is concerned. A
\* register without pages shows what was read before again and again.
PrefixRead ==
  (at = "ask" /\ Faithful) =>
    IF pageless THEN page > 1 => pages > 0 /\ IdsOf(Items(query, 1)) \subseteq IdsOf(listed)
    ELSE \A j \in DOMAIN View(query) :
           (j <= (page - 1) * PerPage /\ View(query)[j].id \in IdsOf(start))
             => View(query)[j].id \in IdsOf(listed)

Covered(q) ==
  \A i \in DOMAIN start : Shows(showsAll, q, start[i]) => start[i].id \in IdsOf(result)

QueriesRead ==
  Faithful => /\ (query = 2 \/ at = "done") => Covered(1)
              /\ at = "done" => Covered(2)

IInv ==
  /\ TypeOK
  /\ StartKept
  /\ QueryStarts
  /\ NothingTwice
  /\ NothingInvented
  /\ PrefixRead
  /\ QueriesRead

-----------------------------------------------------------------------------
(* Pages. *)

\* The number of pages is the least one that holds every entry.
LEMMA PagesHoldAll ==
  ASSUME NEW n \in Nat, NEW d \in Nat \ {0}, NEW p \in Nat, p >= (n + d - 1) \div d
  PROVE  n <= p * d
<1> DEFINE x == n + d - 1
           k == x \div d
<1>1. x \in Nat /\ d \in Nat /\ d > 0
  OBVIOUS
<1>2. k \in Int /\ x = d * k + (x % d) /\ x % d \in 0..d - 1
  <2> HIDE DEF x
  <2>1. QED
    BY <1>1
<1>3. x <= d * k + (d - 1)
  <2> HIDE DEF k, x
  <2>1. QED
    BY <1>1, <1>2
<1>4. d * k <= d * p
  <2>1. k <= p
    OBVIOUS
  <2> HIDE DEF k, x
  <2>2. QED
    BY <1>1, <1>2, <2>1
<1>5. d * p = p * d /\ d * p \in Int /\ d * k \in Int
  <2> HIDE DEF k, x
  <2>1. QED
    BY <1>1, <1>2
<1>6. n + d - 1 <= p * d + d - 1
  <2> HIDE DEF k
  <2>1. QED
    BY <1>1, <1>3, <1>4, <1>5
<1>7. QED
  BY <1>5, <1>6

LEMMA PageFacts ==
  ASSUME TypeOK, NEW q, NEW p \in Nat \ {0}
  PROVE  /\ View(q) \in Seq(Repository)
         /\ TotalPages(q) \in Nat
         /\ TotalPages(q) = 0 <=> View(q) = <<>>
         /\ TotalPages(q) <= p => Len(View(q)) <= p * PerPage
         /\ Items(q, p) \in Seq(Repository)
         /\ IdsOf(Items(q, p)) \subseteq IdsOf(View(q))
         /\ pageless => Items(q, p) = Items(q, 1)
         /\ \A j \in DOMAIN View(q) :
              (IF pageless THEN j <= PerPage ELSE (p - 1) * PerPage < j /\ j <= p * PerPage)
                => View(q)[j].id \in IdsOf(Items(q, p))
<1> DEFINE view == View(q)
           n == Len(view)
           before == IF pageless THEN 0 ELSE (p - 1) * PerPage
           upTo == IF before + PerPage < n THEN before + PerPage ELSE n
<1>1. view \in Seq(Repository)
  BY ShownFacts DEF View, TypeOK
<1>2. PerPage \in Nat \ {0} /\ pageless \in BOOLEAN
  BY RegisterAssumption DEF TypeOK
<1>3. n \in Nat /\ DOMAIN view = 1..n /\ (n = 0 <=> view = <<>>)
  <2> HIDE DEF view
  <2>1. QED
    BY <1>1
<1>4. TotalPages(q) = (n + PerPage - 1) \div PerPage
  BY DEF TotalPages
<1>5. Items(q, p) = SubSeq(view, before + 1, upTo)
  BY DEF Items
<1>6. (p - 1) * PerPage \in Nat /\ p * PerPage = (p - 1) * PerPage + PerPage
  BY <1>2
<1> HIDE DEF view, n
<1>7. TotalPages(q) \in Nat /\ (TotalPages(q) = 0 <=> n = 0)
  BY <1>2, <1>3, <1>4
<1>8. TotalPages(q) <= p => n <= p * PerPage
  BY <1>2, <1>3, <1>4, <1>7, PagesHoldAll
<1>9. before \in Nat /\ upTo \in Nat /\ upTo <= n
  BY <1>2, <1>3, <1>6
<1>10. pageless => Items(q, p) = Items(q, 1)
  BY DEF Items
<1> HIDE DEF before, upTo
<1> DEFINE page_ == SubSeq(view, before + 1, upTo)
<1>11. \A i \in before + 1..upTo : view[i] \in Repository
  BY <1>1, <1>3, <1>9 DEF n
<1>12. /\ page_ \in Seq(Repository)
       /\ Len(page_) = IF before + 1 <= upTo THEN upTo - (before + 1) + 1 ELSE 0
       /\ \A i \in 1..upTo - (before + 1) + 1 : page_[i] = view[(before + 1) + i - 1]
  <2>1. before + 1 \in Int /\ upTo \in Int
    BY <1>9
  <2> HIDE DEF page_
  <2>2. QED
    BY <1>11, <2>1, SubSeqProperties DEF page_
<1>13. DOMAIN page_ = 1..Len(page_)
  <2> HIDE DEF page_
  <2>1. QED
    BY <1>12
<1> HIDE DEF page_
<1>14. \A i \in DOMAIN page_ : before + i \in DOMAIN view /\ page_[i] = view[before + i]
  <2> TAKE i \in DOMAIN page_
  <2>1. i \in 1..upTo - before /\ upTo - (before + 1) + 1 = upTo - before
    BY <1>9, <1>12, <1>13
  <2>2. (before + 1) + i - 1 = before + i /\ before + i \in 1..n
    BY <1>3, <1>9, <2>1
  <2>3. QED
    BY <1>3, <1>12, <2>1, <2>2
<1>15. IdsOf(page_) \subseteq IdsOf(view)
  BY <1>14 DEF IdsOf
<1>16. ASSUME NEW j \in DOMAIN view,
              IF pageless THEN j <= PerPage ELSE (p - 1) * PerPage < j /\ j <= p * PerPage
       PROVE  view[j].id \in IdsOf(page_)
  <2>1. before < j /\ j <= upTo
    BY <1>2, <1>3, <1>6, <1>16 DEF before, upTo
  <2>2. j - before \in 1..Len(page_) /\ before + (j - before) = j
    BY <1>3, <1>9, <1>12, <2>1
  <2>3. j - before \in DOMAIN page_ /\ page_[j - before] = view[j]
    BY <1>13, <1>14, <2>2
  <2>4. QED
    BY <2>3 DEF IdsOf
<1>17. QED
  BY <1>1, <1>3, <1>5, <1>7, <1>8, <1>10, <1>12, <1>15, <1>16 DEF view, n, page_

\* A query shows entries of the register, and every entry that it should.
LEMMA ViewFacts ==
  ASSUME TypeOK, NEW q
  PROVE  /\ IdsOf(View(q)) \subseteq IdsOf(register)
         /\ \A k \in DOMAIN register :
              Shows(showsAll, q, register[k]) =>
                \E j \in DOMAIN View(q) : View(q)[j].id = register[k].id
<1>1. IdsOf(View(q)) =
        {register[i].id : i \in {i \in DOMAIN register : Shows(showsAll, q, register[i])}}
  BY ShownFacts DEF TypeOK, View
<1>2. IdsOf(View(q)) \subseteq IdsOf(register)
  BY <1>1 DEF IdsOf
<1>3. ASSUME NEW k \in DOMAIN register, Shows(showsAll, q, register[k])
      PROVE  \E j \in DOMAIN View(q) : View(q)[j].id = register[k].id
  <2>1. register[k].id \in IdsOf(View(q))
    BY <1>1, <1>3
  <2>2. QED
    BY <2>1 DEF IdsOf
<1>4. QED
  BY <1>2, <1>3

-----------------------------------------------------------------------------
(* The steps of the client. *)

\* When the last page is accepted, the query has shown all it had to.
LEMMA QueryRead ==
  ASSUME IInv, at = "ask", Faithful,
         ~Rejected(Items(query, page), TotalPages(query)), LastPage(TotalPages(query))
  PROVE  \A i \in DOMAIN start :
           Shows(showsAll, query, start[i])
             => start[i].id \in IdsOf(listed) \cup IdsOf(Items(query, page))
<1> DEFINE items == Items(query, page)
           total == TotalPages(query)
<1>1. /\ TypeOK /\ page \in Nat \ {0} /\ listed \in Seq(Repository)
      /\ items \in Seq(Repository) /\ total \in Nat
  BY PageFacts DEF IInv, TypeOK
<1>2. PageCount(total) = total /\ page >= total /\ (items = <<>> <=> total = 0)
  BY DEF Rejected, CountChanged, LastPage, PageCount
<1>3. Len(View(query)) <= page * PerPage
  BY <1>1, <1>2, PageFacts
<1>4. pageless => page = 1
  <2> SUFFICES ASSUME pageless, page > 1 PROVE FALSE
    BY <1>1
  <2>1. pages > 0 /\ IdsOf(Items(query, 1)) \subseteq IdsOf(listed)
    BY <1>1 DEF IInv, PrefixRead
  <2>2. total > 0 /\ items # <<>>
    BY <1>2, <2>1 DEF PageCount
  <2>3. items = Items(query, 1)
    BY <1>1, PageFacts
  <2> HIDE DEF items
  <2>4. Joined(listed, items) = listed
    BY <1>1, <2>1, <2>3, JoinedFacts
  <2>5. OnlyRepeated(items)
    BY <2>2, <2>4 DEF OnlyRepeated
  <2>6. QED
    BY <2>5 DEF Rejected, items
<1>5. ASSUME NEW j \in DOMAIN View(query), View(query)[j].id \in IdsOf(start)
      PROVE  View(query)[j].id \in IdsOf(listed) \cup IdsOf(items)
  <2>1. View(query) \in Seq(Repository) /\ PerPage \in Nat \ {0}
    BY <1>1, PageFacts, RegisterAssumption
  <2>2. j \in Nat /\ 1 <= j /\ j <= page * PerPage /\ (page - 1) * PerPage \in Nat
    <3>1. j \in Nat /\ 1 <= j /\ j <= Len(View(query)) /\ Len(View(query)) \in Nat
      BY <2>1
    <3>2. page * PerPage \in Nat /\ (page - 1) * PerPage \in Nat
      BY <1>1, <2>1
    <3>3. QED
      BY <1>3, <3>1, <3>2
  <2>3. CASE pageless
    <3>1. page = 1 /\ 1 * PerPage = PerPage
      BY <1>4, <2>1, <2>3
    <3>2. j <= PerPage
      BY <2>2, <3>1
    <3>3. QED
      BY <1>1, <2>3, <3>2, PageFacts
  <2>4. CASE ~pageless /\ j <= (page - 1) * PerPage
    BY <1>5, <2>4 DEF IInv, PrefixRead
  <2>5. CASE ~pageless /\ (page - 1) * PerPage < j
    BY <1>1, <2>2, <2>5, PageFacts
  <2>6. QED
    BY <2>2, <2>3, <2>4, <2>5
<1>6. ASSUME NEW i \in DOMAIN start, Shows(showsAll, query, start[i])
      PROVE  start[i].id \in IdsOf(listed) \cup IdsOf(items)
  <2>1. PICK k \in DOMAIN register : register[k].id = start[i].id /\ register[k].code = start[i].code
    BY DEF IInv, StartKept, Faithful
  <2>2. Shows(showsAll, query, register[k])
    BY <1>6, <2>1 DEF Shows
  <2>3. PICK j \in DOMAIN View(query) : View(query)[j].id = register[k].id
    BY <1>1, <2>2, ViewFacts
  <2>4. View(query)[j].id \in IdsOf(start)
    BY <2>1, <2>3 DEF IdsOf
  <2>5. QED
    BY <1>5, <2>1, <2>3, <2>4
<1>7. QED
  BY <1>6

\* A page of an unchanged register shows what was there at the start.
LEMMA PageOfStart ==
  ASSUME IInv
  PROVE  changes = 0 => IdsOf(Items(query, page)) \subseteq IdsOf(start)
<1>1. TypeOK /\ page \in Nat \ {0} /\ (changes = 0 => register = start)
  BY DEF IInv, TypeOK, StartKept
<1>2. IdsOf(Items(query, page)) \subseteq IdsOf(View(query)) /\ IdsOf(View(query)) \subseteq IdsOf(register)
  BY <1>1, PageFacts, ViewFacts
<1>3. QED
  BY <1>1, <1>2

LEMMA StepNextPage ==
  ASSUME IInv, NextPage(Items(query, page), TotalPages(query))
  PROVE  IInv'
<1> DEFINE items == Items(query, page)
           total == TotalPages(query)
<1>1. /\ TypeOK /\ page \in Nat \ {0} /\ listed \in Seq(Repository)
      /\ items \in Seq(Repository) /\ total \in Nat
  BY PageFacts DEF IInv, TypeOK
<1>2. /\ at = "ask" /\ listed' = Joined(listed, items) /\ page' = page + 1 /\ pages' = PageCount(total)
      /\ UNCHANGED <<registerVars, at, query, result>>
      /\ ~Rejected(items, total) /\ ~LastPage(total)
  BY DEF NextPage
<1>3. pages' = total /\ page < total
  BY <1>1, <1>2 DEF Rejected, CountChanged, LastPage, PageCount
<1> HIDE DEF items, total
<1>4. /\ listed' \in Seq(Repository) /\ IdsOf(listed') = IdsOf(listed) \cup IdsOf(items)
      /\ EachOnce(listed) => EachOnce(listed')
  BY <1>1, <1>2, JoinedFacts
<1>5. TypeOK'
  BY <1>1, <1>2, <1>3, <1>4 DEF TypeOK, registerVars
<1>6. StartKept'
  BY <1>2 DEF IInv, StartKept, registerVars
<1>7. QueryStarts'
  BY <1>1, <1>2, <1>3 DEF QueryStarts
<1>8. NothingTwice'
  BY <1>2, <1>4 DEF IInv, NothingTwice, EachOnce
<1>9. NothingInvented'
  <2>1. changes = 0 => IdsOf(items) \subseteq IdsOf(start)
    BY PageOfStart DEF items
  <2>2. changes' = changes /\ start' = start /\ result' = result
    BY <1>2 DEF registerVars
  <2>3. changes = 0 => IdsOf(listed') \cup IdsOf(result) \subseteq IdsOf(start)
    BY <1>4, <2>1 DEF IInv, NothingInvented
  <2>4. QED
    BY <2>2, <2>3 DEF NothingInvented
<1>10. PrefixRead'
  <2>1. /\ View(query)' = View(query) /\ Items(query, 1)' = Items(query, 1)
        /\ pageless' = pageless /\ start' = start /\ Faithful' = Faithful
    BY <1>2 DEF registerVars, View, Items, Faithful
  <2>2. CASE pageless
    <3>1. items = Items(query, 1)
      BY <1>1, <2>2, PageFacts DEF items
    <3>2. IdsOf(Items(query, 1))' \subseteq IdsOf(listed)'
      BY <1>4, <2>1, <3>1 DEF IdsOf
    <3>3. pages' > 0
      BY <1>1, <1>3
    <3>4. QED
      BY <2>1, <2>2, <3>2, <3>3 DEF PrefixRead
  <2>3. CASE ~pageless
    <3> SUFFICES ASSUME at' = "ask", Faithful', NEW j \in DOMAIN View(query),
                        j <= page * PerPage, View(query)[j].id \in IdsOf(start)
                 PROVE  View(query)[j].id \in IdsOf(listed')
      <4>1. page' - 1 = page
        BY <1>1, <1>2
      <4>2. IdsOf(start)' = IdsOf(start) /\ IdsOf(listed)' = IdsOf(listed')
        BY <2>1 DEF IdsOf
      <4>3. QED
        BY <2>1, <2>3, <4>1, <4>2 DEF PrefixRead
    <3>1. CASE j <= (page - 1) * PerPage
      BY <1>2, <1>4, <2>1, <2>3, <3>1 DEF IInv, PrefixRead
    <3>2. CASE (page - 1) * PerPage < j
      <4>1. View(query)[j].id \in IdsOf(items)
        BY <1>1, <2>3, <3>2, PageFacts DEF items
      <4>2. QED
        BY <1>4, <4>1
    <3>3. j \in Int /\ (page - 1) * PerPage \in Int
      <4>1. View(query) \in Seq(Repository) /\ PerPage \in Nat \ {0}
        BY <1>1, PageFacts, RegisterAssumption
      <4>2. QED
        BY <1>1, <4>1
    <3>4. QED
      BY <3>1, <3>2, <3>3
  <2>4. QED
    BY <2>2, <2>3
<1>11. QueriesRead'
  <2>1. /\ Faithful' = Faithful /\ query' = query /\ at' = at
        /\ start' = start /\ showsAll' = showsAll /\ result' = result
    BY <1>2 DEF registerVars, Faithful
  <2>2. QED
    BY <2>1 DEF IInv, QueriesRead, Covered, Shows, IdsOf
<1>12. QED
  BY <1>5, <1>6, <1>7, <1>8, <1>9, <1>10, <1>11 DEF IInv

LEMMA StepFinishQuery ==
  ASSUME IInv, FinishQuery(Items(query, page), TotalPages(query))
  PROVE  IInv'
<1> DEFINE items == Items(query, page)
           total == TotalPages(query)
           repositories == Joined(listed, items)
<1>1. /\ TypeOK /\ page \in Nat \ {0} /\ listed \in Seq(Repository) /\ result \in Seq(Repository)
      /\ items \in Seq(Repository) /\ total \in Nat
  BY PageFacts DEF IInv, TypeOK
<1>2. /\ at = "ask" /\ ~Rejected(items, total) /\ LastPage(total)
      /\ page' = 1 /\ pages' = -1 /\ listed' = <<>>
      /\ UNCHANGED registerVars
      /\ \/ at' = "failed" /\ UNCHANGED <<query, result>>
         \/ /\ result' = Joined(result, repositories)
            /\ \/ query = 1 /\ query' = 2 /\ at' = at
               \/ query # 1 /\ query' = query /\ at' = "done"
  BY DEF FinishQuery, Union
<1>3. (changes = 0 => IdsOf(items) \subseteq IdsOf(start))
      /\ (Faithful => \A i \in DOMAIN start :
            Shows(showsAll, query, start[i]) => start[i].id \in IdsOf(listed) \cup IdsOf(items))
  BY <1>2, PageOfStart, QueryRead
<1> HIDE DEF items, total
<1>4. repositories \in Seq(Repository) /\ IdsOf(repositories) = IdsOf(listed) \cup IdsOf(items)
  BY <1>1, JoinedFacts
<1> HIDE DEF repositories
<1>5. \/ result' = result /\ at' = "failed" /\ query' = query
      \/ /\ result' \in Seq(Repository)
         /\ IdsOf(result') = IdsOf(result) \cup IdsOf(listed) \cup IdsOf(items)
         /\ EachOnce(result) => EachOnce(result')
         /\ \/ query = 1 /\ query' = 2 /\ at' = "ask"
            \/ query # 1 /\ query' = query /\ at' = "done"
  BY <1>1, <1>2, <1>4, JoinedFacts
<1>6. TypeOK'
  <2>1. <<>> \in Seq(Repository) /\ 1 \in Nat \ {0} /\ -1 \in Int
    OBVIOUS
  <2>2. result' \in Seq(Repository) /\ at' \in {"ask", "done", "failed"} /\ query' \in {1, 2}
    BY <1>1, <1>5 DEF TypeOK
  <2>3. QED
    BY <1>1, <1>2, <2>1, <2>2 DEF TypeOK, registerVars
<1>7. StartKept'
  BY <1>2 DEF IInv, StartKept, registerVars
<1>8. QueryStarts'
  BY <1>2 DEF QueryStarts
<1>9. NothingTwice'
  <2>1. EachOnce(result')
    BY <1>5 DEF IInv, NothingTwice
  <2>2. EachOnce(<<>>)
    BY DEF EachOnce
  <2>3. QED
    BY <1>2, <2>1, <2>2 DEF NothingTwice
<1>10. NothingInvented'
  <2>1. IdsOf(<<>>) = {}
    BY DEF IdsOf
  <2>2. changes' = changes /\ start' = start
    BY <1>2 DEF registerVars
  <2>3. changes = 0 => IdsOf(listed') \cup IdsOf(result') \subseteq IdsOf(start)
    BY <1>2, <1>3, <1>5, <2>1 DEF IInv, NothingInvented
  <2>4. QED
    BY <2>2, <2>3 DEF NothingInvented
<1>11. PrefixRead'
  <2>1. (page' - 1) * PerPage = 0
    BY <1>2, RegisterAssumption
  <2>2. View(query)' = Shown(register', showsAll', query')
    BY DEF View
  <2>3. View(query)' \in Seq(Repository)
    BY <1>6, <2>2, ShownFacts DEF TypeOK
  <2>4. \A j \in DOMAIN View(query)' : ~(j <= (page' - 1) * PerPage)
    BY <2>1, <2>3
  <2>5. ~(page' > 1)
    BY <1>2
  <2>6. QED
    BY <2>4, <2>5 DEF PrefixRead
<1>12. QueriesRead'
  <2>1. showsAll' = showsAll /\ start' = start /\ Faithful' = Faithful
    BY <1>2 DEF registerVars, Faithful
  <2>2. IdsOf(result) \subseteq IdsOf(result')
    BY <1>5
  <2>3. \A q : Covered(q) => Covered(q)'
    BY <2>1, <2>2 DEF Covered, Shows
  <2>4. CASE result' = result /\ at' = "failed" /\ query' = query
    BY <2>1, <2>3, <2>4 DEF IInv, QueriesRead
  <2>5. CASE query' \in {1, 2} /\ IdsOf(result') = IdsOf(result) \cup IdsOf(listed) \cup IdsOf(items)
    <3>1. Faithful => \A i \in DOMAIN start :
            Shows(showsAll, query, start[i]) => start[i].id \in IdsOf(result')
      BY <1>3, <2>5
    <3>2. CASE query = 1 /\ query' = 2 /\ at' = "ask"
      <4>1. Faithful => Covered(1)'
        BY <2>1, <3>1, <3>2 DEF Covered
      <4>2. QED
        BY <2>1, <3>2, <4>1 DEF QueriesRead
    <3>3. CASE query # 1 /\ query' = query /\ at' = "done"
      <4>1. query = 2
        BY <1>1, <3>3 DEF TypeOK
      <4>2. Faithful => Covered(2)'
        BY <2>1, <3>1, <4>1 DEF Covered
      <4>3. QED
        BY <2>1, <2>3, <3>3, <4>1, <4>2 DEF IInv, QueriesRead
    <3>4. CASE result' = result /\ at' = "failed" /\ query' = query
      BY <2>4, <3>4
    <3>5. QED
      BY <1>5, <3>2, <3>3, <3>4
  <2>6. query' \in {1, 2}
    BY <1>6 DEF TypeOK
  <2>7. QED
    BY <1>5, <2>4, <2>5, <2>6
<1>13. QED
  BY <1>6, <1>7, <1>8, <1>9, <1>10, <1>11, <1>12 DEF IInv

\* A listing that fails keeps what it has and asks for nothing more.
LEMMA StepFails ==
  ASSUME IInv, at' = "failed", UNCHANGED <<registerVars, query, page, pages, listed, result>>
  PROVE  IInv'
<1>1. TypeOK'
  BY DEF IInv, TypeOK, registerVars
<1>2. StartKept' /\ QueryStarts' /\ NothingTwice'
  BY DEF IInv, StartKept, QueryStarts, NothingTwice, EachOnce, registerVars
<1>3. NothingInvented' /\ PrefixRead'
  <2>1. NothingInvented'
    BY DEF IInv, NothingInvented, IdsOf, registerVars
  <2>2. QED
    BY <2>1 DEF PrefixRead
<1>4. QueriesRead'
  <2>1. /\ Faithful' = Faithful /\ query' = query
        /\ start' = start /\ showsAll' = showsAll /\ result' = result
    BY DEF registerVars, Faithful
  <2>2. QED
    BY <2>1 DEF IInv, QueriesRead, Covered, Shows, IdsOf
<1>5. QED
  BY <1>1, <1>2, <1>3, <1>4 DEF IInv

-----------------------------------------------------------------------------
(* The register changes. *)

\* What every change leaves alone, and what it must itself keep.
LEMMA StepChange ==
  ASSUME IInv, NEW entries \in Seq(Entries), Change(entries), left' \in BOOLEAN,
         ~left' => /\ ~left
                   /\ \A i \in DOMAIN start : \E k \in DOMAIN entries :
                        entries[k].id = start[i].id /\ entries[k].code = start[i].code
                   /\ PrefixRead'
  PROVE  IInv'
<1>1. /\ at = "ask" /\ changes' = changes + 1 /\ register' = entries
      /\ UNCHANGED <<showsAll, pageless, start, at, query, page, pages, listed, result>>
  BY DEF Change, clientVars
<1>2. TypeOK'
  BY <1>1 DEF IInv, TypeOK
<1>3. changes' # 0
  BY <1>1 DEF IInv, TypeOK
<1>4. StartKept'
  BY <1>1, <1>3 DEF StartKept
<1>5. QueryStarts' /\ NothingTwice'
  BY <1>1 DEF IInv, QueryStarts, NothingTwice, EachOnce
<1>6. NothingInvented'
  BY <1>3 DEF NothingInvented
<1>7. PrefixRead'
  BY DEF PrefixRead, Faithful
<1>8. QueriesRead'
  <2>1. Faithful' => Faithful
    BY <1>1, <1>3 DEF Faithful
  <2>2. QED
    BY <1>1, <2>1 DEF IInv, QueriesRead, Covered, Shows, IdsOf
<1>9. QED
  BY <1>2, <1>4, <1>5, <1>6, <1>7, <1>8 DEF IInv

LEMMA StepEntryAdded ==
  ASSUME IInv, EntryAdded
  PROVE  IInv'
<1>1. PICK entry \in NewEntries, i \in 1..Len(register) + 1 :
        /\ entry.id \notin IdsOf(register)
        /\ Change(InsertAt(register, i, entry))
        /\ UNCHANGED left
  BY DEF EntryAdded
<1> DEFINE entries == InsertAt(register, i, entry)
<1>2. entry \in Entries /\ register \in Seq(Entries) /\ TypeOK
  BY RegisterAssumption DEF IInv, TypeOK
<1>3. /\ entries \in Seq(Entries)
      /\ Len(entries) = Len(register) + 1
      /\ \A k \in 1..Len(register) + 1 :
           entries[k] = IF k < i THEN register[k] ELSE IF k = i THEN entry ELSE register[k - 1]
  <2>1. entries \in Seq(Entries) /\ Inserted(register, i, entry, entries)
    BY <1>2, InsertedEntry
  <2>2. QED
    BY <2>1 DEF Inserted
<1>4. /\ register' = entries /\ at' = at /\ at = "ask" /\ changes' = changes + 1
      /\ UNCHANGED <<showsAll, pageless, start, query, page, listed, left>>
  BY <1>1 DEF Change, clientVars
<1> HIDE DEF entries
<1>5. ASSUME ~left'
      PROVE  \A j \in DOMAIN start : \E k \in DOMAIN entries :
               entries[k].id = start[j].id /\ entries[k].code = start[j].code
  <2> TAKE j \in DOMAIN start
  <2>1. PICK k \in DOMAIN register : register[k].id = start[j].id /\ register[k].code = start[j].code
    BY <1>4, <1>5 DEF IInv, StartKept
  <2>2. k \in 1..Len(register) /\ Len(register) \in Nat
    BY <1>2
  <2>3. DOMAIN entries = 1..Len(register) + 1
    BY <1>3
  <2>4. CASE k < i
    BY <1>3, <2>1, <2>2, <2>3, <2>4
  <2>5. CASE k >= i
    <3>1. k + 1 \in 1..Len(register) + 1 /\ ~(k + 1 < i) /\ k + 1 # i /\ (k + 1) - 1 = k
      BY <2>2, <2>5
    <3>2. entries[k + 1] = register[k]
      BY <1>3, <3>1
    <3>3. QED
      BY <2>1, <2>3, <3>1, <3>2
  <2>6. QED
    BY <2>2, <2>4, <2>5
<1>6. ASSUME ~left' PROVE PrefixRead'
  <2> SUFFICES ASSUME Faithful' PROVE PrefixRead'
    BY DEF PrefixRead
  <2>1. ~pageless /\ ~left /\ Faithful
    BY <1>4, <1>6 DEF Faithful, IInv, TypeOK
  <2>2. View(query)' = Shown(entries, showsAll, query) /\ View(query) = Shown(register, showsAll, query)
    BY <1>4 DEF View
  <2> DEFINE new == Shown(entries, showsAll, query)
  <2> SUFFICES ASSUME NEW j \in DOMAIN new, j <= (page - 1) * PerPage, new[j].id \in IdsOf(start)
               PROVE  new[j].id \in IdsOf(listed)
    <3> HIDE DEF new
    <3>1. QED
      BY <1>4, <2>1, <2>2 DEF PrefixRead, new
  <2>3. new[j].id # entry.id
    <3>1. PICK l \in DOMAIN start : start[l].id = new[j].id
      BY DEF IdsOf
    <3>2. PICK k \in DOMAIN register : register[k].id = start[l].id
      BY <2>1 DEF IInv, StartKept
    <3>3. QED
      BY <1>1, <3>1, <3>2 DEF IdsOf
  <2>4. PICK m \in DOMAIN View(query) : m <= j /\ View(query)[m] = new[j]
    BY <1>2, <2>2, <2>3, AddedToShown DEF entries
  <2>5. m <= (page - 1) * PerPage
    <3>1. (page - 1) * PerPage \in Int
      BY <1>2, RegisterAssumption DEF TypeOK
    <3>2. m \in Int /\ j \in Int
      <4>1. View(query) \in Seq(Repository) /\ new \in Seq(Repository)
        BY <1>2, <1>3, <2>2, ShownFacts
      <4>2. QED
        BY <4>1
    <3>3. QED
      BY <2>4, <3>1, <3>2
  <2>6. QED
    BY <1>4, <2>1, <2>4, <2>5 DEF IInv, PrefixRead
<1>7. QED
  BY <1>1, <1>2, <1>3, <1>4, <1>5, <1>6, StepChange DEF TypeOK, entries

LEMMA StepURLChanged ==
  ASSUME IInv, URLChanged
  PROVE  IInv'
<1>1. PICK i \in DOMAIN register, url \in URLs :
        Change([register EXCEPT ![i].url = url]) /\ UNCHANGED left
  BY DEF URLChanged
<1> DEFINE entries == [register EXCEPT ![i].url = url]
<1>2. register \in Seq(Entries) /\ TypeOK
  BY DEF IInv, TypeOK
<1>3. /\ entries \in Seq(Entries) /\ Len(entries) = Len(register)
      /\ DOMAIN entries = DOMAIN register
      /\ \A k \in DOMAIN register : entries[k].id = register[k].id /\ entries[k].code = register[k].code
  <2>1. register[i] \in Entries
    BY <1>2
  <2>2. [register[i] EXCEPT !.url = url] \in Entries
        /\ [register[i] EXCEPT !.url = url].id = register[i].id
        /\ [register[i] EXCEPT !.url = url].code = register[i].code
    BY <2>1 DEF Entries
  <2> DEFINE moved == [register[i] EXCEPT !.url = url]
  <2>3. entries = [register EXCEPT ![i] = moved]
    OBVIOUS
  <2> HIDE DEF moved
  <2>4. QED
    BY <1>2, <2>1, <2>2, <2>3 DEF moved
<1>4. /\ register' = entries /\ at' = at /\ at = "ask" /\ changes' = changes + 1
      /\ UNCHANGED <<showsAll, pageless, start, query, page, listed, left>>
  BY <1>1 DEF Change, clientVars
<1> HIDE DEF entries
<1>5. ASSUME ~left'
      PROVE  \A j \in DOMAIN start : \E k \in DOMAIN entries :
               entries[k].id = start[j].id /\ entries[k].code = start[j].code
  BY <1>3, <1>4, <1>5 DEF IInv, StartKept
<1>6. ASSUME ~left' PROVE PrefixRead'
  <2> SUFFICES ASSUME Faithful' PROVE PrefixRead'
    BY DEF PrefixRead
  <2>1. ~pageless /\ ~left /\ Faithful
    BY <1>4, <1>6 DEF Faithful, IInv, TypeOK
  <2>2. View(query)' = Shown(entries, showsAll, query) /\ View(query) = Shown(register, showsAll, query)
    BY <1>4 DEF View
  <2> DEFINE new == Shown(entries, showsAll, query)
  <2>3. /\ Len(new) = Len(View(query))
        /\ \A j \in DOMAIN View(query) : new[j].id = View(query)[j].id
    <3>1. \A k \in 1..Len(register) :
            entries[k].id = register[k].id /\ entries[k].code = register[k].code
      BY <1>2, <1>3
    <3> DEFINE old == Shown(register, showsAll, query)
    <3>2. Len(new) = Len(old) /\ \A j \in DOMAIN old : new[j].id = old[j].id
      <4>1. entries \in Seq(Entries) /\ register \in Seq(Entries) /\ Len(entries) = Len(register)
        BY <1>2, <1>3
      <4>2. QED
        BY <3>1, <4>1, MovedInShown
    <3> HIDE DEF new
    <3>3. QED
      BY <2>2, <3>2
  <2>4. DOMAIN new = DOMAIN View(query)
    <3>1. View(query) \in Seq(Repository) /\ new \in Seq(Repository)
      BY <1>2, <1>3, <2>2, ShownFacts
    <3>2. QED
      BY <2>3, <3>1
  <2> HIDE DEF new
  <2>5. \A j \in DOMAIN new :
          (j <= (page - 1) * PerPage /\ new[j].id \in IdsOf(start)) => new[j].id \in IdsOf(listed)
    BY <1>4, <2>1, <2>3, <2>4 DEF IInv, PrefixRead
  <2>6. QED
    BY <1>4, <2>1, <2>2, <2>5 DEF PrefixRead, new
<1>7. Change(entries) /\ left' \in BOOLEAN
  BY <1>1, <1>2 DEF TypeOK, entries
<1>8. ~left' => ~left
  BY <1>4
<1>9. QED
  BY <1>3, <1>5, <1>6, <1>7, <1>8, StepChange

LEMMA StepEntryLeaves ==
  ASSUME IInv, EntryRemoved \/ CodeToggled
  PROVE  IInv'
<1>1. register \in Seq(Entries)
  BY DEF IInv, TypeOK
<1>2. CASE EntryRemoved
  <2>1. PICK i \in DOMAIN register : Change(RemoveAt(register, i)) /\ left' = TRUE
    BY <1>2 DEF EntryRemoved
  <2>2. RemoveAt(register, i) \in Seq(Entries)
    <3>1. i \in 1..Len(register) /\ Len(register) \in Nat
      BY <1>1
    <3>2. SubSeq(register, 1, i - 1) \in Seq(Entries)
          /\ SubSeq(register, i + 1, Len(register)) \in Seq(Entries)
      BY <1>1, <3>1
    <3>3. QED
      BY <3>2 DEF RemoveAt
  <2>3. QED
    BY <2>1, <2>2, StepChange
<1>3. CASE CodeToggled
  <2>1. PICK i \in DOMAIN register :
          Change([register EXCEPT ![i].code = ~register[i].code]) /\ left' = TRUE
    BY <1>3 DEF CodeToggled
  <2>2. [register EXCEPT ![i].code = ~register[i].code] \in Seq(Entries)
    <3>1. register[i] \in Entries
      BY <1>1
    <3>2. [register[i] EXCEPT !.code = ~register[i].code] \in Entries
      BY <3>1 DEF Entries
    <3>3. QED
      BY <1>1, <3>2
  <2>3. QED
    BY <2>1, <2>2, StepChange
<1>4. QED
  BY <1>2, <1>3

-----------------------------------------------------------------------------
(* The theorems. *)

LEMMA Invariant == Spec => []IInv
<1>1. Init => IInv
  <2> SUFFICES ASSUME Init PROVE IInv
    OBVIOUS
  <2>1. register \in Seq(Entries) /\ <<>> \in Seq(Repository) /\ 1 \in Nat \ {0} /\ -1 \in Int
    BY RegisterAssumption DEF Init
  <2>2. TypeOK
    BY <2>1 DEF Init, TypeOK
  <2>3. StartKept /\ QueryStarts
    BY DEF Init, StartKept, QueryStarts
  <2>4. EachOnce(<<>>) /\ IdsOf(<<>>) = {}
    BY DEF EachOnce, IdsOf
  <2>5. NothingTwice /\ NothingInvented
    BY <2>4 DEF Init, NothingTwice, NothingInvented
  <2>6. PrefixRead
    <3>1. (page - 1) * PerPage = 0
      BY RegisterAssumption DEF Init
    <3>2. View(query) \in Seq(Repository)
      BY <2>1, ShownFacts DEF View
    <3>3. \A j \in DOMAIN View(query) : ~(j <= (page - 1) * PerPage)
      BY <3>1, <3>2
    <3>4. ~(page > 1)
      BY DEF Init
    <3>5. QED
      BY <3>3, <3>4 DEF PrefixRead
  <2>7. QueriesRead
    BY DEF Init, QueriesRead
  <2>8. QED
    BY <2>2, <2>3, <2>5, <2>6, <2>7 DEF IInv
<1>2. IInv /\ [Next]_vars => IInv'
  <2> SUFFICES ASSUME IInv, [Next]_vars PROVE IInv'
    OBVIOUS
  <2>1. CASE List
    <3>1. CASE Reject(Items(query, page), TotalPages(query))
      BY <3>1, StepFails DEF Reject
    <3>2. CASE NextPage(Items(query, page), TotalPages(query))
      BY <3>2, StepNextPage
    <3>3. CASE FinishQuery(Items(query, page), TotalPages(query))
      BY <3>3, StepFinishQuery
    <3>4. QED
      BY <2>1, <3>1, <3>2, <3>3 DEF List
  <2>2. CASE RequestFails
    BY <2>2, StepFails DEF RequestFails
  <2>3. CASE EntryAdded
    BY <2>3, StepEntryAdded
  <2>4. CASE URLChanged
    BY <2>4, StepURLChanged
  <2>5. CASE EntryRemoved \/ CodeToggled
    BY <2>5, StepEntryLeaves
  <2>6. CASE UNCHANGED vars
    <3>1. /\ UNCHANGED registerVars
          /\ UNCHANGED <<at, query, page, pages, listed, result>>
      BY <2>6 DEF vars, clientVars
    <3>2. TypeOK' /\ StartKept' /\ QueryStarts' /\ NothingTwice'
      BY <3>1 DEF IInv, TypeOK, StartKept, QueryStarts, NothingTwice, EachOnce, registerVars
    <3>3. NothingInvented'
      <4>1. changes' = changes /\ start' = start /\ listed' = listed /\ result' = result
        BY <3>1 DEF registerVars
      <4>2. QED
        BY <4>1 DEF IInv, NothingInvented
    <3>4. PrefixRead'
      <4>1. /\ View(query)' = View(query) /\ Items(query, 1)' = Items(query, 1)
            /\ pageless' = pageless /\ start' = start /\ Faithful' = Faithful
            /\ page' = page /\ pages' = pages /\ listed' = listed /\ at' = at
        BY <3>1 DEF registerVars, View, Items, Faithful
      <4>2. IdsOf(Items(query, 1))' = IdsOf(Items(query, 1)) /\ IdsOf(listed)' = IdsOf(listed)
            /\ IdsOf(start)' = IdsOf(start)
        BY <4>1 DEF IdsOf
      <4>3. QED
        BY <4>1, <4>2 DEF IInv, PrefixRead
    <3>5. QueriesRead'
      BY <3>1 DEF IInv, QueriesRead, Covered, Shows, IdsOf, Faithful, registerVars
    <3>6. QED
      BY <3>2, <3>3, <3>4, <3>5 DEF IInv
  <2>7. QED
    BY <2>1, <2>2, <2>3, <2>4, <2>5, <2>6 DEF Next
<1>3. QED
  BY <1>1, <1>2, PTL DEF Spec

\* A listing that ends well names every repository that was in the register from
\* its start to its end, and names exactly those of a register that did not change
\* (the checks of Total-Pages and of repeated pages in Repositories, client.go).
THEOREM ListingComplete == Spec => []NothingHidden
<1>1. IInv => NothingHidden
  <2> SUFFICES ASSUME IInv, at = "done", ~left, pageless => changes = 0
               PROVE  /\ IdsOf(start) \subseteq IdsOf(result)
                      /\ changes = 0 => IdsOf(result) = IdsOf(start)
    BY DEF NothingHidden, IInv, StartKept
  <2>1. Covered(1) /\ Covered(2)
    BY DEF IInv, QueriesRead, Faithful
  <2>2. IdsOf(start) \subseteq IdsOf(result)
    <3> SUFFICES ASSUME NEW i \in DOMAIN start PROVE start[i].id \in IdsOf(result)
      BY DEF IdsOf
    <3>1. Shows(showsAll, 1, start[i]) \/ Shows(showsAll, 2, start[i])
      BY DEF Shows
    <3>2. QED
      BY <2>1, <3>1 DEF Covered
  <2>3. QED
    BY <2>2 DEF IInv, NothingInvented
<1>2. QED
  BY <1>1, Invariant, PTL

\* However pages and queries overlap, no repository is listed twice (the seen maps
\* of Repositories and RepositorySets).
THEOREM NoneTwice == Spec => []EachIDOnce
<1>1. IInv => EachIDOnce
  BY DEF IInv, NothingTwice, EachOnce, EachIDOnce
<1>2. QED
  BY <1>1, Invariant, PTL
=============================================================================
