-------------------------- MODULE DiskDevice_proofs --------------------------
(***************************************************************************)
(* Theorems about the disk side of the test device and its hosts: the      *)
(* tables of the device and the mapping record do not drift apart, a name  *)
(* finds the last image made under it, and to the ROM the device is drives *)
(* with media in them (DiskPort).                                          *)
(***************************************************************************)
EXTENDS DiskDevice, SequenceTheorems, FiniteSetTheorems, WellFoundedInduction, TLAPS

----------------------------------------------------------------------------
(* Functions, sequences and the mapping record.                            *)

LEMMA WithIs ==
  ASSUME NEW f, NEW S, NEW v
  PROVE  /\ DOMAIN With(f, S, v) = DOMAIN f \cup S
         /\ \A x \in S : With(f, S, v)[x] = v
         /\ \A x \in DOMAIN f \ S : With(f, S, v)[x] = f[x]
BY DEF With

\* A sequence with one more element.
LEMMA AppendIs ==
  ASSUME NEW S, NEW s \in Seq(S), NEW e \in S
  PROVE  /\ Append(s, e) \in Seq(S) /\ Len(Append(s, e)) = Len(s) + 1
         /\ Append(s, e)[Len(s) + 1] = e
         /\ \A i \in DOMAIN s : Append(s, e)[i] = s[i]
OBVIOUS

\* Two bytes written in the middle of a record touch no others.
LEMMA SplicedIs ==
  ASSUME NEW S, NEW s \in Seq(S), NEW offset \in Nat, offset + 2 <= Len(s),
         NEW a \in S, NEW b \in S
  PROVE  LET now == Spliced(s, offset, <<a, b>>)
         IN  /\ now \in Seq(S) /\ Len(now) = Len(s)
             /\ \A i \in 1 .. Len(s) :
                  now[i] = IF i = offset + 1 THEN a ELSE IF i = offset + 2 THEN b ELSE s[i]
PROOF
  <1> DEFINE p == SubSeq(s, 1, offset)
             q == SubSeq(s, offset + 3, Len(s))
             two == <<a, b>>
             pq == p \o two
  <1>1. /\ p \in Seq(S) /\ Len(p) = offset
        /\ \A i \in 1 .. offset : p[i] = s[i]
    OBVIOUS
  <1>2. /\ q \in Seq(S) /\ Len(q) = Len(s) - (offset + 2)
        /\ \A i \in 1 .. Len(s) - (offset + 2) : q[i] = s[offset + 2 + i]
    OBVIOUS
  <1>3. two \in Seq(S) /\ Len(two) = 2 /\ two[1] = a /\ two[2] = b
    OBVIOUS
  <1>4. Spliced(s, offset, <<a, b>>) = (p \o two) \o q
    <2>1. offset + Len(two) + 1 = offset + 3
      BY <1>3
    <2> QED
      BY <2>1 DEF Spliced
  <1> HIDE DEF p, q, two
  <1>5. /\ pq \in Seq(S) /\ Len(pq) = offset + 2
        /\ \A i \in 1 .. offset + 2 : pq[i] = IF i <= offset THEN p[i] ELSE two[i - offset]
    <2>1. /\ pq \in Seq(S) /\ Len(pq) = Len(p) + Len(two)
          /\ \A i \in 1 .. Len(p) + Len(two) :
               pq[i] = IF i <= Len(p) THEN p[i] ELSE two[i - Len(p)]
      BY <1>1, <1>3, ConcatProperties
    <2> HIDE DEF pq
    <2> QED
      BY <1>1, <1>3, <2>1
  <1> HIDE DEF pq
  <1>6. /\ pq \o q \in Seq(S) /\ Len(pq \o q) = Len(s)
        /\ \A i \in 1 .. Len(s) :
             (pq \o q)[i] = IF i <= offset + 2 THEN pq[i] ELSE q[i - (offset + 2)]
    <2>1. /\ pq \o q \in Seq(S) /\ Len(pq \o q) = Len(pq) + Len(q)
          /\ \A i \in 1 .. Len(pq) + Len(q) :
               (pq \o q)[i] = IF i <= Len(pq) THEN pq[i] ELSE q[i - Len(pq)]
      BY <1>2, <1>5, ConcatProperties
    <2>2. Len(pq) + Len(q) = Len(s) /\ Len(s) \in Nat
      BY <1>2, <1>5
    <2> QED
      BY <1>5, <2>1, <2>2
  <1> DEFINE all == pq \o q
  <1>7. ASSUME NEW i \in 1 .. Len(s)
        PROVE  all[i] = IF i = offset + 1 THEN a ELSE IF i = offset + 2 THEN b ELSE s[i]
    <2>1. CASE i <= offset
      BY <1>1, <1>5, <1>6, <2>1
    <2>2. CASE i = offset + 1 \/ i = offset + 2
      <3>1. CASE i = offset + 1
        <4>1. i <= offset + 2 /\ ~(i <= offset) /\ i - offset = 1 /\ i \in 1 .. offset + 2
          BY <3>1
        <4> QED
          BY <1>3, <1>5, <1>6, <3>1, <4>1
      <3>2. CASE i = offset + 2
        <4>1. i <= offset + 2 /\ ~(i <= offset) /\ i - offset = 2 /\ i # offset + 1
              /\ i \in 1 .. offset + 2
          BY <3>2
        <4> QED
          BY <1>3, <1>5, <1>6, <3>2, <4>1
      <3> QED
        BY <2>2, <3>1, <3>2
    <2>3. CASE i > offset + 2
      <3>1. i - (offset + 2) \in 1 .. Len(s) - (offset + 2) /\ offset + 2 + (i - (offset + 2)) = i
        BY <2>3
      <3>2. all[i] = q[i - (offset + 2)]
        BY <1>6, <2>3
      <3> HIDE DEF all
      <3>3. q[i - (offset + 2)] = s[i]
        BY <1>2, <3>1
      <3>4. i # offset + 1 /\ i # offset + 2
        BY <2>3
      <3> QED
        BY <3>2, <3>3, <3>4
    <2>4. i <= offset \/ (i = offset + 1 \/ i = offset + 2) \/ i > offset + 2
      OBVIOUS
    <2> HIDE DEF all
    <2> QED
      BY <2>1, <2>2, <2>3, <2>4
  <1>8. Spliced(s, offset, <<a, b>>) = all
    BY <1>4 DEF all, pq, two
  <1>9. all \in Seq(S) /\ Len(all) = Len(s)
    BY <1>6 DEF all
  <1> HIDE DEF all
  <1> QED
    BY <1>7, <1>8, <1>9

\* A record in the present format.
Entries == Nat \cup Indices

Sound(rec) ==
  rec \in Seq(Entries) /\ Len(rec) = 1 + 2 * Pairs /\ rec[1] = 1

LEMMA PairsIs == Pairs \in Nat /\ \A d \in Drives : d \in Nat /\ 2 * d + 3 <= 1 + 2 * Pairs
PROOF
  <1>1. Pairs \in Nat
    BY DiskAssumption, FS_CardinalityType DEF Pairs
  <1>2. Drives = 0 .. Pairs - 1
    BY DiskAssumption DEF Pairs
  <1> QED
    BY <1>1, <1>2

\* fmount_update_mapping changes the pair of one drive, and makes a record of
\* that pair alone where there is none.
LEMMA UpdatedIs ==
  ASSUME record = << >> \/ Sound(record), NEW d \in Drives,
         NEW flags \in Nat, NEW index \in Entries
  PROVE  /\ Sound(Updated(d, flags, index))
         /\ Updated(d, flags, index)[2 * d + 2] = flags
         /\ \A e \in Drives : e # d =>
              Updated(d, flags, index)[2 * e + 2] =
                IF record = << >> THEN 0 ELSE record[2 * e + 2]
PROOF
  <1>0. Pairs \in Nat /\ \A e \in Drives : e \in Nat /\ 2 * e + 3 <= 1 + 2 * Pairs
    BY PairsIs
  <1>1. CASE record = << >>
    <2> DEFINE whole == WholeRecord(d, flags, index)
    <2>1. Updated(d, flags, index) = whole
      <3>1. Len(record) = 0 /\ 0 # 1 + 2 * Pairs
        BY <1>0, <1>1
      <3> QED
        BY <3>1 DEF Updated
    <2>2. \A i \in 1 .. 1 + 2 * Pairs :
            whole[i] = IF i = 1 THEN 1 ELSE IF i = 2 * d + 2 THEN flags
                       ELSE IF i = 2 * d + 3 THEN index ELSE 0
      BY DEF WholeRecord
    <2>3. whole \in Seq(Entries) /\ Len(whole) = 1 + 2 * Pairs
      <3>1. whole \in [1 .. 1 + 2 * Pairs -> Entries]
        BY <1>0 DEF WholeRecord, Entries
      <3>2. 1 + 2 * Pairs \in Nat
        BY <1>0
      <3> QED
        BY <3>1, <3>2, LenProperties, IsASeq
    <2> HIDE DEF whole
    <2>4. whole[1] = 1 /\ whole[2 * d + 2] = flags
      BY <1>0, <2>2
    <2>5. ASSUME NEW e \in Drives, e # d
          PROVE  whole[2 * e + 2] = 0
      BY <1>0, <2>2, <2>5
    <2> QED
      BY <1>1, <2>1, <2>3, <2>4, <2>5 DEF Sound
  <1>2. CASE record # << >>
    <2> DEFINE now == Spliced(record, 1 + 2 * d, <<flags, index>>)
    <2>1. Sound(record)
      BY <1>2
    <2>2. Updated(d, flags, index) = now
      BY <2>1 DEF Updated, Sound
    <2>3. /\ record \in Seq(Entries) /\ 1 + 2 * d \in Nat
          /\ (1 + 2 * d) + 2 <= Len(record) /\ Len(record) = 1 + 2 * Pairs
          /\ flags \in Entries /\ record[1] = 1
      BY <1>0, <2>1 DEF Sound, Entries
    <2>4. /\ now \in Seq(Entries) /\ Len(now) = Len(record)
          /\ \A i \in 1 .. Len(record) :
               now[i] = IF i = (1 + 2 * d) + 1 THEN flags
                        ELSE IF i = (1 + 2 * d) + 2 THEN index ELSE record[i]
      BY <2>3, SplicedIs
    <2> HIDE DEF now
    <2>5. now[1] = 1 /\ now[2 * d + 2] = flags
      BY <1>0, <2>3, <2>4
    <2>6. ASSUME NEW e \in Drives, e # d
          PROVE  now[2 * e + 2] = record[2 * e + 2]
      <3>1. /\ 2 * e + 2 \in 1 .. Len(record)
            /\ 2 * e + 2 # (1 + 2 * d) + 1 /\ 2 * e + 2 # (1 + 2 * d) + 2
        <4>1. d \in Nat /\ e \in Nat /\ 2 * e + 3 <= Len(record) /\ e # d
          BY <1>0, <2>3, <2>6
        <4> QED
          BY <4>1
      <3> QED
        BY <2>4, <3>1
    <2> QED
      BY <1>2, <2>2, <2>3, <2>4, <2>5, <2>6 DEF Sound
  <1> QED
    BY <1>1, <1>2

----------------------------------------------------------------------------
(* The history of hosts.                                                   *)

Uris == Seq(Roots \cup Folders)

\* An element of a sequence that has it first at i.
FirstAt(s, x, i) == i \in DOMAIN s /\ s[i] = x /\ \A j \in DOMAIN s : s[j] = x => i <= j

FirstIn(s, x) == CHOOSE i \in DOMAIN s : s[i] = x /\ \A j \in DOMAIN s : s[j] = x => i <= j

\* An element of a sequence has a first place in it.
LEMMA FirstInIs ==
  ASSUME NEW s \in Seq(Uris), NEW x, \E j \in DOMAIN s : s[j] = x
  PROVE  FirstAt(s, x, FirstIn(s, x))
PROOF
  <1>1. PICK least \in Nat : FirstAt(s, x, least)
    <2> DEFINE at == {j \in Nat : j \in DOMAIN s /\ s[j] = x}
    <2>1. at # {} /\ at \subseteq Nat
      OBVIOUS
    <2> DEFINE below == {p \in Nat \X Nat : p[1] < p[2]}
    <2>2. IsWellFoundedOn(below, Nat)
      BY NatLessThanWellFounded DEF OpToRel
    <2>3. \A i, j \in Nat : i < j => <<i, j>> \in below
      OBVIOUS
    <2> HIDE DEF below
    <2>4. PICK least \in at : \A j \in at : ~(<<j, least>> \in below)
      BY <2>1, <2>2, WFMin
    <2>5. \A j \in at : least <= j
      <3> HIDE DEF at
      <3>1. ASSUME NEW j \in at
            PROVE  least <= j
        <4>1. least \in Nat /\ j \in Nat /\ ~(j < least)
          BY <2>1, <2>3, <2>4
        <4> QED
          BY <4>1
      <3> QED
        BY <3>1
    <2>6. DOMAIN s \subseteq Nat
      OBVIOUS
    <2> QED
      BY <2>4, <2>5, <2>6 DEF FirstAt
  <1>2. \E i \in DOMAIN s : s[i] = x /\ \A j \in DOMAIN s : s[j] = x => i <= j
    BY <1>1 DEF FirstAt
  <1> QED
    BY <1>2 DEF FirstIn, FirstAt

\* HistoryIsRecent, of any host, history and uses.
Recent(c, h, u) ==
  /\ \A i \in DOMAIN h : \E j \in DOMAIN u : u[j] = h[i]
  /\ \A i, j \in DOMAIN h : i < j => FirstIn(u, h[i]) < FirstIn(u, h[j])
  /\ u[1] = c

LEMMA RecentIs ==
  /\ HistoryIsRecent <=> Recent(current, history, uses)
  /\ HistoryIsRecent' <=> Recent(current', history', uses')
PROOF
  <1>1. HistoryIsRecent <=> Recent(current, history, uses)
    BY DEF HistoryIsRecent, LastUse, Recent, FirstIn
  <1>2. HistoryIsRecent' <=> Recent(current', history', uses')
    BY DEF HistoryIsRecent, LastUse, Recent, FirstIn
  <1> QED
    BY <1>1, <1>2

\* An element has one first place.
LEMMA FirstAtOnly ==
  ASSUME NEW S, NEW s \in Seq(S), NEW x, NEW i, NEW j, FirstAt(s, x, i), FirstAt(s, x, j)
  PROVE  i = j /\ i \in 1 .. Len(s)
BY DEF FirstAt

\* The inductive invariant: HistoryIsRecent with the types.
HostInv ==
  /\ current \in Uris /\ history \in Seq(Uris) /\ uses \in Seq(Uris) /\ uses # << >>
  /\ Recent(current, history, uses)

\* A host is in the history once, and was used.
LEMMA OnceInHistory ==
  ASSUME HostInv
  PROVE  /\ \A i \in DOMAIN history : FirstAt(uses, history[i], FirstIn(uses, history[i]))
         /\ \A i, j \in DOMAIN history : history[i] = history[j] => i = j
PROOF
  <1>1. ASSUME NEW i \in DOMAIN history
        PROVE  /\ FirstAt(uses, history[i], FirstIn(uses, history[i]))
               /\ FirstIn(uses, history[i]) \in Nat
    <2>1. uses \in Seq(Uris) /\ \E j \in DOMAIN uses : uses[j] = history[i]
      BY DEF HostInv, Recent
    <2>2. FirstAt(uses, history[i], FirstIn(uses, history[i]))
      BY <2>1, FirstInIs
    <2> QED
      BY <2>1, <2>2 DEF FirstAt
  <1>2. ASSUME NEW i \in DOMAIN history, NEW j \in DOMAIN history, history[i] = history[j]
        PROVE  i = j
    <2>1. ~(i < j) /\ ~(j < i)
      BY <1>1, <1>2 DEF HostInv, Recent
    <2>2. i \in Nat /\ j \in Nat
      BY DEF HostInv
    <2> QED
      BY <2>1, <2>2
  <1> QED
    BY <1>1, <1>2

\* What the library's RemoveFirst leaves of a history that has a host once: the
\* other hosts in their order.
LEMMA RemoveFirstIs ==
  ASSUME NEW s \in Seq(Uris), NEW uri,
         \A i, j \in DOMAIN s : s[i] = s[j] => i = j
  PROVE  /\ RemoveFirst(s, uri) \in Seq(Uris)
         /\ \A i \in DOMAIN RemoveFirst(s, uri) :
              \E k \in DOMAIN s : RemoveFirst(s, uri)[i] = s[k] /\ s[k] # uri /\ i <= k /\ k <= i + 1
         /\ \A i, j \in DOMAIN RemoveFirst(s, uri) : i < j =>
              \E k, l \in DOMAIN s : /\ k < l /\ RemoveFirst(s, uri)[i] = s[k]
                                     /\ RemoveFirst(s, uri)[j] = s[l]
PROOF
  <1>1. CASE ~\E i \in 1 .. Len(s) : s[i] = uri
    <2>1. RemoveFirst(s, uri) = s
      BY <1>1 DEF RemoveFirst
    <2>2. \A i \in DOMAIN s : s[i] # uri /\ i <= i /\ i <= i + 1
      BY <1>1
    <2> QED
      BY <2>1, <2>2
  <1>2. CASE \E i \in 1 .. Len(s) : s[i] = uri
    <2>1. PICK k \in 1 .. Len(s) : s[k] = uri
      BY <1>2
    <2>2. {i \in 1 .. Len(s) : s[i] = uri} = {k}
      BY <2>1
    <2>3. Min({k}) = k
      BY DEF Min
    <2> DEFINE less == RemoveAt(s, k)
    <2>4. RemoveFirst(s, uri) = less
      BY <1>2, <2>2, <2>3 DEF RemoveFirst, SelectInSeq
    <2>5. /\ less \in Seq(Uris) /\ Len(less) = Len(s) - 1
          /\ \A i \in 1 .. Len(s) - 1 : less[i] = IF i < k THEN s[i] ELSE s[i + 1]
      <3> DEFINE p == SubSeq(s, 1, k - 1)
                 q == SubSeq(s, k + 1, Len(s))
      <3>1. /\ p \in Seq(Uris) /\ Len(p) = k - 1
            /\ \A i \in 1 .. k - 1 : p[i] = s[i]
        OBVIOUS
      <3>2. /\ q \in Seq(Uris) /\ Len(q) = Len(s) - k
            /\ \A i \in 1 .. Len(s) - k : q[i] = s[k + i]
        OBVIOUS
      <3>3. less = p \o q
        BY DEF RemoveAt
      <3> HIDE DEF p, q
      <3>4. /\ p \o q \in Seq(Uris)
            /\ Len(p \o q) = Len(p) + Len(q)
            /\ \A i \in 1 .. Len(p) + Len(q) : (p \o q)[i] =
                  IF i <= Len(p) THEN p[i] ELSE q[i - Len(p)]
        BY <3>1, <3>2, ConcatProperties
      <3>5. Len(p) + Len(q) = Len(s) - 1
        BY <3>1, <3>2
      <3>6. ASSUME NEW i \in 1 .. Len(s) - 1
            PROVE  (p \o q)[i] = IF i < k THEN s[i] ELSE s[i + 1]
        <4>1. CASE i < k
          BY <3>1, <3>4, <3>5, <4>1
        <4>2. CASE ~(i < k)
          <5>1. i - (k - 1) \in 1 .. Len(s) - k /\ k + (i - (k - 1)) = i + 1
            BY <4>2
          <5>2. (p \o q)[i] = q[i - (k - 1)]
            BY <3>1, <3>4, <3>5, <4>2
          <5> QED
            BY <3>2, <4>2, <5>1, <5>2
        <4> QED
          BY <4>1, <4>2
      <3> QED
        BY <3>3, <3>4, <3>5, <3>6
    <2> HIDE DEF less
    <2> DEFINE old(i) == IF i < k THEN i ELSE i + 1
    <2>6. ASSUME NEW i \in DOMAIN less
          PROVE  /\ old(i) \in DOMAIN s /\ less[i] = s[old(i)] /\ s[old(i)] # uri
                 /\ i <= old(i) /\ old(i) <= i + 1
      <3>1. i \in 1 .. Len(s) - 1 /\ old(i) \in 1 .. Len(s) /\ old(i) # k
        BY <2>5
      <3>2. s[old(i)] # uri
        BY <2>1, <3>1
      <3> QED
        BY <2>5, <3>1, <3>2
    <2>7. \A i, j \in DOMAIN less : i < j => old(i) < old(j)
      BY <2>5
    <2> HIDE DEF old
    <2> QED
      BY <2>4, <2>5, <2>6, <2>7
  <1> QED
    BY <1>1, <1>2

\* A host that comes to the front.
LEMMA Promoted ==
  ASSUME HostInv, NEW uri \in Uris, promote(uri)
  PROVE  HostInv'
PROOF
  <1> DEFINE rest == RemoveFirst(history, uri)
             moved == <<uri>> \o rest
             n == IF Len(moved) < MaxHistory THEN Len(moved) ELSE MaxHistory
             used == <<uri>> \o uses
  <1>1. /\ history \in Seq(Uris) /\ uses \in Seq(Uris)
        /\ \A i, j \in DOMAIN history : history[i] = history[j] => i = j
    BY OnceInHistory DEF HostInv
  <1>2. /\ rest \in Seq(Uris)
        /\ \A i \in DOMAIN rest : \E k \in DOMAIN history : rest[i] = history[k] /\ history[k] # uri
        /\ \A i, j \in DOMAIN rest : i < j =>
             \E k, l \in DOMAIN history : k < l /\ rest[i] = history[k] /\ rest[j] = history[l]
    BY <1>1, RemoveFirstIs
  <1> HIDE DEF rest
  <1>3. <<uri>> \in Seq(Uris) /\ Len(<<uri>>) = 1 /\ <<uri>>[1] = uri
    OBVIOUS
  <1>4. /\ moved \in Seq(Uris) /\ Len(moved) = 1 + Len(rest) /\ moved[1] = uri
        /\ \A i \in DOMAIN moved : i # 1 => i - 1 \in DOMAIN rest /\ moved[i] = rest[i - 1]
    BY <1>2, <1>3
  <1>5. /\ used \in Seq(Uris) /\ Len(used) = 1 + Len(uses) /\ used[1] = uri
        /\ \A i \in DOMAIN uses : i + 1 \in DOMAIN used /\ used[i + 1] = uses[i]
        /\ \A i \in DOMAIN used : i # 1 => i - 1 \in DOMAIN uses /\ used[i] = uses[i - 1]
    BY <1>1, <1>3
  <1>6. current' = uri /\ history' = SubSeq(moved, 1, n) /\ uses' = used
    BY DEF promote, rest
  <1>7. n \in 0 .. Len(moved)
    BY <1>2, <1>4, HostAssumption
  <1> HIDE DEF moved, used, n
  <1>8. /\ history' \in Seq(Uris) /\ DOMAIN history' \subseteq DOMAIN moved
        /\ \A i \in DOMAIN history' : history'[i] = moved[i]
    BY <1>4, <1>6, <1>7
  <1>9. FirstAt(used, uri, 1)
    BY <1>5 DEF FirstAt
  <1>10. ASSUME NEW x, x # uri, NEW i, FirstAt(uses, x, i)
         PROVE  FirstAt(used, x, i + 1)
    <2>1. i \in DOMAIN uses /\ i + 1 \in DOMAIN used /\ used[i + 1] = x /\ i \in Nat
      BY <1>1, <1>5, <1>10 DEF FirstAt
    <2>2. ASSUME NEW j \in DOMAIN used, used[j] = x
          PROVE  i + 1 <= j
      <3>1. j # 1 /\ j \in Nat
        BY <1>5, <1>10, <2>2
      <3>2. j - 1 \in DOMAIN uses /\ uses[j - 1] = x
        BY <1>5, <2>2, <3>1
      <3>3. i <= j - 1
        BY <1>10, <3>2 DEF FirstAt
      <3> QED
        BY <2>1, <3>1, <3>3
    <2> QED
      BY <2>1, <2>2 DEF FirstAt
  <1>11. \A i \in DOMAIN history' : \E j \in DOMAIN used : used[j] = history'[i]
    <2>1. ASSUME NEW i \in DOMAIN history'
          PROVE  \E j \in DOMAIN used : used[j] = history'[i]
      <3>1. CASE i = 1
        BY <1>4, <1>8, <1>9, <3>1 DEF FirstAt
      <3>2. CASE i # 1
        <4>1. i - 1 \in DOMAIN rest /\ history'[i] = rest[i - 1]
          BY <1>4, <1>8, <3>2
        <4>2. PICK k \in DOMAIN history : rest[i - 1] = history[k]
          BY <1>2, <4>1
        <4>3. PICK j \in DOMAIN uses : uses[j] = history[k]
          BY DEF HostInv, Recent
        <4> QED
          BY <1>5, <4>1, <4>2, <4>3
      <3> QED
        BY <3>1, <3>2
    <2> QED
      BY <2>1
  <1>12. ASSUME NEW i \in DOMAIN history'
         PROVE  FirstAt(used, history'[i], FirstIn(used, history'[i]))
    <2>1. uses' \in Seq(Uris) /\ \E j \in DOMAIN uses' : uses'[j] = history'[i]
      BY <1>5, <1>6, <1>11
    <2> QED
      BY <1>6, <2>1, FirstInIs
  <1>13. ASSUME NEW i \in DOMAIN history', i # 1
         PROVE  /\ history'[i] = rest[i - 1] /\ i - 1 \in DOMAIN rest
                /\ FirstAt(used, history'[i], FirstIn(uses, history'[i]) + 1)
                /\ FirstIn(uses, history'[i]) \in Nat
    <2>1. history'[i] = rest[i - 1] /\ i - 1 \in DOMAIN rest
      BY <1>4, <1>8, <1>13
    <2>2. PICK k \in DOMAIN history : rest[i - 1] = history[k] /\ history[k] # uri
      BY <1>2, <2>1
    <2>3. FirstAt(uses, history[k], FirstIn(uses, history[k]))
      BY OnceInHistory
    <2>4. FirstIn(uses, history[k]) \in Nat
      BY <1>1, <2>3 DEF FirstAt
    <2> QED
      BY <1>10, <2>1, <2>2, <2>3, <2>4
  <1>14. ASSUME NEW i \in DOMAIN history', NEW j \in DOMAIN history', i < j
         PROVE  FirstIn(used, history'[i]) < FirstIn(used, history'[j])
    <2>0. i \in Nat /\ j \in Nat /\ j # 1 /\ i >= 1
      BY <1>8, <1>14
    <2>1. /\ FirstIn(used, history'[j]) = FirstIn(uses, history'[j]) + 1
          /\ FirstIn(uses, history'[j]) \in Nat
      <3>1. /\ FirstAt(used, history'[j], FirstIn(uses, history'[j]) + 1)
            /\ FirstIn(uses, history'[j]) \in Nat
        BY <1>13, <2>0
      <3>2. FirstAt(used, history'[j], FirstIn(used, history'[j]))
        BY <1>12
      <3>3. used \in Seq(Uris)
        BY <1>5
      <3> QED
        BY <3>1, <3>2, <3>3, FirstAtOnly
    <2>2. FirstIn(uses, history'[j]) >= 1
      <3>1. PICK k \in DOMAIN history : history'[j] = history[k]
        BY <1>2, <1>13, <2>0
      <3>2. FirstAt(uses, history[k], FirstIn(uses, history[k]))
        BY OnceInHistory
      <3> QED
        BY <1>1, <3>1, <3>2 DEF FirstAt
    <2>3. CASE i = 1
      <3>1. FirstIn(used, history'[i]) = 1
        <4>1. FirstAt(used, history'[i], FirstIn(used, history'[i]))
          BY <1>12
        <4>2. FirstAt(used, history'[i], 1)
          BY <1>4, <1>8, <1>9, <2>3
        <4>3. used \in Seq(Uris)
          BY <1>5
        <4> QED
          BY <4>1, <4>2, <4>3, FirstAtOnly
      <3> QED
        BY <2>1, <2>2, <3>1
    <2>4. CASE i # 1
      <3>1. /\ FirstIn(used, history'[i]) = FirstIn(uses, history'[i]) + 1
            /\ FirstIn(uses, history'[i]) \in Nat
        <4>1. /\ FirstAt(used, history'[i], FirstIn(uses, history'[i]) + 1)
              /\ FirstIn(uses, history'[i]) \in Nat
          BY <1>13, <2>4
        <4>2. FirstAt(used, history'[i], FirstIn(used, history'[i]))
          BY <1>12
        <4>3. used \in Seq(Uris)
          BY <1>5
        <4> QED
          BY <4>1, <4>2, <4>3, FirstAtOnly
      <3>2. /\ history'[i] = rest[i - 1] /\ i - 1 \in DOMAIN rest
            /\ history'[j] = rest[j - 1] /\ j - 1 \in DOMAIN rest
        BY <1>13, <2>0, <2>4
      <3>3. i - 1 < j - 1
        BY <1>14, <2>0
      <3>4. PICK k \in DOMAIN history, l \in DOMAIN history :
              k < l /\ rest[i - 1] = history[k] /\ rest[j - 1] = history[l]
        BY <1>2, <3>2, <3>3
      <3>5. FirstIn(uses, history[k]) < FirstIn(uses, history[l])
        BY <3>4 DEF HostInv, Recent
      <3>6. FirstIn(uses, history'[i]) < FirstIn(uses, history'[j])
        BY <3>2, <3>4, <3>5
      <3> QED
        BY <2>1, <3>1, <3>6
    <2> QED
      BY <2>3, <2>4
  <1>15. Recent(current', history', uses')
    <2>1. uses'[1] = current'
      BY <1>5, <1>6
    <2>2. \A i \in DOMAIN history' : \E j \in DOMAIN uses' : uses'[j] = history'[i]
      BY <1>6, <1>11
    <2> QED
      BY <1>6, <1>14, <2>1, <2>2 DEF Recent
  <1> QED
    BY <1>5, <1>6, <1>8, <1>15 DEF HostInv

\* A host that is taken out of the history.
LEMMA Deleted ==
  ASSUME HostInv, NEW d, DeleteHistory(d)
  PROVE  HostInv'
PROOF
  <1> DEFINE p == SubSeq(history, 1, d - 1)
             q == SubSeq(history, d + 1, Len(history))
             old(i) == IF i < d THEN i ELSE i + 1
  <1>1. /\ history \in Seq(Uris) /\ d \in 1 .. Len(history) /\ history' = p \o q
        /\ current' = current /\ uses' = uses
    BY DEF DeleteHistory, HostInv, RemoveAt
  <1>2. /\ p \in Seq(Uris) /\ Len(p) = d - 1 /\ \A i \in 1 .. d - 1 : p[i] = history[i]
    BY <1>1
  <1>3. /\ q \in Seq(Uris) /\ Len(q) = Len(history) - d
        /\ \A i \in 1 .. Len(history) - d : q[i] = history[d + i]
    BY <1>1
  <1> HIDE DEF p, q
  <1>4. /\ history' \in Seq(Uris)
        /\ Len(history') = Len(p) + Len(q)
        /\ \A i \in 1 .. Len(p) + Len(q) : history'[i] =
              IF i <= Len(p) THEN p[i] ELSE q[i - Len(p)]
    BY <1>1, <1>2, <1>3, ConcatProperties
  <1>5. Len(history') = Len(history) - 1
    BY <1>1, <1>2, <1>3, <1>4
  <1>6. ASSUME NEW i \in DOMAIN history'
        PROVE  old(i) \in DOMAIN history /\ history'[i] = history[old(i)]
    <2>1. i \in 1 .. Len(history) - 1 /\ i \in 1 .. Len(p) + Len(q)
      BY <1>1, <1>2, <1>3, <1>4, <1>5
    <2>2. CASE i < d
      BY <1>1, <1>2, <1>4, <2>1, <2>2
    <2>3. CASE ~(i < d)
      <3>1. i - (d - 1) \in 1 .. Len(history) - d /\ d + (i - (d - 1)) = i + 1
        BY <1>1, <2>1, <2>3
      <3>2. history'[i] = q[i - (d - 1)]
        BY <1>1, <1>2, <1>4, <2>1, <2>3
      <3>3. q[i - (d - 1)] = history[i + 1]
        BY <1>3, <3>1
      <3>4. i + 1 \in DOMAIN history
        BY <1>1, <2>1
      <3> QED
        BY <2>3, <3>2, <3>3, <3>4
    <2> QED
      BY <2>2, <2>3
  <1>7. \A i, j \in DOMAIN history' : i < j => old(i) < old(j)
    BY <1>1, <1>4
  <1> HIDE DEF old
  <1>9. Recent(current', history', uses')
    <2>1. \A i \in DOMAIN history' : \E j \in DOMAIN uses' : uses'[j] = history'[i]
      BY <1>1, <1>6 DEF HostInv, Recent
    <2>2. ASSUME NEW i \in DOMAIN history', NEW j \in DOMAIN history', i < j
          PROVE  FirstIn(uses', history'[i]) < FirstIn(uses', history'[j])
      <3>1. FirstIn(uses, history[old(i)]) < FirstIn(uses, history[old(j)])
        BY <1>6, <1>7, <2>2 DEF HostInv, Recent
      <3> QED
        BY <1>1, <1>6, <3>1
    <2>3. uses'[1] = current'
      BY <1>1 DEF HostInv, Recent
    <2> QED
      BY <2>1, <2>2, <2>3 DEF Recent
  <1> QED
    BY <1>1, <1>4, <1>9 DEF HostInv

\* What a host command leaves true.
LEMMA HostKept ==
  ASSUME HostInv, HostNext \/ UNCHANGED host
  PROVE  HostInv'
PROOF
  <1>1. ASSUME NEW spec \in Specs, SetCurrent(spec)
        PROVE  HostInv'
    <2>1. spec \in Uris /\ current \in Uris
      <3>1. PICK part \in Roots \cup Folders : spec = <<part>>
        BY DEF Specs
      <3> QED
        BY <3>1 DEF Uris, HostInv
    <2>2. resolve(spec) \in Uris
      BY <2>1 DEF resolve, Uris
    <2> QED
      BY <1>1, <2>2, Promoted DEF SetCurrent
  <1>2. ASSUME NEW i \in 1 .. MaxHistory, SelectHistory(i)
        PROVE  HostInv'
    <2>1. history[i] \in Uris /\ promote(history[i])
      BY <1>2 DEF SelectHistory, HostInv
    <2> QED
      BY <2>1, Promoted
  <1>3. ASSUME NEW i \in 1 .. MaxHistory, DeleteHistory(i)
        PROVE  HostInv'
    BY <1>3, Deleted
  <1>4. CASE UNCHANGED host
    <2>1. current' = current /\ history' = history /\ uses' = uses
      BY <1>4 DEF host
    <2> QED
      BY <2>1 DEF HostInv
  <1> QED
    BY <1>1, <1>2, <1>3, <1>4 DEF HostNext

\* The first host.
LEMMA HostFirst ==
  ASSUME Init
  PROVE  HostInv
PROOF
  <1> DEFINE root == CHOOSE r \in Roots : TRUE
             first == <<root>>
  <1>1. root \in Roots
    BY HostAssumption
  <1>2. current = first /\ history = <<first>> /\ uses = <<first>>
    BY DEF Init, HostInit
  <1>3. first \in Uris
    BY <1>1 DEF Uris
  <1> HIDE DEF first
  <1>4. Recent(current, history, uses)
    <2>1. DOMAIN history = {1} /\ history[1] = first /\ uses[1] = first /\ DOMAIN uses = {1}
      BY <1>2
    <2>2. \A i, j \in DOMAIN history : ~(i < j)
      BY <2>1
    <2> QED
      BY <1>2, <2>1, <2>2 DEF Recent
  <1> QED
    BY <1>2, <1>3, <1>4 DEF HostInv

----------------------------------------------------------------------------
(* Names and images.                                                       *)

\* The contents a sector may have.
Values == Data \cup {Zero, Label} \cup {BootData[i] : i \in DOMAIN BootData}

\* A name is a record.
Named(t) == t = [dir |-> t.dir, prefix |-> t.prefix, leaf |-> t.leaf]

\* The place that a name resolves to keeps the drive of the name, has a folder,
\* and resolves to itself.
LEMMA ResolveIs ==
  ASSUME NEW t, Named(t)
  PROVE  /\ Named(Beside(t)) /\ Beside(t).dir = BootDir /\ Beside(t).prefix = t.prefix
         /\ Named(resolve_target(t)) /\ resolve_target(t).dir # None
         /\ resolve_target(t).prefix = t.prefix
         /\ resolve_target(resolve_target(t)) = resolve_target(t)
PROOF
  <1>1. Beside(t) = [dir |-> BootDir, prefix |-> t.prefix, leaf |-> t.leaf]
    BY DEF Named, Beside
  <1>2. Named(Beside(t)) /\ Beside(t).dir = BootDir /\ Beside(t).prefix = t.prefix
    BY <1>1 DEF Named
  <1>3. BootDir # None
    BY DiskAssumption
  <1>4. CASE t.dir # None
    <2>1. resolve_target(t) = t
      BY <1>4 DEF resolve_target
    <2> QED
      BY <1>2, <1>4, <2>1
  <1>5. CASE t.dir = None
    <2>1. resolve_target(t) = Beside(t)
      BY <1>5 DEF resolve_target
    <2>2. resolve_target(Beside(t)) = Beside(t)
      BY <1>2, <1>3 DEF resolve_target
    <2> QED
      BY <1>2, <1>3, <2>1, <2>2
  <1> QED
    BY <1>4, <1>5

\* The images that were made in a place, and FoundByName for any names.
Makers(ns, p) ==
  {i \in DOMAIN ns : \E t \in ns[i] : t.prefix = None /\ resolve_target(t) = p}

Found(ns, av) ==
  \A p \in Target : Makers(ns, p) # {} => p \in DOMAIN av /\ av[p] = Max(Makers(ns, p))

LEMMA FoundIs ==
  /\ FoundByName <=> Found(names, available)
  /\ FoundByName' <=> Found(names', available')
PROOF
  <1>1. FoundByName <=> Found(names, available)
    BY DEF FoundByName, Found, Makers
  <1>2. FoundByName' <=> Found(names', available')
    BY DEF FoundByName, Found, Makers
  <1> QED
    BY <1>1, <1>2

\* The names there are.
Known ==
  Targets \cup Available \cup {Beside(t) : t \in Targets} \cup {BootUri, Leaf(BootLeaf)}

LEMMA KnownNamed ==
  /\ \A t \in Known : Named(t)
  /\ \A t \in Targets : Spellings(t) \subseteq Known
PROOF
  <1>1. \A t \in Targets \cup Available : Named(t)
    BY DiskAssumption DEF Named
  <1>2. \A t \in Targets : Named(Beside(t))
    BY <1>1, ResolveIs
  <1>3. Named(BootUri) /\ Named(Leaf(BootLeaf))
    BY DEF Named, BootUri, Leaf
  <1>4. \A t \in Targets : Spellings(t) \subseteq {t, Beside(t)}
    BY DEF Spellings
  <1> QED
    BY <1>1, <1>2, <1>3, <1>4 DEF Known

\* The inductive invariant of the images: every name that is known is one that
\* its image was made under.
ImagesInv ==
  /\ images \in Seq(Seq(Values)) /\ 1 \in DOMAIN images
  /\ names \in Seq(SUBSET Known) /\ Len(names) = Len(images)
  /\ \A t \in DOMAIN available : available[t] \in DOMAIN images /\ t \in names[available[t]]
  /\ Found(names, available)

\* The same images under the same names.
LEMMA ImagesSame ==
  ASSUME ImagesInv, images' \in Seq(Seq(Values)), Len(images') = Len(images),
         names' = names, available' = available
  PROVE  ImagesInv'
PROOF
  <1>1. DOMAIN images' = DOMAIN images
    BY DEF ImagesInv
  <1> QED
    BY <1>1 DEF ImagesInv

\* A new image: its names are taken from whatever had them.
LEMMA Created ==
  ASSUME ImagesInv, NEW t \in Targets, Create(t)
  PROVE  /\ ImagesInv'
         /\ DOMAIN images \subseteq DOMAIN images'
         /\ \A i \in DOMAIN names : names'[i] = names[i]
PROOF
  <1> DEFINE n == Len(images) + 1
             blank == [i \in 1 .. CreateSize |-> Zero]
             sp == Spellings(t)
  <1>1. blank \in Seq(Values)
    <2>1. CreateSize \in Nat /\ Zero \in Values
      BY DiskAssumption DEF Values
    <2> QED
      BY <2>1
  <1>2. sp \subseteq Known /\ Named(t) /\ \A u \in Known : Named(u)
    BY KnownNamed DEF Known
  <1> HIDE DEF blank
  <1>3. /\ images' \in Seq(Seq(Values)) /\ Len(images') = n
        /\ DOMAIN images' = DOMAIN images \cup {n}
    <2>1. images' = Append(images, blank) /\ images \in Seq(Seq(Values))
      BY DEF Create, blank, ImagesInv
    <2> QED
      BY <1>1, <2>1
  <1>4. /\ names' \in Seq(SUBSET Known) /\ Len(names') = n /\ names'[n] = sp
        /\ \A i \in DOMAIN names : names'[i] = names[i]
        /\ DOMAIN names = 1 .. n - 1 /\ DOMAIN names' = 1 .. n /\ n \in Nat
        /\ DOMAIN names = DOMAIN images
    <2>1. /\ names' = Append(names, sp) /\ names \in Seq(SUBSET Known)
          /\ Len(names) = Len(images) /\ sp \in SUBSET Known /\ images \in Seq(Seq(Values))
      BY <1>2 DEF Create, ImagesInv
    <2> HIDE DEF sp
    <2>2. /\ names' \in Seq(SUBSET Known) /\ Len(names') = Len(names) + 1
          /\ names'[Len(names) + 1] = sp
          /\ \A i \in DOMAIN names : names'[i] = names[i]
      BY <2>1, AppendIs
    <2> QED
      BY <2>1, <2>2
  <1>5. /\ DOMAIN available' = DOMAIN available \cup sp
        /\ \A x \in sp : available'[x] = n
        /\ \A x \in DOMAIN available \ sp : available'[x] = available[x]
    <2>1. available' = With(available, sp, n)
      BY <1>3 DEF Create
    <2> HIDE DEF sp, n
    <2> QED
      BY <2>1 DEF With
  <1>6. \A x \in DOMAIN available' :
          available'[x] \in DOMAIN images' /\ x \in names'[available'[x]]
    <2>1. ASSUME NEW x \in DOMAIN available'
          PROVE  available'[x] \in DOMAIN images' /\ x \in names'[available'[x]]
      <3>1. CASE x \in sp
        BY <1>3, <1>4, <1>5, <3>1
      <3>2. CASE x \notin sp
        <4>1. available[x] \in DOMAIN images /\ x \in names[available[x]]
          BY <1>5, <2>1, <3>2 DEF ImagesInv
        <4> QED
          BY <1>3, <1>4, <1>5, <2>1, <3>2, <4>1
      <3> QED
        BY <3>1, <3>2
    <2> QED
      BY <2>1
  <1>7. ASSUME NEW p \in Target, Makers(names', p) # {}
        PROVE  p \in DOMAIN available' /\ available'[p] = Max(Makers(names', p))
    <2> DEFINE made(u) == u.prefix = None /\ resolve_target(u) = p
               hit == \E u \in sp : made(u)
    <2>1. Makers(names', p) = Makers(names, p) \cup {i \in {n} : hit}
      <3>1. ASSUME NEW i
            PROVE  i \in Makers(names', p) <=> i \in Makers(names, p) \/ (i = n /\ hit)
        <4>1. CASE i \in DOMAIN names
          <5>1. i # n
            BY <1>4, <4>1
          <5> QED
            BY <1>4, <4>1, <5>1 DEF Makers
        <4>2. CASE i \notin DOMAIN names
          <5>1. i \in DOMAIN names' <=> i = n
            BY <1>4, <4>2
          <5> QED
            BY <1>4, <4>2, <5>1 DEF Makers
        <4> QED
          BY <4>1, <4>2
      <3> QED
        BY <3>1
    <2>2. Makers(names, p) \subseteq 1 .. n - 1
      BY <1>4 DEF Makers
    <2>3. CASE hit
      <3>1. PICK u \in sp : made(u)
        BY <2>3
      <3>2. p \in sp
        <4>1. CASE u = t /\ t.dir # None
          BY <3>1, <4>1 DEF resolve_target
        <4>2. CASE u = t /\ t.dir = None
          BY <3>1, <4>2 DEF resolve_target, Relative, Spellings
        <4>3. CASE u # t
          <5>1. u = Beside(t)
            BY <3>1, <4>3 DEF Spellings
          <5>2. Beside(t).dir = BootDir /\ BootDir # None
            BY <1>2, ResolveIs, DiskAssumption
          <5>3. p = u
            BY <3>1, <5>1, <5>2 DEF resolve_target
          <5> QED
            BY <3>1, <5>3
        <4> QED
          BY <4>1, <4>2, <4>3
      <3>3. n \in Makers(names', p) /\ \A m \in Makers(names', p) : m \in 1 .. n
        BY <1>4, <2>1, <2>2, <2>3
      <3>4. Max(Makers(names', p)) = n
        BY <1>4, <3>3 DEF Max
      <3> QED
        BY <1>5, <3>2, <3>4
    <2>4. CASE ~hit
      <3>1. Makers(names', p) = Makers(names, p)
        BY <2>1, <2>4
      <3>2. p \in DOMAIN available /\ available[p] = Max(Makers(names, p))
        BY <1>7, <3>1 DEF ImagesInv, Found
      <3>3. p \notin sp
        <4>1. PICK i \in DOMAIN names : \E u \in names[i] : made(u)
          BY <1>7, <3>1 DEF Makers
        <4>2. PICK u \in names[i] : made(u)
          BY <4>1
        <4>3. Named(u)
          BY <1>2 DEF ImagesInv
        <4>4. made(p)
          BY <4>2, <4>3, ResolveIs
        <4> QED
          BY <2>4, <4>4
      <3> QED
        BY <1>5, <3>1, <3>2, <3>3
    <2> QED
      BY <2>3, <2>4
  <1> HIDE DEF sp
  <1>8. Found(names', available')
    BY <1>7 DEF Found
  <1>9. 1 \in DOMAIN images'
    BY <1>3 DEF ImagesInv
  <1>10. ImagesInv'
    BY <1>3, <1>4, <1>6, <1>8, <1>9 DEF ImagesInv
  <1> QED
    BY <1>3, <1>4, <1>10

\* The boot image and the further copies.
LEMMA ImagesFirst ==
  ASSUME Init
  PROVE  ImagesInv
PROOF
  <1> DEFINE N == Cardinality(Available)
             Start == {BootUri, Leaf(BootLeaf)} \cup Available
  <1>0. PICK copies \in Bijection(1 .. N, Available) :
          /\ images = [i \in 1 .. 1 + Len(copies) |-> BootData]
          /\ available = [t \in Start |->
                            IF t \in Available
                            THEN 1 + CHOOSE i \in DOMAIN copies : copies[i] = t ELSE 1]
          /\ names = [i \in DOMAIN images |-> {t \in DOMAIN available : available[t] = i}]
    BY DEF Init
  <1>1. N \in Nat
    BY DiskAssumption, FS_CardinalityType
  <1>2. copies \in [1 .. N -> Available] /\ \A t \in Available : \E i \in 1 .. N : copies[i] = t
    BY DEF Bijection, Injection, Surjection
  <1>3. Len(copies) = N /\ DOMAIN copies = 1 .. N
    <2>1. copies \in Seq(Available)
      BY <1>1, <1>2, IsASeq
    <2> QED
      BY <1>1, <1>2, <2>1, LenProperties
  <1>4. DOMAIN available = Start /\ \A t \in Start \ Available : available[t] = 1
    BY <1>0
  <1>5. ASSUME NEW t \in Available
        PROVE  available[t] \in 2 .. 1 + N
    <2> DEFINE k == CHOOSE i \in DOMAIN copies : copies[i] = t
    <2>1. k \in 1 .. N
      BY <1>2, <1>3
    <2>2. available[t] = 1 + k
      BY <1>0
    <2> HIDE DEF k
    <2> QED
      BY <1>1, <2>1, <2>2
  <1>6. BootData \in Seq(Values)
    <2> DEFINE Contents == {BootData[i] : i \in DOMAIN BootData}
    <2>1. BootData \in Seq(Contents) /\ Contents \subseteq Values
      BY DiskAssumption DEF Values
    <2> HIDE DEF Contents
    <2> QED
      BY <2>1
  <1>7. images \in Seq(Seq(Values)) /\ Len(images) = 1 + N /\ DOMAIN images = 1 .. 1 + N
    <2>1. images \in [1 .. 1 + N -> Seq(Values)] /\ 1 + N \in Nat
      BY <1>0, <1>1, <1>3, <1>6
    <2> QED
      BY <2>1, IsASeq, LenProperties
  <1>8. /\ names \in Seq(SUBSET Known) /\ Len(names) = 1 + N /\ DOMAIN names = 1 .. 1 + N
        /\ \A i \in DOMAIN names : names[i] = {t \in Start : available[t] = i}
    <2>1. Start \subseteq Known
      BY DEF Known
    <2>2. names = [i \in 1 .. 1 + N |-> {t \in Start : available[t] = i}] /\ 1 + N \in Nat
      BY <1>0, <1>1, <1>4, <1>7
    <2> HIDE DEF Start
    <2>3. names \in [1 .. 1 + N -> SUBSET Known]
      BY <2>1, <2>2
    <2> QED
      BY <2>2, <2>3, IsASeq, LenProperties
  <1> HIDE DEF N
  <1>9. ASSUME NEW t \in DOMAIN available
        PROVE  available[t] \in DOMAIN images /\ t \in names[available[t]]
    <2>1. available[t] \in 1 .. 1 + N
      <3>1. CASE t \in Available
        BY <1>1, <1>5, <3>1
      <3>2. CASE t \notin Available
        BY <1>1, <1>4, <1>9, <3>2
      <3> QED
        BY <3>1, <3>2
    <2> QED
      BY <1>4, <1>7, <1>8, <1>9, <2>1
  <1>10. ASSUME NEW p \in Target, Makers(names, p) # {}
         PROVE  p \in DOMAIN available /\ available[p] = Max(Makers(names, p))
    <2>1. ASSUME NEW t \in Start, t.prefix = None, resolve_target(t) = p
          PROVE  /\ p \in Start /\ p.prefix = None /\ resolve_target(p) = p
                 /\ available[t] = available[p] \/ available[t] = 1
      <3>1. t \in Known
        BY DEF Known
      <3>2. Named(t)
        BY <3>1, KnownNamed
      <3>3. p.prefix = None /\ resolve_target(p) = p
        BY <2>1, <3>2, ResolveIs
      <3>4. CASE t \in Available
        <4>1. t.dir # None
          BY <3>4, DiskAssumption
        <4>2. p = t
          BY <2>1, <4>1 DEF resolve_target
        <4> QED
          BY <3>3, <4>2
      <3>5. CASE t \notin Available
        <4>1. t = BootUri \/ t = Leaf(BootLeaf)
          BY <2>1, <3>5
        <4>2. p = BootUri
          <5>1. BootDir # None
            BY DiskAssumption
          <5>2. CASE t = BootUri
            BY <2>1, <5>1, <5>2 DEF BootUri, resolve_target
          <5>3. CASE t = Leaf(BootLeaf)
            <6>1. t.dir = None
              BY <5>3 DEF Leaf
            <6>2. p = Beside(Leaf(BootLeaf))
              BY <2>1, <5>3, <6>1 DEF resolve_target
            <6> QED
              BY <6>2 DEF Beside, Leaf, BootUri
          <5> QED
            BY <4>1, <5>2, <5>3
        <4> QED
          BY <1>4, <3>3, <3>5, <4>2
      <3> QED
        BY <3>4, <3>5
    <2>2. PICK i \in DOMAIN names :
            \E t \in names[i] : t.prefix = None /\ resolve_target(t) = p
      BY <1>10 DEF Makers
    <2>3. PICK t \in names[i] : t.prefix = None /\ resolve_target(t) = p
      BY <2>2
    <2>4. t \in Start
      BY <1>8
    <2>5. p \in Start /\ p.prefix = None /\ resolve_target(p) = p
      BY <2>1, <2>3, <2>4
    <2>6. available[p] \in DOMAIN names /\ p \in names[available[p]]
      BY <1>4, <1>7, <1>8, <1>9, <2>5
    <2>7. available[p] \in Makers(names, p)
      BY <2>5, <2>6 DEF Makers
    <2>8. ASSUME NEW j \in Makers(names, p)
          PROVE  j \in Nat /\ j <= available[p]
      <3>1. j \in DOMAIN names /\ \E u \in names[j] : u.prefix = None /\ resolve_target(u) = p
        BY <2>8 DEF Makers
      <3>2. PICK u \in names[j] : u.prefix = None /\ resolve_target(u) = p
        BY <3>1
      <3>3. u \in Start /\ available[u] = j
        BY <1>8, <3>1
      <3>4. j = available[p] \/ j = 1
        BY <2>1, <3>2, <3>3
      <3>5. available[p] \in 1 .. 1 + N
        BY <1>8, <2>6
      <3> QED
        BY <1>1, <3>4, <3>5
    <2>9. available[p] \in Nat
      BY <2>7, <2>8
    <2>10. Max(Makers(names, p)) = available[p]
      BY <2>7, <2>8, <2>9 DEF Max
    <2> QED
      BY <1>4, <2>5, <2>10
  <1>11. 1 \in DOMAIN images
    BY <1>1, <1>7
  <1> QED
    BY <1>7, <1>8, <1>9, <1>10, <1>11 DEF ImagesInv, Found

\* One image has other contents.
LEMMA Changed ==
  ASSUME ImagesInv, NEW m \in DOMAIN images, NEW now \in Seq(Values),
         images' = [images EXCEPT ![m] = now], names' = names, available' = available
  PROVE  ImagesInv' /\ DOMAIN images' = DOMAIN images
PROOF
  <1>1. images' \in Seq(Seq(Values)) /\ Len(images') = Len(images)
    BY DEF ImagesInv
  <1>2. ImagesInv'
    BY <1>1, ImagesSame
  <1> QED
    BY <1>1, <1>2 DEF ImagesInv

\* A formatted image, and the boot image after a sector of it was written.
LEMMA FormattedIs ==
  ASSUME NEW n \in Formats
  PROVE  FormattedImage(n) \in Seq(Values)
PROOF
  <1>1. n \in Nat /\ Label \in Values /\ Zero \in Values
    BY DiskAssumption DEF Values
  <1>2. FormattedImage(n) \in [1 .. n -> Values]
    BY <1>1 DEF FormattedImage
  <1> QED
    BY <1>1, <1>2, IsASeq

WrittenTo(old, lba, v) ==
  [i \in 1 .. (IF lba < Len(old) THEN Len(old) ELSE lba + 1) |->
     IF i = lba + 1 THEN v ELSE IF i <= Len(old) THEN old[i] ELSE Zero]

LEMMA WrittenIs ==
  ASSUME NEW old \in Seq(Values), NEW lba \in Lbas, NEW v \in Data
  PROVE  WrittenTo(old, lba, v) \in Seq(Values)
PROOF
  <1> DEFINE n == IF lba < Len(old) THEN Len(old) ELSE lba + 1
  <1>1. n \in Nat /\ v \in Values /\ Zero \in Values
    BY DiskAssumption DEF Values
  <1>2. WrittenTo(old, lba, v) \in [1 .. n -> Values]
    BY <1>1 DEF WrittenTo
  <1> HIDE DEF n
  <1> QED
    BY <1>1, <1>2, IsASeq

----------------------------------------------------------------------------
(* The tables of the device and the mapping record.                        *)

\* What MappingsFollow and ListedIsServed say, and that only drives are listed
\* and only images served.
MountInv ==
  /\ DOMAIN runtime \subseteq Drives
  /\ {Slot(d) : d \in DOMAIN runtime} = DOMAIN mounted
  /\ \A x \in DOMAIN mounted : mounted[x] \in DOMAIN images
  /\ \A d \in DOMAIN runtime : runtime[d].uri \in names[mounted[Slot(d)]]

RecordInv ==
  /\ record = << >> => runtime = << >>
  /\ record # << >> =>
       /\ Sound(record)
       /\ \A d \in Drives :
            record[2 * d + 2] = IF d \notin DOMAIN runtime THEN 0
                                ELSE IF runtime[d].mode = "RO" THEN 3 ELSE 1

\* Different drives have different slots.
LEMMA SlotOfOne ==
  ASSUME NEW d \in Drives, NEW e \in Drives, Slot(d) = Slot(e)
  PROVE  d = e
PROOF
  <1>1. d \in Int /\ e \in Int
    BY PairsIs
  <1> QED
    BY <1>1 DEF Slot

\* A drive that gets an image.
LEMMA Mounted ==
  ASSUME ImagesInv, MountInv, NEW d \in Drives, NEW uri, NEW mode, Mount(d, uri, mode),
         images' = images, names' = names
  PROVE  MountInv'
PROOF
  <1> DEFINE what == [mode |-> mode, uri |-> uri]
  <1>1. /\ DOMAIN runtime' = DOMAIN runtime \cup {d}
        /\ runtime'[d] = what /\ \A e \in DOMAIN runtime \ {d} : runtime'[e] = runtime[e]
    <2>1. runtime' = With(runtime, {d}, what)
      BY DEF Mount
    <2> HIDE DEF what
    <2> QED
      BY <2>1 DEF With
  <1>2. /\ DOMAIN mounted' = DOMAIN mounted \cup {Slot(d)}
        /\ mounted'[Slot(d)] = available[uri]
        /\ \A x \in DOMAIN mounted \ {Slot(d)} : mounted'[x] = mounted[x]
    BY DEF Mount, With
  <1>3. available[uri] \in DOMAIN images /\ uri \in names[available[uri]]
    BY DEF Mount, ImagesInv
  <1>4. runtime'[d].uri = uri
    BY <1>1
  <1> HIDE DEF what
  <1>5. {Slot(e) : e \in DOMAIN runtime'} = DOMAIN mounted'
    BY <1>1, <1>2 DEF MountInv
  <1>6. ASSUME NEW e \in DOMAIN runtime'
        PROVE  runtime'[e].uri \in names'[mounted'[Slot(e)]]
    <2>1. CASE e = d
      BY <1>2, <1>3, <1>4, <2>1
    <2>2. CASE e # d
      <3>1. e \in DOMAIN runtime /\ e \in Drives /\ Slot(e) \in DOMAIN mounted
        BY <1>1, <2>2 DEF MountInv
      <3>2. Slot(e) # Slot(d)
        BY <2>2, <3>1, SlotOfOne
      <3>3. runtime'[e] = runtime[e] /\ mounted'[Slot(e)] = mounted[Slot(e)]
        BY <1>1, <1>2, <2>2, <3>1, <3>2
      <3> QED
        BY <3>1, <3>3 DEF MountInv
    <2> QED
      BY <2>1, <2>2
  <1>7. \A x \in DOMAIN mounted' : mounted'[x] \in DOMAIN images'
    BY <1>2, <1>3 DEF MountInv
  <1>8. DOMAIN runtime' \subseteq Drives
    BY <1>1 DEF MountInv
  <1> QED
    BY <1>5, <1>6, <1>7, <1>8 DEF MountInv

\* A drive that gives its image up.
LEMMA Unmounted ==
  ASSUME MountInv, NEW d \in Drives, Unmount(d), images' = images, names' = names
  PROVE  MountInv'
PROOF
  <1>1. /\ DOMAIN runtime' = DOMAIN runtime \ {d}
        /\ \A e \in DOMAIN runtime' : runtime'[e] = runtime[e]
    BY DEF Unmount, Restrict
  <1>2. /\ DOMAIN mounted' = DOMAIN mounted \ {Slot(d)}
        /\ \A x \in DOMAIN mounted' : mounted'[x] = mounted[x]
    BY DEF Unmount, Restrict
  <1>3. DOMAIN runtime' \subseteq Drives /\ DOMAIN runtime \subseteq Drives
    BY <1>1 DEF MountInv
  <1>4. ASSUME NEW e \in DOMAIN runtime'
        PROVE  /\ Slot(e) \in DOMAIN mounted'
               /\ runtime'[e].uri \in names'[mounted'[Slot(e)]]
    <2>1. e \in DOMAIN runtime /\ e # d /\ e \in Drives /\ Slot(e) \in DOMAIN mounted
      BY <1>1, <1>3, <1>4 DEF MountInv
    <2>2. Slot(e) # Slot(d)
      BY <2>1, SlotOfOne
    <2>3. Slot(e) \in DOMAIN mounted' /\ mounted'[Slot(e)] = mounted[Slot(e)]
      BY <1>2, <2>1, <2>2
    <2> QED
      BY <1>1, <2>1, <2>3 DEF MountInv
  <1>5. \A x \in DOMAIN mounted' : \E e \in DOMAIN runtime' : x = Slot(e)
    BY <1>1, <1>2 DEF MountInv
  <1>6. \A x \in DOMAIN mounted' : mounted'[x] \in DOMAIN images'
    BY <1>2 DEF MountInv
  <1> QED
    BY <1>3, <1>4, <1>5, <1>6 DEF MountInv

\* The pair of a drive that is mapped or unmapped is written, and no other.
LEMMA Recorded ==
  ASSUME RecordInv, NEW d \in Drives, NEW flags \in Nat, NEW index \in Entries,
         record' = Updated(d, flags, index),
         DOMAIN runtime' \subseteq DOMAIN runtime \cup {d},
         DOMAIN runtime \subseteq DOMAIN runtime' \cup {d},
         \A e \in DOMAIN runtime \cap DOMAIN runtime' : e # d => runtime'[e] = runtime[e],
         flags = IF d \notin DOMAIN runtime' THEN 0
                 ELSE IF runtime'[d].mode = "RO" THEN 3 ELSE 1
  PROVE  RecordInv'
PROOF
  <1>1. record = << >> \/ Sound(record)
    BY DEF RecordInv
  <1>2. /\ Sound(record') /\ record'[2 * d + 2] = flags
        /\ \A e \in Drives : e # d =>
             record'[2 * e + 2] = IF record = << >> THEN 0 ELSE record[2 * e + 2]
    BY <1>1, UpdatedIs
  <1>3. record' # << >>
    <2>1. Len(record') = 1 + 2 * Pairs /\ Pairs \in Nat
      BY <1>2, PairsIs DEF Sound
    <2>2. Len(<< >>) = 0
      OBVIOUS
    <2> QED
      BY <2>1, <2>2
  <1>4. ASSUME NEW e \in Drives
        PROVE  record'[2 * e + 2] = IF e \notin DOMAIN runtime' THEN 0
                                    ELSE IF runtime'[e].mode = "RO" THEN 3 ELSE 1
    <2>1. CASE e = d
      BY <1>2, <2>1
    <2>2. CASE e # d /\ record = << >>
      <3>1. e \notin DOMAIN runtime
        BY <2>2 DEF RecordInv
      <3>2. e \notin DOMAIN runtime'
        BY <2>2, <3>1
      <3> QED
        BY <1>2, <2>2, <3>2
    <2>3. CASE e # d /\ record # << >>
      <3>1. record[2 * e + 2] = IF e \notin DOMAIN runtime THEN 0
                                ELSE IF runtime[e].mode = "RO" THEN 3 ELSE 1
        BY <2>3 DEF RecordInv
      <3>2. e \in DOMAIN runtime <=> e \in DOMAIN runtime'
        BY <2>3
      <3>3. e \in DOMAIN runtime => runtime'[e] = runtime[e]
        BY <2>3, <3>2
      <3> QED
        BY <1>2, <2>3, <3>1, <3>2, <3>3
    <2> QED
      BY <2>1, <2>2, <2>3
  <1> QED
    BY <1>2, <1>3, <1>4 DEF RecordInv

----------------------------------------------------------------------------
(* Every step keeps the invariant.                                         *)

DeviceInv == HostInv /\ ImagesInv /\ MountInv /\ RecordInv

\* Commands that leave images and mounts alone.
LEMMA Untouched ==
  ASSUME ImagesInv, MountInv, RecordInv, images' = images, available' = available,
         names' = names, runtime' = runtime, mounted' = mounted, record' = record
  PROVE  ImagesInv' /\ MountInv' /\ RecordInv'
PROOF
  <1>1. ImagesInv'
    BY DEF ImagesInv
  <1>2. MountInv'
    BY DEF MountInv
  <1>3. RecordInv'
    BY DEF RecordInv
  <1> QED
    BY <1>1, <1>2, <1>3

\* A new image.
LEMMA NewKept ==
  ASSUME ImagesInv, MountInv, RecordInv, NEW t \in Targets, FNEW(t)
  PROVE  ImagesInv' /\ MountInv' /\ RecordInv'
PROOF
  <1>1. /\ ImagesInv' /\ DOMAIN images \subseteq DOMAIN images'
        /\ \A i \in DOMAIN names : names'[i] = names[i]
    BY Created DEF FNEW
  <1>2. runtime' = runtime /\ mounted' = mounted /\ record' = record
    BY DEF FNEW
  <1>3. MountInv'
    <2>1. \A x \in DOMAIN mounted' : mounted'[x] \in DOMAIN images'
      BY <1>1, <1>2 DEF MountInv
    <2>2. ASSUME NEW d \in DOMAIN runtime'
          PROVE  runtime'[d].uri \in names'[mounted'[Slot(d)]]
      <3>1. Slot(d) \in DOMAIN mounted /\ runtime[d].uri \in names[mounted[Slot(d)]]
        BY <1>2, <2>2 DEF MountInv
      <3>2. mounted[Slot(d)] \in DOMAIN names
        BY <3>1 DEF MountInv, ImagesInv
      <3> QED
        BY <1>1, <1>2, <3>1, <3>2
    <2> QED
      BY <1>2, <2>1, <2>2 DEF MountInv
  <1>4. RecordInv'
    BY <1>2 DEF RecordInv
  <1> QED
    BY <1>1, <1>3, <1>4

\* A mapping that is made.
LEMMA MountKept ==
  ASSUME ImagesInv, MountInv, RecordInv,
         NEW i \in Indices, NEW d \in Drives, NEW mode \in {"AUTO", "RO"}, FMOUNT(i, d, mode)
  PROVE  ImagesInv' /\ MountInv' /\ RecordInv'
PROOF
  <1>1. images' = images /\ available' = available /\ names' = names
    BY DEF FMOUNT
  <1>2. CASE UNCHANGED <<runtime, mounted, record>>
    BY <1>1, <1>2, Untouched
  <1>3. CASE /\ Mount(d, catalogue[i], mode)
             /\ record' = Updated(d, IF mode = "RO" THEN 3 ELSE 1, i)
    <2> DEFINE flags == IF mode = "RO" THEN 3 ELSE 1
               what == [mode |-> mode, uri |-> catalogue[i]]
    <2>1. ImagesInv'
      BY <1>1 DEF ImagesInv
    <2>2. MountInv'
      BY <1>1, <1>3, Mounted
    <2>3. /\ DOMAIN runtime' = DOMAIN runtime \cup {d} /\ runtime'[d] = what
          /\ \A e \in DOMAIN runtime : e # d => runtime'[e] = runtime[e]
      <3>1. runtime' = With(runtime, {d}, what)
        BY <1>3 DEF Mount
      <3> HIDE DEF what
      <3> QED
        BY <3>1 DEF With
    <2>4. runtime'[d].mode = mode
      BY <2>3
    <2>5. flags \in Nat /\ i \in Entries /\ record' = Updated(d, flags, i)
      BY <1>3 DEF Entries
    <2> HIDE DEF what
    <2>6. flags = IF d \notin DOMAIN runtime' THEN 0
                  ELSE IF runtime'[d].mode = "RO" THEN 3 ELSE 1
      BY <2>3, <2>4
    <2> HIDE DEF flags
    <2>7. RecordInv'
      BY <2>3, <2>5, <2>6, Recorded
    <2> QED
      BY <2>1, <2>2, <2>7
  <1> QED
    BY <1>2, <1>3 DEF FMOUNT

\* A mapping that is undone.
LEMMA UnmountKept ==
  ASSUME ImagesInv, MountInv, RecordInv, NEW d \in Drives, FUMOUNT(d)
  PROVE  ImagesInv' /\ MountInv' /\ RecordInv'
PROOF
  <1>1. /\ images' = images /\ available' = available /\ names' = names
        /\ Unmount(d) /\ record' = Updated(d, 0, 0)
    BY DEF FUMOUNT
  <1>2. ImagesInv'
    BY <1>1 DEF ImagesInv
  <1>3. MountInv'
    BY <1>1, Unmounted
  <1>4. /\ DOMAIN runtime' = DOMAIN runtime \ {d}
        /\ \A e \in DOMAIN runtime' : runtime'[e] = runtime[e]
    BY <1>1 DEF Unmount, Restrict
  <1>5. 0 \in Nat /\ 0 \in Entries
    BY DEF Entries
  <1>6. RecordInv'
    BY <1>1, <1>4, <1>5, Recorded
  <1> QED
    BY <1>2, <1>3, <1>6

\* Images that are formatted and written to.
LEMMA FormKept ==
  ASSUME ImagesInv, MountInv, RecordInv, NEW d \in Drives, NEW n \in Formats, FORM(d, n)
  PROVE  ImagesInv' /\ MountInv' /\ RecordInv'
PROOF
  <1>1. /\ Slot(d) \in DOMAIN mounted
        /\ images' = [images EXCEPT ![mounted[Slot(d)]] = FormattedImage(n)]
        /\ available' = available /\ names' = names
        /\ runtime' = runtime /\ mounted' = mounted /\ record' = record
    BY DEF FORM, Reinitialize
  <1>2. mounted[Slot(d)] \in DOMAIN images
    BY <1>1 DEF MountInv
  <1>3. ImagesInv' /\ DOMAIN images' = DOMAIN images
    BY <1>1, <1>2, FormattedIs, Changed
  <1>4. MountInv'
    BY <1>1, <1>3 DEF MountInv
  <1>5. RecordInv'
    BY <1>1 DEF RecordInv
  <1> QED
    BY <1>3, <1>4, <1>5

LEMMA WriteKept ==
  ASSUME ImagesInv, MountInv, RecordInv,
         NEW d \in Drives, NEW lba \in Lbas, NEW v \in Data, Write(d, lba, v)
  PROVE  ImagesInv' /\ MountInv' /\ RecordInv'
PROOF
  <1>1. /\ images' = [images EXCEPT ![1] = WrittenTo(images[1], lba, v)]
        /\ available' = available /\ names' = names
        /\ runtime' = runtime /\ mounted' = mounted /\ record' = record
    BY DEF Write, WriteSector, WrittenTo
  <1>2. 1 \in DOMAIN images /\ images[1] \in Seq(Values)
    BY DEF ImagesInv
  <1>3. WrittenTo(images[1], lba, v) \in Seq(Values)
    BY <1>2, WrittenIs
  <1>4. ImagesInv' /\ DOMAIN images' = DOMAIN images
    BY <1>1, <1>2, <1>3, Changed
  <1>5. MountInv'
    BY <1>1, <1>4 DEF MountInv
  <1>6. RecordInv'
    BY <1>1 DEF RecordInv
  <1> QED
    BY <1>4, <1>5, <1>6

LEMMA DeviceInvKept ==
  ASSUME DeviceInv, [Next]_vars
  PROVE  DeviceInv'
PROOF
  <1>1. ImagesInv /\ MountInv /\ RecordInv /\ HostInv
    BY DEF DeviceInv
  <1>2. ASSUME NEW t \in Targets, FNEW(t)
        PROVE  DeviceInv'
    <2>1. HostInv'
      BY <1>1, <1>2, HostKept DEF FNEW
    <2> QED
      BY <1>1, <1>2, <2>1, NewKept DEF DeviceInv
  <1>3. ASSUME NEW i \in Indices, NEW t \in Targets, FIN(i, t)
        PROVE  DeviceInv'
    <2>1. HostInv'
      BY <1>1, <1>3, HostKept DEF FIN
    <2>2. ImagesInv' /\ MountInv' /\ RecordInv'
      BY <1>1, <1>3, Untouched DEF FIN
    <2> QED
      BY <2>1, <2>2 DEF DeviceInv
  <1>4. ASSUME NEW i \in Indices, FOUT(i)
        PROVE  DeviceInv'
    <2>1. HostInv'
      BY <1>1, <1>4, HostKept DEF FOUT
    <2>2. ImagesInv' /\ MountInv' /\ RecordInv'
      BY <1>1, <1>4, Untouched DEF FOUT
    <2> QED
      BY <2>1, <2>2 DEF DeviceInv
  <1>5. ASSUME NEW i \in Indices, NEW d \in Drives, NEW mode \in {"AUTO", "RO"},
               FMOUNT(i, d, mode)
        PROVE  DeviceInv'
    <2>1. HostInv'
      BY <1>1, <1>5, HostKept DEF FMOUNT
    <2> QED
      BY <1>1, <1>5, <2>1, MountKept DEF DeviceInv
  <1>6. ASSUME NEW d \in Drives, FUMOUNT(d)
        PROVE  DeviceInv'
    <2>1. HostInv'
      BY <1>1, <1>6, HostKept DEF FUMOUNT
    <2> QED
      BY <1>1, <1>6, <2>1, UnmountKept DEF DeviceInv
  <1>7. ASSUME NEW d \in Drives, NEW n \in Formats, FORM(d, n)
        PROVE  DeviceInv'
    <2>1. HostInv'
      BY <1>1, <1>7, HostKept DEF FORM
    <2> QED
      BY <1>1, <1>7, <2>1, FormKept DEF DeviceInv
  <1>8. ASSUME NEW d \in Drives, NEW lba \in Lbas, NEW v \in Data, Write(d, lba, v)
        PROVE  DeviceInv'
    <2>1. HostInv'
      BY <1>1, <1>8, HostKept DEF Write
    <2> QED
      BY <1>1, <1>8, <2>1, WriteKept DEF DeviceInv
  <1>9. CASE HostNext /\ UNCHANGED disks
    <2>1. HostInv'
      BY <1>1, <1>9, HostKept
    <2>2. ImagesInv' /\ MountInv' /\ RecordInv'
      BY <1>1, <1>9, Untouched DEF disks
    <2> QED
      BY <2>1, <2>2 DEF DeviceInv
  <1>10. CASE UNCHANGED vars
    <2>1. HostInv'
      BY <1>1, <1>10, HostKept DEF vars
    <2>2. ImagesInv' /\ MountInv' /\ RecordInv'
      BY <1>1, <1>10, Untouched DEF vars, disks
    <2> QED
      BY <2>1, <2>2 DEF DeviceInv
  <1> QED
    BY <1>2, <1>3, <1>4, <1>5, <1>6, <1>7, <1>8, <1>9, <1>10 DEF Next, Command

LEMMA DeviceInvFirst ==
  ASSUME Init
  PROVE  DeviceInv
PROOF
  <1>1. HostInv /\ ImagesInv
    BY HostFirst, ImagesFirst
  <1>2. runtime = << >> /\ mounted = << >> /\ record = << >>
    BY DEF Init
  <1>3. DOMAIN runtime = {} /\ DOMAIN mounted = {}
    BY <1>2
  <1>4. MountInv
    BY <1>3 DEF MountInv
  <1>5. RecordInv
    BY <1>2 DEF RecordInv
  <1> QED
    BY <1>1, <1>4, <1>5 DEF DeviceInv

\* The inductive invariant holds of every behaviour.
THEOREM DeviceInvHolds == Spec => []DeviceInv
PROOF
  <1>1. Init => DeviceInv
    BY DeviceInvFirst
  <1>2. DeviceInv /\ [Next]_vars => DeviceInv'
    BY DeviceInvKept
  <1> QED
    BY <1>1, <1>2, PTL DEF Spec

\* The host that *FHOST numbers is the one that the number selects, and the
\* host used longest ago is the first to fall off: the history of promote and
\* its deletions is in the order of last use, with no host in it twice.
THEOREM HistoryOfLastUses == Spec => []HistoryIsRecent
PROOF
  <1>1. DeviceInv => HistoryIsRecent
    BY RecentIs DEF DeviceInv, HostInv
  <1> QED
    BY <1>1, DeviceInvHolds, PTL

\* Whatever *FMOUNT and *FUMOUNT write two bytes at a time, the mapping record
\* says of every drive what the device lists and serves.
THEOREM RecordFollowsTheDevice == Spec => []MappingsFollow
PROOF
  <1>1. DeviceInv => MappingsFollow
    BY DEF DeviceInv, MountInv, RecordInv, Sound, MappingsFollow
  <1> QED
    BY <1>1, DeviceInvHolds, PTL

\* The name listed for a drive is always one its image was made under, for
\* any order of CREATE, MOUNT, UNMOUNT and REINITIALIZE.
THEOREM ListedNameIsServed == Spec => []ListedIsServed
PROOF
  <1>1. DeviceInv => ListedIsServed
    BY DEF DeviceInv, MountInv, ListedIsServed
  <1> QED
    BY <1>1, DeviceInvHolds, PTL

\* A name without a drive finds the last image made in the place it resolves
\* to, under either spelling.
THEOREM LastMadeIsFound == Spec => []FoundByName
PROOF
  <1>1. DeviceInv => FoundByName
    BY FoundIs DEF DeviceInv, ImagesInv
  <1> QED
    BY <1>1, DeviceInvHolds, PTL

----------------------------------------------------------------------------
(* The device implements DiskPort.                                         *)

Held == [d \in Drives |-> IF Slot(d) \in DOMAIN mounted THEN mounted[Slot(d)] ELSE None]

LEMMA BootIsNext == [BootNext]_vars => [Next]_vars
BY DEF BootNext, Next

\* What is in the drives when one of them gets an image and when it gives it up.
LEMMA HeldAfter ==
  ASSUME NEW d \in Drives, NEW m, mounted' = With(mounted, {Slot(d)}, m)
  PROVE  Held' = [Held EXCEPT ![d] = m]
PROOF
  <1>1. /\ DOMAIN mounted' = DOMAIN mounted \cup {Slot(d)} /\ mounted'[Slot(d)] = m
        /\ \A x \in DOMAIN mounted \ {Slot(d)} : mounted'[x] = mounted[x]
    BY DEF With
  <1>2. ASSUME NEW e \in Drives
        PROVE  (IF Slot(e) \in DOMAIN mounted' THEN mounted'[Slot(e)] ELSE None)
                 = IF e = d THEN m ELSE Held[e]
    <2>1. CASE e = d
      BY <1>1, <2>1
    <2>2. CASE e # d
      <3>1. Slot(e) # Slot(d)
        BY <2>2, SlotOfOne
      <3> QED
        BY <1>1, <2>2, <3>1 DEF Held
    <2> QED
      BY <2>1, <2>2
  <1> QED
    BY <1>2 DEF Held

LEMMA HeldLess ==
  ASSUME NEW d \in Drives, Unmount(d)
  PROVE  Held' = [Held EXCEPT ![d] = None]
PROOF
  <1>1. /\ DOMAIN mounted' = DOMAIN mounted \ {Slot(d)}
        /\ \A x \in DOMAIN mounted' : mounted'[x] = mounted[x]
    BY DEF Unmount, Restrict
  <1>2. ASSUME NEW e \in Drives
        PROVE  (IF Slot(e) \in DOMAIN mounted' THEN mounted'[Slot(e)] ELSE None)
                 = IF e = d THEN None ELSE Held[e]
    <2>1. CASE e = d
      BY <1>1, <2>1
    <2>2. CASE e # d
      <3>1. Slot(e) # Slot(d)
        BY <2>2, SlotOfOne
      <3> QED
        BY <1>1, <2>2, <3>1 DEF Held
    <2> QED
      BY <2>1, <2>2
  <1> QED
    BY <1>2 DEF Held

\* Each step is one of the port or changes neither drives nor media.
LEMMA PortStep ==
  ASSUME DeviceInv, [BootNext]_vars
  PROVE  [Port!Next]_(Port!vars)
PROOF
  <1>0. /\ ImagesInv /\ MountInv
        /\ \A x \in DOMAIN mounted : mounted[x] \in DOMAIN images /\ mounted[x] \in Nat
        /\ None \notin Nat
    BY DiskAssumption DEF DeviceInv, ImagesInv, MountInv
  <1>1. ASSUME images' = images, mounted' = mounted
        PROVE  [Port!Next]_(Port!vars)
    BY <1>1 DEF Port!vars
  <1>2. ASSUME NEW t \in Targets, FNEW(t)
        PROVE  Port!Next
    <2>1. images' = Append(images, Port!Medium(CreateSize)) /\ mounted' = mounted
      BY <1>2 DEF FNEW, Create, Port!Medium
    <2>2. Held' = Held
      BY <2>1 DEF Held
    <2>3. CreateSize \in Formats \cup {CreateSize}
      OBVIOUS
    <2>4. Port!Make
      BY <2>1, <2>2, <2>3 DEF Port!Make, Held
    <2> QED
      BY <2>4 DEF Port!Next
  <1>3. ASSUME NEW i \in Indices, NEW d \in Drives, NEW mode \in {"AUTO", "RO"},
               FMOUNT(i, d, mode)
        PROVE  [Port!Next]_(Port!vars)
    <2>1. images' = images
      BY <1>3 DEF FMOUNT
    <2>2. CASE mounted' = mounted
      BY <1>1, <2>1, <2>2
    <2>3. CASE Mount(d, catalogue[i], mode)
      <3> DEFINE m == available[catalogue[i]]
      <3>1. m \in DOMAIN images /\ mounted' = With(mounted, {Slot(d)}, m)
        BY <1>0, <2>3 DEF Mount, ImagesInv
      <3> HIDE DEF m
      <3>2. Held' = [Held EXCEPT ![d] = m]
        BY <3>1, HeldAfter
      <3>3. Port!Insert(d)
        BY <2>1, <3>1, <3>2 DEF Port!Insert, Held
      <3> QED
        BY <3>3 DEF Port!Next
    <2> QED
      BY <1>3, <2>2, <2>3 DEF FMOUNT
  <1>4. ASSUME NEW d \in Drives, FUMOUNT(d)
        PROVE  Port!Next
    <2>1. images' = images /\ Unmount(d)
      BY <1>4 DEF FUMOUNT
    <2>2. Held' = [Held EXCEPT ![d] = None]
      BY <2>1, HeldLess
    <2>3. Port!Remove(d)
      BY <2>1, <2>2 DEF Port!Remove, Held
    <2> QED
      BY <2>3 DEF Port!Next
  <1>5. ASSUME NEW d \in Drives, NEW n \in Formats, FORM(d, n)
        PROVE  Port!Next
    <2>1. /\ Slot(d) \in DOMAIN mounted /\ mounted' = mounted
          /\ images' = [images EXCEPT ![mounted[Slot(d)]] = FormattedImage(n)]
      BY <1>5 DEF FORM, Reinitialize
    <2>2. Held' = Held /\ Held[d] = mounted[Slot(d)] /\ Held[d] # None
      BY <1>0, <2>1 DEF Held
    <2>3. n \in Formats \cup {CreateSize}
      OBVIOUS
    <2>4. Port!Format(d)
      BY <2>1, <2>2, <2>3 DEF Port!Format, Held
    <2> QED
      BY <2>4 DEF Port!Next
  <1>6. ASSUME NEW d \in Drives, NEW lba \in Lbas, NEW v \in Data, HoldsBoot(d), Write(d, lba, v)
        PROVE  Port!Next
    <2>1. /\ mounted' = mounted
          /\ images' = [images EXCEPT ![1] = WrittenTo(images[1], lba, v)]
      BY <1>6 DEF Write, WriteSector, WrittenTo
    <2>2. Held' = Held /\ Held[d] = 1 /\ Held[d] # None
      BY <1>0, <1>6, <2>1 DEF Held, HoldsBoot
    <2>3. v \in Values
      BY DEF Values
    <2>4. images' = [images EXCEPT ![Held[d]] = WrittenTo(images[Held[d]], lba, v)]
      BY <2>1, <2>2
    <2>5. Port!Write(d)
      BY <2>2, <2>3, <2>4 DEF Port!Write, Held, WrittenTo, Values
    <2> QED
      BY <2>5 DEF Port!Next
  <1>7. ASSUME NEW i \in Indices, FOUT(i) \/ \E t \in Targets : FIN(i, t)
        PROVE  [Port!Next]_(Port!vars)
    BY <1>1, <1>7 DEF FOUT, FIN
  <1>8. ASSUME UNCHANGED disks
        PROVE  [Port!Next]_(Port!vars)
    BY <1>1, <1>8 DEF disks
  <1>9. CASE UNCHANGED vars
    BY <1>8, <1>9 DEF vars
  <1>10. CASE Command
    <2>1. CASE \E t \in Targets : FNEW(t) \/ \E i \in Indices : FIN(i, t)
      BY <1>2, <1>7, <2>1
    <2>2. CASE \E i \in Indices : FOUT(i)
      BY <1>7, <2>2
    <2>3. CASE \E i \in Indices, d \in Drives, mode \in {"AUTO", "RO"} : FMOUNT(i, d, mode)
      BY <1>3, <2>3
    <2>4. CASE \E d \in Drives : FUMOUNT(d) \/ \E n \in Formats : FORM(d, n)
      BY <1>4, <1>5, <2>4
    <2>5. CASE HostNext /\ UNCHANGED disks
      BY <1>8, <2>5
    <2> QED
      BY <1>10, <2>1, <2>2, <2>3, <2>4, <2>5 DEF Command
  <1> QED
    BY <1>6, <1>9, <1>10 DEF BootNext

LEMMA PortFirst ==
  ASSUME Init
  PROVE  Port!Init
PROOF
  <1>1. images \in Seq(Seq(Values))
    BY ImagesFirst DEF ImagesInv
  <1>2. mounted = << >>
    BY DEF Init
  <1>3. DOMAIN mounted = {}
    BY <1>2
  <1>4. Held = [d \in Drives |-> None]
    BY <1>3 DEF Held
  <1> QED
    BY <1>1, <1>4 DEF Port!Init, Held, Values

\* Names, hosts, the slot catalogue and the mapping record do not show through:
\* while only the boot disk is written to, what the ROM can do to its disks by
\* any sequence of commands is what can be done to drives with media in them.
THEOREM DeviceIsAPort == BootSpec => Implements
PROOF
  <1>1. Init => Port!Init
    BY PortFirst
  <1>2. DeviceInv /\ [BootNext]_vars => [Port!Next]_(Port!vars)
    BY PortStep
  <1>3. Init => DeviceInv
    BY DeviceInvFirst
  <1>4. DeviceInv /\ [BootNext]_vars => DeviceInv'
    BY BootIsNext, DeviceInvKept
  <1> QED
    BY <1>1, <1>2, <1>3, <1>4, PTL DEF BootSpec, Implements, Port!Spec
=============================================================================
