--------------------------- MODULE HistoriesProofs ---------------------------
(***************************************************************************)
(* Theorems about Histories, for every value of its constants: the chain   *)
(* halts only for protocol selection, the histories tile, what an epoch is *)
(* paid under never changes, and the lookup by number never denies a       *)
(* version.                                                                *)
(***************************************************************************)
EXTENDS Histories, ArithmeticTheorems

-----------------------------------------------------------------------------
(* Seeking in a history.                                                   *)

\* A history whose keys are the first epoch and others up to top.
Keyed(h, top) ==
  /\ top \in Nat
  /\ DOMAIN h \in SUBSET Nat
  /\ 1 \in DOMAIN h
  /\ \A k \in DOMAIN h : 1 <= k /\ k <= top

\* k is the greatest key at or below e.
IsSeek(h, e, k) ==
  /\ k \in DOMAIN h
  /\ k <= e
  /\ \A j \in DOMAIN h : j <= e => j <= k

\* The greatest element of a bounded set of naturals is the one Max chooses.
LEMMA MaxIs ==
  ASSUME NEW S \in SUBSET Nat, NEW k \in S, \A j \in S : j <= k
  PROVE  Max(S) = k
<1>1. \A x \in S : (\A y \in S : x >= y) => x = k
  OBVIOUS
<1>2. \A y \in S : k >= y
  OBVIOUS
<1> QED
  BY <1>1, <1>2 DEF Max

\* seekVersionKeyAtOrBefore finds the greatest key at or below an epoch.
LEMMA SeekIs ==
  ASSUME NEW h, NEW top, Keyed(h, top), NEW e, NEW k, IsSeek(h, e, k)
  PROVE  KeyAtOrBefore(h, e) = k
<1> DEFINE S == {j \in DOMAIN h : j <= e}
<1>1. S \in SUBSET Nat /\ k \in S /\ \A j \in S : j <= k
  BY DEF Keyed, IsSeek
<1> HIDE DEF S
<1>2. Max(S) = k
  BY <1>1, MaxIs
<1> QED
  BY <1>2 DEF KeyAtOrBefore, S

\* The seek always finds a row, because there is one at epoch 1.
LEMMA SeekFinds ==
  ASSUME NEW h, NEW top, Keyed(h, top), NEW e \in Nat, 1 <= e
  PROVE  /\ IsSeek(h, e, KeyAtOrBefore(h, e))
         /\ KeyAtOrBefore(h, e) \in DOMAIN h
         /\ KeyAtOrBefore(h, e) \in Nat
         /\ 1 <= KeyAtOrBefore(h, e) /\ KeyAtOrBefore(h, e) <= e /\ KeyAtOrBefore(h, e) <= top
<1> DEFINE S == {j \in DOMAIN h : j <= e}
<1>1. S \in SUBSET Nat /\ 1 \in S /\ \A j \in S : j <= e
  BY DEF Keyed
<1>2. PICK k \in S : \A j \in S : j <= k
  <2> HIDE DEF S
  <2> QED
    BY <1>1, GreatestNatural
<1>3. IsSeek(h, e, k)
  BY <1>2 DEF IsSeek
<1>4. KeyAtOrBefore(h, e) = k
  BY <1>3, SeekIs
<1> QED
  BY <1>3, <1>4 DEF IsSeek, Keyed

\* The latest key is the one found at the top, or above.
LEMMA LatestIsSeek ==
  ASSUME NEW h, NEW top, Keyed(h, top), NEW e \in Nat, top <= e
  PROVE  /\ LatestKey(h) = KeyAtOrBefore(h, e)
         /\ IsSeek(h, e, LatestKey(h))
         /\ LatestKey(h) \in DOMAIN h /\ LatestKey(h) \in Nat /\ LatestKey(h) <= top
         /\ 1 <= LatestKey(h)
         /\ \A j \in DOMAIN h : j <= LatestKey(h)
<1>0. 1 <= e /\ top \in Nat
  BY DEF Keyed
<1>1. {j \in DOMAIN h : j <= e} = DOMAIN h
  <2>1. ASSUME NEW j \in DOMAIN h PROVE j <= e
    <3>1. j \in Nat /\ j <= top
      BY DEF Keyed
    <3> QED
      BY <1>0, <3>1
  <2> QED
    BY <2>1
<1>2. LatestKey(h) = KeyAtOrBefore(h, e)
  BY <1>1 DEF LatestKey, KeyAtOrBefore
<1>3. IsSeek(h, e, LatestKey(h)) /\ LatestKey(h) \in Nat /\ LatestKey(h) <= top
      /\ 1 <= LatestKey(h)
  BY <1>0, <1>2, SeekFinds
<1>4. \A j \in DOMAIN h : j <= e
  BY <1>1
<1> QED
  BY <1>2, <1>3, <1>4 DEF IsSeek

\* The key before k, the one the adjacent edges are checked with.
LEMMA KeyBefore ==
  ASSUME NEW h, NEW top, Keyed(h, top), NEW k \in DOMAIN h, k # 1
  PROVE  /\ k - 1 \in Nat /\ 1 <= k - 1
         /\ {j \in DOMAIN h : j < k} = {j \in DOMAIN h : j <= k - 1}
         /\ {j \in DOMAIN h : j < k} # {}
         /\ Max({j \in DOMAIN h : j < k}) = KeyAtOrBefore(h, k - 1)
<1>1. k \in Nat /\ 1 <= k /\ 1 \in DOMAIN h /\ \A j \in DOMAIN h : j \in Nat
  BY DEF Keyed
<1>2. k - 1 \in Nat /\ 1 <= k - 1
  BY <1>1
<1>3. {j \in DOMAIN h : j < k} = {j \in DOMAIN h : j <= k - 1}
  BY <1>1
<1>4. 1 \in {j \in DOMAIN h : j < k}
  BY <1>1
<1> QED
  BY <1>2, <1>3, <1>4 DEF KeyAtOrBefore

\* A row appended above all others is found from its epoch on, and changes no
\* earlier answer.
LEMMA AppendSeek ==
  ASSUME NEW h, NEW g, NEW n \in Nat, NEW top, Keyed(h, top), top < n,
         DOMAIN g = DOMAIN h \cup {n}
  PROVE  /\ Keyed(g, n)
         /\ \A e \in Nat : 1 <= e =>
              KeyAtOrBefore(g, e) = IF e < n THEN KeyAtOrBefore(h, e) ELSE n
<1>1. DOMAIN g = DOMAIN h \cup {n}
  OBVIOUS
<1>2. /\ top \in Nat /\ 1 \in DOMAIN h
      /\ \A k \in DOMAIN h : k \in Nat /\ 1 <= k /\ k <= top
  BY DEF Keyed
<1>3. Keyed(g, n)
  BY <1>1, <1>2 DEF Keyed
<1>4. ASSUME NEW e \in Nat, 1 <= e, e < n PROVE KeyAtOrBefore(g, e) = KeyAtOrBefore(h, e)
  <2> DEFINE k == KeyAtOrBefore(h, e)
  <2>1. IsSeek(h, e, k)
    BY <1>4, SeekFinds
  <2> HIDE DEF k
  <2>2. IsSeek(g, e, k)
    BY <1>1, <1>4, <2>1 DEF IsSeek
  <2>3. KeyAtOrBefore(g, e) = k
    BY <1>3, <2>2, SeekIs
  <2> QED
    BY <2>3 DEF k
<1>5. ASSUME NEW e \in Nat, n <= e PROVE KeyAtOrBefore(g, e) = n
  <2>1. IsSeek(g, e, n)
    BY <1>1, <1>2, <1>5 DEF IsSeek
  <2> QED
    BY <1>3, <2>1, SeekIs
<1>6. \A e \in Nat : 1 <= e =>
        KeyAtOrBefore(g, e) = IF e < n THEN KeyAtOrBefore(h, e) ELSE n
  BY <1>4, <1>5
<1> QED
  BY <1>3, <1>6

-----------------------------------------------------------------------------
(* The geometry of the epochs.                                             *)

StartIn(g, e) == g[KeyAtOrBefore(g, e)].start
                   + (e - KeyAtOrBefore(g, e)) * g[KeyAtOrBefore(g, e)].length
LengthIn(g, e) == g[KeyAtOrBefore(g, e)].length

\* Every row begins where the row before it puts that epoch.
Geo(g, top) ==
  /\ Keyed(g, top)
  /\ \A k \in DOMAIN g : g[k].version \in Nat /\ g[k].start \in Nat /\ g[k].length \in Lengths
  /\ g[1].start = 1
  /\ \A k \in DOMAIN g : k # 1 =>
       /\ g[KeyAtOrBefore(g, k - 1)].version < g[k].version
       /\ g[KeyAtOrBefore(g, k - 1)].start
            + (k - KeyAtOrBefore(g, k - 1)) * g[KeyAtOrBefore(g, k - 1)].length = g[k].start

\* The model's epoch boundaries, in terms of the history alone.
LEMMA EpochsIn ==
  ASSUME NEW e
  PROVE  /\ EpochStartHeight(e) = StartIn(geometry, e)
         /\ EpochLengthForEpoch(e) = LengthIn(geometry, e)
         /\ EpochEndHeight(e) = StartIn(geometry, e + 1) - 1
  BY DEF EpochStartHeight, EpochStartFrom, EpochLengthForEpoch, EpochEndHeight, StartIn, LengthIn

\* The epoch after e starts when e has run its length.
LEMMA GeoStart ==
  ASSUME NEW g, NEW top, Geo(g, top), NEW e \in Nat, 1 <= e
  PROVE  /\ LengthIn(g, e) \in Nat /\ LengthIn(g, e) >= 1
         /\ StartIn(g, e) \in Nat
         /\ StartIn(g, e + 1) = StartIn(g, e) + LengthIn(g, e)
         /\ StartIn(g, 1) = 1
<1> DEFINE k == KeyAtOrBefore(g, e)
           s == g[k].start
           l == g[k].length
<1>0. Keyed(g, top)
  BY DEF Geo
<1>1. IsSeek(g, e, k) /\ k \in DOMAIN g /\ k \in Nat /\ 1 <= k /\ k <= e
  BY <1>0, SeekFinds
<1>2. s \in Nat /\ l \in Lengths
  BY <1>1 DEF Geo
<1>3. l \in Nat /\ l >= 1
  BY <1>2, HistoriesAssumption
<1>4. LengthIn(g, e) = l /\ StartIn(g, e) = s + (e - k) * l
  BY DEF LengthIn, StartIn
<1>5. (e - k) * l \in Nat
  <2>1. e - k \in Nat
    BY <1>1
  <2>2. \A a, b \in Nat : a * b \in Nat
    OBVIOUS
  <2> HIDE DEF k, l
  <2> QED
    BY <1>3, <2>1, <2>2
<1>6. StartIn(g, e + 1) = s + (e - k) * l + l
  <2> DEFINE p == (e - k) * l
             q == ((e + 1) - k) * l
  <2>0. q = p + l
    <3>1. e - k \in Int /\ (e + 1) - k = (e - k) + 1
      BY <1>1
    <3>2. \A a, b \in Int : (a + 1) * b = a * b + b
      OBVIOUS
    <3> HIDE DEF k, l
    <3>3. ((e - k) + 1) * l = (e - k) * l + l
      BY <1>3, <3>1, <3>2
    <3> QED
      BY <3>1, <3>3
  <2>1. CASE e + 1 \in DOMAIN g
    <3> DEFINE n == e + 1
    <3>1. n # 1 /\ n - 1 = e /\ n \in Nat
      OBVIOUS
    <3>2. s + q = g[n].start
      BY <2>1, <3>1 DEF Geo
    <3>3. IsSeek(g, n, n)
      BY <2>1 DEF IsSeek
    <3>4. KeyAtOrBefore(g, n) = n
      BY <1>0, <3>3, SeekIs
    <3>5. g[n].start \in Nat /\ g[n].length \in Nat
      BY <2>1, HistoriesAssumption DEF Geo
    <3> DEFINE z == (n - n) * g[n].length
    <3>6. StartIn(g, n) = g[n].start + z
      BY <3>4 DEF StartIn
    <3>7. z = 0
      BY <3>5
    <3> HIDE DEF s, l, k, q, p, z
    <3>8. StartIn(g, n) = g[n].start
      BY <3>5, <3>6, <3>7
    <3>9. p \in Nat
      BY <1>5 DEF p
    <3>10. StartIn(g, n) = s + p + l
      BY <1>2, <1>3, <2>0, <3>2, <3>8, <3>9
    <3> QED
      BY <3>10 DEF p
  <2>2. CASE e + 1 \notin DOMAIN g
    <3>0. \A j \in DOMAIN g : j \in Nat
      BY <1>0 DEF Keyed
    <3>1. IsSeek(g, e + 1, k)
      <4> HIDE DEF k
      <4>1. \A j \in DOMAIN g : j <= e + 1 => j <= e
        BY <2>2, <3>0
      <4> QED
        BY <1>1, <4>1 DEF IsSeek
    <3>2. KeyAtOrBefore(g, e + 1) = k
      BY <1>0, <3>1, SeekIs
    <3> HIDE DEF k
    <3>3. StartIn(g, e + 1) = s + q
      BY <3>2 DEF StartIn
    <3> HIDE DEF s, l, q, p
    <3>4. p \in Nat
      BY <1>5 DEF p
    <3>5. StartIn(g, e + 1) = s + p + l
      BY <1>2, <1>3, <2>0, <3>3, <3>4
    <3> QED
      BY <3>5 DEF p
  <2> QED
    BY <2>1, <2>2
<1>7. StartIn(g, 1) = 1
  <2>1. IsSeek(g, 1, 1)
    BY <1>0 DEF IsSeek, Keyed
  <2>2. KeyAtOrBefore(g, 1) = 1
    BY <1>0, <2>1, SeekIs
  <2>3. g[1].start = 1 /\ g[1].length \in Nat
    BY <1>0, HistoriesAssumption DEF Geo, Keyed
  <2>4. (1 - 1) * g[1].length = 0
    BY <2>3
  <2> QED
    BY <2>2, <2>3, <2>4 DEF StartIn
<1> HIDE DEF s, l, k
<1>8. StartIn(g, e) \in Nat
  BY <1>2, <1>4, <1>5
<1> QED
  BY <1>2, <1>3, <1>4, <1>5, <1>6, <1>7, <1>8

\* The record checks of validateEpochConfigRecord and validateAdjacentHistoryEdge
\* pass for every row.
LEMMA GeoRows ==
  ASSUME NEW top, Geo(geometry, top), NEW k \in DOMAIN geometry
  PROVE  GeometryRowOK(k)
<1> DEFINE before == {j \in DOMAIN geometry : j < k}
<1>0. Keyed(geometry, top)
  BY DEF Geo
<1>1. geometry[k].length \in Lengths
  BY DEF Geo
<1>2. CASE k = 1
  <2>1. before = {}
    BY <1>0, <1>2 DEF Keyed
  <2> QED
    BY <1>1, <2>1 DEF GeometryRowOK
<1>3. CASE k # 1
  <2>1. Max(before) = KeyAtOrBefore(geometry, k - 1)
    BY <1>0, <1>3, KeyBefore
  <2>2. /\ geometry[Max(before)].version < geometry[k].version
        /\ EpochStartFrom(Max(before), k) = geometry[k].start
    BY <1>3, <2>1 DEF Geo, EpochStartFrom
  <2> QED
    BY <1>1, <2>2 DEF GeometryRowOK
<1> QED
  BY <1>2, <1>3

\* Appending the row of the epoch that opens keeps every published span.
LEMMA GeoAppend ==
  ASSUME NEW g, NEW top \in Nat, Geo(g, top), NEW r,
         r.version = g[LatestKey(g)].version + 1,
         r.start = StartIn(g, top + 1), r.length \in Lengths
  PROVE  /\ Geo(With(g, top + 1, r), top + 1)
         /\ \A e \in Nat : 1 <= e /\ e <= top =>
              /\ StartIn(With(g, top + 1, r), e) = StartIn(g, e)
              /\ LengthIn(With(g, top + 1, r), e) = LengthIn(g, e)
         /\ StartIn(With(g, top + 1, r), top + 1) = StartIn(g, top + 1)
         /\ LengthIn(With(g, top + 1, r), top + 1) = r.length
<1> DEFINE n == top + 1
           G == With(g, n, r)
           K(e) == KeyAtOrBefore(g, e)
<1>0. Keyed(g, top) /\ n \in Nat /\ top < n /\ 1 <= n /\ n \notin DOMAIN g
  BY DEF Geo, Keyed
<1>1. DOMAIN G = DOMAIN g \cup {n} /\ G[n] = r /\ \A x \in DOMAIN g : G[x] = g[x]
  BY <1>0 DEF With
<1>2. /\ Keyed(G, n)
      /\ \A e \in Nat : 1 <= e => KeyAtOrBefore(G, e) = IF e < n THEN K(e) ELSE n
  <2> HIDE DEF G, n
  <2> QED
    BY <1>0, <1>1, AppendSeek
<1> HIDE DEF G
<1>3. ASSUME NEW e \in Nat, 1 <= e, e <= top
      PROVE  /\ KeyAtOrBefore(G, e) = K(e) /\ K(e) \in DOMAIN g /\ G[K(e)] = g[K(e)]
             /\ StartIn(G, e) = StartIn(g, e) /\ LengthIn(G, e) = LengthIn(g, e)
  <2>1. KeyAtOrBefore(G, e) = K(e)
    BY <1>2, <1>3
  <2>2. K(e) \in DOMAIN g
    BY <1>0, <1>3, SeekFinds
  <2>3. G[K(e)] = g[K(e)]
    BY <1>1, <2>2
  <2> QED
    BY <2>1, <2>2, <2>3 DEF StartIn, LengthIn
<1>4. StartIn(g, n) \in Nat
  BY <1>0, GeoStart
<1>5. r.length \in Nat
  BY HistoriesAssumption
<1>6. KeyAtOrBefore(G, n) = n
  BY <1>0, <1>2
<1>7. StartIn(G, n) = StartIn(g, n) /\ LengthIn(G, n) = r.length
  <2>1. StartIn(G, n) = r.start + (n - n) * r.length /\ LengthIn(G, n) = r.length
    BY <1>1, <1>6 DEF StartIn, LengthIn
  <2>2. (n - n) * r.length = 0
    BY <1>0, <1>5
  <2> QED
    BY <1>4, <2>1, <2>2
<1>8. LatestKey(g) = K(top) /\ LatestKey(g) = K(n) /\ LatestKey(g) \in DOMAIN g
  BY <1>0, LatestIsSeek
<1>9. g[LatestKey(g)].version \in Nat
  BY <1>8 DEF Geo
<1>10. 1 \in DOMAIN g /\ 1 <= top
  BY <1>0 DEF Keyed
<1>11. ASSUME NEW k \in DOMAIN G
       PROVE  G[k].version \in Nat /\ G[k].start \in Nat /\ G[k].length \in Lengths
  <2>1. CASE k \in DOMAIN g
    BY <1>1, <2>1 DEF Geo
  <2>2. CASE k = n
    BY <1>1, <1>4, <1>9, <2>2
  <2> QED
    BY <1>1, <2>1, <2>2
<1>12. ASSUME NEW k \in DOMAIN G, k # 1
       PROVE  /\ G[KeyAtOrBefore(G, k - 1)].version < G[k].version
              /\ G[KeyAtOrBefore(G, k - 1)].start
                  + (k - KeyAtOrBefore(G, k - 1)) * G[KeyAtOrBefore(G, k - 1)].length = G[k].start
  <2>1. CASE k \in DOMAIN g
    <3>1. k - 1 \in Nat /\ 1 <= k - 1 /\ k - 1 <= top
      BY <1>0, <1>12, <2>1 DEF Keyed
    <3>2. KeyAtOrBefore(G, k - 1) = K(k - 1) /\ G[K(k - 1)] = g[K(k - 1)] /\ G[k] = g[k]
      BY <1>1, <1>3, <2>1, <3>1
    <3>3. /\ g[K(k - 1)].version < g[k].version
          /\ g[K(k - 1)].start + (k - K(k - 1)) * g[K(k - 1)].length = g[k].start
      BY <1>12, <2>1 DEF Geo
    <3> HIDE DEF K
    <3> QED
      BY <3>2, <3>3
  <2>2. CASE k = n
    <3>1. k - 1 = top /\ G[k] = r
      BY <1>1, <2>2
    <3>2. KeyAtOrBefore(G, top) = K(top) /\ G[K(top)] = g[K(top)]
      BY <1>3, <1>10
    <3>3. StartIn(g, n) = g[K(top)].start + (n - K(top)) * g[K(top)].length
      BY <1>8 DEF StartIn
    <3>4. g[K(top)].version < r.version
      BY <1>8, <1>9
    <3> HIDE DEF K
    <3> QED
      BY <2>2, <3>1, <3>2, <3>3, <3>4
  <2> QED
    BY <1>1, <2>1, <2>2
<1>13. Geo(G, n)
  <2>1. G[1].start = 1
    BY <1>1, <1>10 DEF Geo
  <2> QED
    BY <1>2, <1>11, <1>12, <2>1 DEF Geo
<1> QED
  BY <1>3, <1>7, <1>13 DEF G

\* Nothing changes when the epoch that opens has the length of the one before it.
LEMMA GeoGrow ==
  ASSUME NEW g, NEW top \in Nat, Geo(g, top)
  PROVE  /\ Geo(g, top + 1)
         /\ LengthIn(g, top + 1) = LengthIn(g, top)
<1>0. Keyed(g, top)
  BY DEF Geo
<1>1. Keyed(g, top + 1)
  BY DEF Geo, Keyed
<1>2. LatestKey(g) = KeyAtOrBefore(g, top) /\ LatestKey(g) = KeyAtOrBefore(g, top + 1)
  BY <1>0, LatestIsSeek
<1> QED
  BY <1>1, <1>2 DEF Geo, LengthIn

-----------------------------------------------------------------------------
(* Version histories.                                                      *)

\* Version numbers begin with 1, increase with the epochs and leave none out.
Numbered(h, top) ==
  /\ Keyed(h, top)
  /\ \A k \in DOMAIN h : h[k].version \in Nat
  /\ h[1].version = 1
  /\ \A j, k \in DOMAIN h : j < k => h[j].version < h[k].version
  /\ \A v \in Nat : 1 <= v /\ v <= h[LatestKey(h)].version =>
       \E k \in DOMAIN h : h[k].version = v

\* g is h with a row appended at n that has the next version number; the rows of
\* h keep their numbers.
Grows(h, g, n) ==
  /\ DOMAIN g = DOMAIN h \cup {n}
  /\ \A k \in DOMAIN h : g[k].version = h[k].version
  /\ g[n].version = h[LatestKey(h)].version + 1

\* The latest row has the greatest version.
LEMMA NumberedTop ==
  ASSUME NEW h, NEW top, Numbered(h, top)
  PROVE  /\ LatestKey(h) \in DOMAIN h /\ LatestKey(h) \in Nat /\ LatestKey(h) <= top
         /\ h[LatestKey(h)].version \in Nat
         /\ \A k \in DOMAIN h : 1 <= h[k].version /\ h[k].version <= h[LatestKey(h)].version
<1>0. Keyed(h, top) /\ top \in Nat
  BY DEF Numbered, Keyed
<1>1. /\ LatestKey(h) \in DOMAIN h /\ LatestKey(h) \in Nat /\ LatestKey(h) <= top
      /\ \A j \in DOMAIN h : j <= LatestKey(h)
  BY <1>0, LatestIsSeek
<1>2. \A k \in DOMAIN h : h[k].version \in Nat /\ k \in Nat
  BY <1>0 DEF Numbered, Keyed
<1>3. ASSUME NEW k \in DOMAIN h PROVE h[k].version <= h[LatestKey(h)].version
  <2>1. CASE k = LatestKey(h)
    BY <1>2, <2>1
  <2>2. CASE k # LatestKey(h)
    <3>1. k < LatestKey(h)
      BY <1>1, <1>2, <2>2
    <3>2. h[k].version < h[LatestKey(h)].version
      BY <1>1, <3>1 DEF Numbered
    <3> QED
      BY <1>1, <1>2, <3>2
  <2> QED
    BY <2>1, <2>2
<1>4. ASSUME NEW k \in DOMAIN h PROVE 1 <= h[k].version
  <2>1. 1 \in DOMAIN h /\ 1 <= k /\ h[1].version = 1
    BY <1>0 DEF Keyed, Numbered
  <2>2. CASE k = 1
    BY <2>1, <2>2
  <2>3. CASE k # 1
    <3>1. 1 < k
      BY <1>2, <2>1, <2>3
    <3>2. h[1].version < h[k].version
      BY <2>1, <3>1 DEF Numbered
    <3> QED
      BY <1>2, <2>1, <3>2
  <2> QED
    BY <2>2, <2>3
<1> QED
  BY <1>1, <1>2, <1>3, <1>4

\* A row has the number after the one of the row before it.
LEMMA NumberedEdge ==
  ASSUME NEW h, NEW top, Numbered(h, top), NEW k \in DOMAIN h, k # 1
  PROVE  h[k].version = h[KeyAtOrBefore(h, k - 1)].version + 1
<1> DEFINE j == KeyAtOrBefore(h, k - 1)
<1>0. Keyed(h, top)
  BY DEF Numbered
<1>1. \A i \in DOMAIN h : i \in Nat /\ h[i].version \in Nat
  BY <1>0 DEF Numbered, Keyed
<1>2. k - 1 \in Nat /\ 1 <= k - 1
  BY <1>0, KeyBefore
<1>3. j \in DOMAIN h /\ j <= k - 1 /\ \A i \in DOMAIN h : i <= k - 1 => i <= j
  BY <1>0, <1>2, SeekFinds DEF IsSeek
<1> HIDE DEF j
<1>4. j < k /\ j \in Nat /\ k \in Nat
  BY <1>1, <1>3
<1>5. h[j].version < h[k].version
  BY <1>3, <1>4 DEF Numbered
<1>6. ASSUME h[j].version + 1 < h[k].version PROVE FALSE
  <2> DEFINE v == h[j].version + 1
  <2>1. v \in Nat /\ 1 <= v
    BY <1>1, <1>3
  <2>2. h[k].version <= h[LatestKey(h)].version /\ h[LatestKey(h)].version \in Nat
    BY NumberedTop
  <2>3. v <= h[LatestKey(h)].version
    BY <1>1, <1>6, <2>1, <2>2
  <2>4. PICK i \in DOMAIN h : h[i].version = v
    <3> HIDE DEF v
    <3> QED
      BY <2>1, <2>3 DEF Numbered
  <2>5. ~ (i < j) /\ i # j
    <3>1. i < j => h[i].version < h[j].version
      BY <1>3 DEF Numbered
    <3> QED
      BY <1>1, <1>3, <2>4, <3>1
  <2>6. j < i
    BY <1>1, <1>4, <2>5
  <2>7. ~ (i <= k - 1)
    BY <1>1, <1>3, <1>4, <2>6
  <2>8. i = k \/ k < i
    BY <1>1, <1>4, <2>7
  <2>9. k < i => h[k].version < h[i].version
    BY DEF Numbered
  <2> QED
    BY <1>1, <1>6, <2>1, <2>4, <2>8, <2>9
<1>7. h[j].version \in Nat /\ h[k].version \in Nat
  BY <1>1, <1>3
<1> QED
  BY <1>5, <1>6, <1>7 DEF j

\* The next number keeps a history numbered.
LEMMA NumberedGrows ==
  ASSUME NEW h, NEW g, NEW n \in Nat, NEW top, Numbered(h, top), top < n, Grows(h, g, n)
  PROVE  /\ Numbered(g, n)
         /\ LatestKey(g) = n
<1>0. Keyed(h, top) /\ DOMAIN g = DOMAIN h \cup {n} /\ n \notin DOMAIN h
  BY DEF Numbered, Grows, Keyed
<1>1. Keyed(g, n)
  BY <1>0, AppendSeek
<1>2. LatestKey(g) = n
  <2>1. DOMAIN g \in SUBSET Nat /\ n \in DOMAIN g /\ \A j \in DOMAIN g : j <= n
    BY <1>0, <1>1 DEF Keyed
  <2> QED
    BY <2>1, MaxIs DEF LatestKey
<1> DEFINE t == h[LatestKey(h)].version
<1>3. t \in Nat /\ \A k \in DOMAIN h : h[k].version \in Nat /\ 1 <= h[k].version /\ h[k].version <= t
  BY NumberedTop DEF Numbered
<1> HIDE DEF t
<1>4. g[n].version = t + 1 /\ \A k \in DOMAIN h : g[k].version = h[k].version
  BY DEF Grows, t
<1>5. \A k \in DOMAIN g : g[k].version \in Nat
  BY <1>0, <1>3, <1>4
<1>6. g[1].version = 1
  BY <1>0, <1>4 DEF Keyed, Numbered
<1>7. ASSUME NEW j \in DOMAIN g, NEW k \in DOMAIN g, j < k PROVE g[j].version < g[k].version
  <2>1. j \in Nat /\ k \in Nat /\ k <= n
    BY <1>1 DEF Keyed
  <2>2. j # n
    BY <1>7, <2>1
  <2>3. j \in DOMAIN h
    BY <1>0, <2>2
  <2>4. CASE k = n
    BY <1>3, <1>4, <2>3, <2>4
  <2>5. CASE k # n
    <3>1. k \in DOMAIN h
      BY <1>0, <2>5
    <3>2. h[j].version < h[k].version
      BY <1>7, <2>3, <3>1 DEF Numbered
    <3> QED
      BY <1>4, <2>3, <3>1, <3>2
  <2> QED
    BY <2>4, <2>5
<1>8. ASSUME NEW v \in Nat, 1 <= v, v <= g[LatestKey(g)].version
      PROVE  \E k \in DOMAIN g : g[k].version = v
  <2>1. v <= t + 1
    BY <1>2, <1>4, <1>8
  <2>2. CASE v = t + 1
    BY <1>0, <1>4, <2>2
  <2>3. CASE v # t + 1
    <3>1. v <= t
      BY <1>3, <2>1, <2>3
    <3>2. PICK k \in DOMAIN h : h[k].version = v
      BY <1>8, <3>1 DEF Numbered, t
    <3> QED
      BY <1>0, <1>4, <3>2
  <2> QED
    BY <2>2, <2>3
<1>9. Numbered(g, n)
  BY <1>1, <1>5, <1>6, <1>7, <1>8 DEF Numbered
<1> QED
  BY <1>2, <1>9

\* A numbered history stays one under a later bound.
LEMMA NumberedUpTo ==
  ASSUME NEW h, NEW top, Numbered(h, top), NEW t \in Nat, top <= t
  PROVE  Numbered(h, t)
<1>1. Keyed(h, t)
  BY DEF Numbered, Keyed
<1> QED
  BY <1>1 DEF Numbered

-----------------------------------------------------------------------------
(* Mode intervals.                                                         *)

\* Each interval ends where the next begins; the last one is open.
Tiles(h) ==
  /\ \A j \in DOMAIN h : h[j].until \in Nat
  /\ h[LatestKey(h)].until = 0
  /\ \A j \in DOMAIN h : j # LatestKey(h) =>
       /\ h[j].until \in DOMAIN h /\ j < h[j].until
       /\ \A k \in DOMAIN h : j < k => h[j].until <= k

\* Closing the last interval at n and opening one there keeps the tiling.
LEMMA TilesGrow ==
  ASSUME NEW h, NEW g, NEW n \in Nat, NEW top, Keyed(h, top), top < n, Tiles(h),
         DOMAIN g = DOMAIN h \cup {n}, g[n].until = 0,
         g[LatestKey(h)].until = n,
         \A k \in DOMAIN h : k # LatestKey(h) => g[k].until = h[k].until
  PROVE  Tiles(g)
<1> DEFINE l == LatestKey(h)
<1>0. /\ top \in Nat /\ \A k \in DOMAIN h : k \in Nat /\ k <= top /\ k < n /\ k # n
  BY DEF Keyed
<1>1. l \in DOMAIN h /\ \A j \in DOMAIN h : j <= l
  BY <1>0, LatestIsSeek
<1>2. Keyed(g, n)
  BY AppendSeek
<1>3. LatestKey(g) = n
  <2>1. DOMAIN g \in SUBSET Nat /\ n \in DOMAIN g /\ \A j \in DOMAIN g : j <= n
    BY <1>2 DEF Keyed
  <2> QED
    BY <2>1, MaxIs DEF LatestKey
<1> HIDE DEF l
<1>4. \A k \in DOMAIN h : g[k].until = IF k = l THEN n ELSE h[k].until
  BY DEF l
<1>5. \A j \in DOMAIN h : h[j].until \in Nat
  BY DEF Tiles
<1>6. ASSUME NEW j \in DOMAIN h
      PROVE  /\ g[j].until \in DOMAIN g /\ j < g[j].until
             /\ \A k \in DOMAIN g : j < k => g[j].until <= k
  <2>1. CASE j = l
    <3>1. \A k \in DOMAIN g : j < k => k = n
      BY <1>0, <1>1, <2>1
    <3> QED
      BY <1>0, <1>4, <2>1, <3>1
  <2>2. CASE j # l
    <3>1. /\ h[j].until \in DOMAIN h /\ j < h[j].until
          /\ \A k \in DOMAIN h : j < k => h[j].until <= k
      BY <2>2 DEF Tiles, l
    <3>2. h[j].until <= n
      BY <1>0, <3>1
    <3> QED
      BY <1>4, <2>2, <3>1, <3>2
  <2> QED
    BY <2>1, <2>2
<1>7. \A j \in DOMAIN g : g[j].until \in Nat
  BY <1>4, <1>5
<1> QED
  BY <1>3, <1>6, <1>7 DEF Tiles

\* In a tiling exactly one interval contains an epoch, and the seek finds it.
LEMMA TilesCover ==
  ASSUME NEW h, NEW top, Keyed(h, top), Tiles(h), NEW e \in Nat, 1 <= e
  PROVE  {k \in DOMAIN h : k <= e /\ h[k].until \notin 1 .. e} = {KeyAtOrBefore(h, e)}
<1> DEFINE s == KeyAtOrBefore(h, e)
<1>0. top \in Nat /\ \A k \in DOMAIN h : k \in Nat /\ h[k].until \in Nat /\ 1 <= k
  BY DEF Keyed, Tiles
<1>1. s \in DOMAIN h /\ s <= e /\ \A j \in DOMAIN h : j <= e => j <= s
  BY SeekFinds DEF IsSeek
<1>2. \A j \in DOMAIN h : j <= LatestKey(h)
  BY <1>0, LatestIsSeek
<1> HIDE DEF s
<1>3. h[s].until \notin 1 .. e
  <2>1. CASE s = LatestKey(h)
    BY <2>1 DEF Tiles
  <2>2. CASE s # LatestKey(h)
    <3>1. h[s].until \in DOMAIN h /\ s < h[s].until
      BY <1>1, <2>2 DEF Tiles
    <3>2. ~ (h[s].until <= e)
      BY <1>0, <1>1, <3>1
    <3> QED
      BY <1>0, <1>1, <3>2
  <2> QED
    BY <2>1, <2>2
<1>4. ASSUME NEW k \in DOMAIN h, k <= e, k # s PROVE h[k].until \in 1 .. e
  <2>1. k < s
    BY <1>0, <1>1, <1>4
  <2>2. k # LatestKey(h)
    BY <1>0, <1>1, <1>2, <2>1
  <2>3. h[k].until \in DOMAIN h /\ h[k].until <= s
    BY <1>1, <2>1, <2>2 DEF Tiles
  <2>4. h[k].until \in Nat /\ 1 <= h[k].until /\ s \in Nat
    BY <1>0, <1>1, <2>3
  <2> QED
    BY <1>1, <2>3, <2>4
<1> QED
  BY <1>1, <1>3, <1>4 DEF s

-----------------------------------------------------------------------------
(* The version index, and the entries storage lost.                        *)

Indexed(f, h, ix, gone) ==
  /\ \A v \in DOMAIN ix : ix[v] \in DOMAIN h /\ h[ix[v]].version = v
  /\ \A k \in DOMAIN h : h[k].version \in DOMAIN ix \/ <<f, h[k].version>> \in gone

\* The new version has no entry yet, and gets one.
LEMMA IndexGrows ==
  ASSUME NEW f, NEW h, NEW g, NEW ix, NEW gone, NEW n \in Nat, NEW top,
         Numbered(h, top), top < n, Grows(h, g, n), Indexed(f, h, ix, gone)
  PROVE  /\ h[LatestKey(h)].version + 1 \notin DOMAIN ix
         /\ Indexed(f, g, With(ix, h[LatestKey(h)].version + 1, n), gone)
<1> DEFINE t == h[LatestKey(h)].version
           jx == With(ix, t + 1, n)
<1>1. t \in Nat /\ \A k \in DOMAIN h : h[k].version \in Nat /\ h[k].version <= t
  BY NumberedTop DEF Numbered
<1>2. /\ DOMAIN g = DOMAIN h \cup {n} /\ g[n].version = t + 1
      /\ \A k \in DOMAIN h : g[k].version = h[k].version
  BY DEF Grows
<1> HIDE DEF t
<1>3. t + 1 \notin DOMAIN ix
  <2>1. ASSUME t + 1 \in DOMAIN ix PROVE FALSE
    <3>1. ix[t + 1] \in DOMAIN h /\ h[ix[t + 1]].version = t + 1
      BY <2>1 DEF Indexed
    <3> QED
      BY <1>1, <3>1
  <2> QED
    BY <2>1
<1>4. DOMAIN jx = DOMAIN ix \cup {t + 1} /\ jx[t + 1] = n /\ \A v \in DOMAIN ix : jx[v] = ix[v]
  BY <1>3 DEF With
<1> HIDE DEF jx
<1>5. ASSUME NEW v \in DOMAIN jx PROVE jx[v] \in DOMAIN g /\ g[jx[v]].version = v
  <2>1. CASE v = t + 1
    BY <1>2, <1>4, <2>1
  <2>2. CASE v \in DOMAIN ix
    <3>1. ix[v] \in DOMAIN h /\ h[ix[v]].version = v
      BY <2>2 DEF Indexed
    <3> QED
      BY <1>2, <1>4, <2>2, <3>1
  <2> QED
    BY <1>4, <2>1, <2>2
<1>6. ASSUME NEW k \in DOMAIN g
      PROVE  g[k].version \in DOMAIN jx \/ <<f, g[k].version>> \in gone
  <2>1. CASE k = n
    BY <1>2, <1>4, <2>1
  <2>2. CASE k \in DOMAIN h
    BY <1>2, <1>4, <2>2 DEF Indexed
  <2> QED
    BY <1>2, <2>1, <2>2
<1> QED
  BY <1>3, <1>5, <1>6 DEF Indexed, jx, t

\* An index that loses an entry stays sound once the loss is on record.
LEMMA IndexLoses ==
  ASSUME NEW f, NEW h, NEW ix, NEW gone, NEW v, Indexed(f, h, ix, gone)
  PROVE  Indexed(f, h, Without(ix, v), gone \cup {<<f, v>>})
<1> DEFINE jx == Without(ix, v)
<1>1. DOMAIN jx = DOMAIN ix \ {v} /\ \A w \in DOMAIN jx : jx[w] = ix[w]
  BY DEF Without, Restrict
<1> HIDE DEF jx
<1>2. Indexed(f, h, jx, gone \cup {<<f, v>>})
  BY <1>1 DEF Indexed
<1> QED
  BY <1>2 DEF jx

\* More losses on record do not matter to an index.
LEMMA IndexKept ==
  ASSUME NEW f, NEW h, NEW ix, NEW gone, NEW more, Indexed(f, h, ix, gone)
  PROVE  Indexed(f, h, ix, gone \cup more)
  BY DEF Indexed

\* The least element of a set of naturals is the one Min chooses.
LEMMA MinIs ==
  ASSUME NEW S \in SUBSET Nat, NEW k \in S, \A j \in S : k <= j
  PROVE  Min(S) = k
<1>1. \A x \in S : (\A y \in S : x <= y) => x = k
  OBVIOUS
<1> QED
  BY <1>1 DEF Min

\* Versions leave no number out, so the lookup never proves a gap.
LEMMA NoGaps ==
  ASSUME NEW f, NEW top, Numbered(versions[f], top),
         Indexed(f, versions[f], index[f], lost), NEW v \in Nat
  PROVE  ~ ProvenGap(f, v)
<1> DEFINE h == versions[f]
           ix == index[f]
           below == {w \in DOMAIN ix : w < v}
           above == {w \in DOMAIN ix : w > v}
           lower == ix[Max(below)]
           upper == ix[Min(above)]
<1> SUFFICES ASSUME ProvenGap(f, v) PROVE FALSE
  OBVIOUS
<1>1. below # {} /\ above # {} /\ {k \in DOMAIN h : lower < k /\ k < upper} = {}
  BY DEF ProvenGap
<1>2. \A k \in DOMAIN h : k \in Nat /\ 1 <= k /\ h[k].version \in Nat
  BY DEF Numbered, Keyed
<1>3. \A w \in DOMAIN ix : ix[w] \in DOMAIN h /\ h[ix[w]].version = w /\ w \in Nat
  BY <1>2 DEF Indexed
<1>4. below \in SUBSET Nat /\ above \in SUBSET Nat /\ \A w \in below : w <= v
  BY <1>3
<1>5. PICK a \in below : \A w \in below : w <= a
  <2> HIDE DEF below
  <2> QED
    BY <1>1, <1>4, GreatestNatural
<1>6. PICK b \in above : \A w \in above : b <= w
  <2> HIDE DEF above
  <2> QED
    BY <1>1, <1>4, LeastNatural
<1>7. Max(below) = a /\ Min(above) = b
  <2> HIDE DEF below, above
  <2> QED
    BY <1>4, <1>5, <1>6, MaxIs, MinIs
<1>8. /\ a \in DOMAIN ix /\ b \in DOMAIN ix /\ a < v /\ v < b /\ a \in Nat /\ b \in Nat
      /\ lower = ix[a] /\ upper = ix[b]
  BY <1>3, <1>5, <1>6, <1>7
<1>9. /\ lower \in DOMAIN h /\ h[lower].version = a
      /\ upper \in DOMAIN h /\ h[upper].version = b
  BY <1>3, <1>8
<1> HIDE DEF h, ix, below, above, lower, upper
<1>10. lower \in Nat /\ upper \in Nat /\ 1 <= lower
  BY <1>2, <1>9
<1>11. lower < upper
  <2>1. upper < lower => b < a
    BY <1>9 DEF Numbered, h
  <2>2. upper # lower
    BY <1>8, <1>9
  <2> QED
    BY <1>8, <1>10, <2>1, <2>2
<1>12. upper # 1 /\ upper - 1 \in Nat
  BY <1>10, <1>11
<1>13. IsSeek(h, upper - 1, lower)
  <2>1. ASSUME NEW j \in DOMAIN h, j <= upper - 1 PROVE j <= lower
    <3>1. j \in Nat /\ j < upper
      BY <1>2, <1>10, <2>1
    <3>2. ~ (lower < j)
      BY <1>1, <3>1
    <3> QED
      BY <1>10, <3>1, <3>2
  <2>2. lower <= upper - 1
    BY <1>10, <1>11
  <2> QED
    BY <1>9, <2>1, <2>2 DEF IsSeek
<1>14. Keyed(h, top) /\ Numbered(h, top)
  BY DEF Numbered, h
<1>15. KeyAtOrBefore(h, upper - 1) = lower
  BY <1>13, <1>14, SeekIs
<1>16. b = a + 1
  BY <1>9, <1>12, <1>14, <1>15, NumberedEdge
<1> QED
  BY <1>8, <1>16

\* What the lookup by number answers in a numbered and indexed history.
LEMMA LookupAnswers ==
  ASSUME NEW f \in Families, NEW top, Numbered(versions[f], top),
         Indexed(f, versions[f], index[f], lost), NEW v \in Nat, 1 <= v
  PROVE  /\ Lookup(f, v) > 0 => versions[f][Lookup(f, v)].version = v
         /\ Lookup(f, v) = Absent => \A k \in DOMAIN versions[f] : versions[f][k].version # v
         /\ Lookup(f, v) = Corrupt => <<f, v>> \in lost
<1> DEFINE h == versions[f]
           ix == index[f]
           t == h[LatestKey(h)].version
<1>0. Numbered(h, top) /\ Keyed(h, top)
  BY DEF Numbered
<1>1. t \in Nat /\ \A k \in DOMAIN h : h[k].version \in Nat /\ h[k].version <= t
  BY <1>0, NumberedTop DEF Numbered
<1>2. LatestVersion(f).version = t
  BY DEF LatestVersion
<1>3. \A w \in DOMAIN ix : ix[w] \in DOMAIN h /\ h[ix[w]].version = w
  BY DEF Indexed
<1>4. \A k \in DOMAIN h : k \in Nat /\ 1 <= k
  BY <1>0 DEF Keyed
<1>5. CASE v > t
  <2>1. Lookup(f, v) = Absent
    <3>1. CASE f = "reward"
      BY <1>2, <1>5, <3>1 DEF Lookup, RewardConfigVersionByNumber
    <3>2. CASE f # "reward"
      BY <1>2, <1>5, <3>2 DEF Lookup, ResolveExactVersion
    <3> QED
      BY <3>1, <3>2
  <2>2. \A k \in DOMAIN h : h[k].version # v
    BY <1>1, <1>5
  <2> HIDE DEF h
  <2> QED
    BY <2>1, <2>2 DEF Absent, Corrupt, h
<1>6. CASE ~ (v > t) /\ v \in DOMAIN ix
  <2>1. ix[v] \in DOMAIN h /\ h[ix[v]].version = v
    BY <1>3, <1>6
  <2>2. Lookup(f, v) = ix[v]
    <3>1. CASE f = "reward"
      <4>1. RewardEdgeOK(ix[v])
        <5>1. CASE ix[v] = 1
          BY <1>4, <3>1, <5>1 DEF RewardEdgeOK
        <5>2. CASE ix[v] # 1
          <6> DEFINE k == ix[v]
          <6> HIDE DEF k
          <6>0. k \in DOMAIN h /\ k # 1
            BY <2>1, <5>2 DEF k
          <6>1. Max({j \in DOMAIN h : j < k}) = KeyAtOrBefore(h, k - 1)
            <7> HIDE DEF h
            <7> QED
              BY <1>0, <6>0, KeyBefore
          <6>2. h[k].version = h[KeyAtOrBefore(h, k - 1)].version + 1
            <7> HIDE DEF h
            <7> QED
              BY <1>0, <6>0, NumberedEdge
          <6>3. RewardEdgeOK(k)
            BY <3>1, <6>1, <6>2 DEF RewardEdgeOK
          <6> QED
            BY <6>3 DEF k
        <5> QED
          BY <5>1, <5>2
      <4> QED
        BY <1>2, <1>6, <2>1, <3>1, <4>1 DEF Lookup, RewardConfigVersionByNumber
    <3>2. CASE f # "reward"
      BY <1>2, <1>6, <2>1, <3>2 DEF Lookup, ResolveExactVersion
    <3> QED
      BY <3>1, <3>2
  <2>3. ix[v] \in Nat
    BY <1>4, <2>1
  <2> QED
    BY <2>1, <2>2, <2>3 DEF Absent, Corrupt
<1>7. CASE ~ (v > t) /\ v \notin DOMAIN ix
  <2>1. Lookup(f, v) = Corrupt
    <3>1. CASE f = "reward"
      BY <1>2, <1>7, <3>1 DEF Lookup, RewardConfigVersionByNumber
    <3>2. CASE f # "reward"
      <4>1. ~ ProvenGap(f, v)
        BY NoGaps
      <4> QED
        BY <1>2, <1>7, <3>2, <4>1 DEF Lookup, ResolveExactVersion
    <3> QED
      BY <3>1, <3>2
  <2>2. v <= t
    BY <1>1, <1>7
  <2>3. PICK k \in DOMAIN h : h[k].version = v
    BY <2>2 DEF Numbered
  <2>4. <<f, v>> \in lost
    BY <1>7, <2>3 DEF Indexed
  <2> QED
    BY <2>1, <2>4 DEF Absent, Corrupt
<1> QED
  BY <1>5, <1>6, <1>7

-----------------------------------------------------------------------------
(* The inductive invariant.                                                *)

\* The last epoch that closed: the current one between its last block and the
\* opening of the next, else the one before it.
LastClosed ==
  IF phase = "begin" /\ height = StartIn(geometry, epoch + 1) THEN epoch ELSE epoch - 1

\* The geometry covers the epochs up to the current one, and the height is in it.
ClockInv ==
  /\ height \in Nat /\ epoch \in Nat /\ 1 <= epoch
  /\ phase \in {"begin", "deliver"} /\ halted \in BOOLEAN
  /\ Geo(geometry, epoch)
  /\ epochStart = StartIn(geometry, epoch)
  /\ height <= StartIn(geometry, epoch + 1)
  /\ phase = "deliver" => height < StartIn(geometry, epoch + 1)
  /\ mirror = LengthIn(geometry, epoch)
  /\ \A k \in DOMAIN lengths : k \in Nat /\ k > epoch /\ lengths[k] \in Lengths

Rows(f) == [version : Nat, value : Values[f], until : Nat]

\* One family: numbered up to the epoch after the last closed one, indexed but
\* for what storage lost, and at most one change pending, for a later boundary.
FamilyInv(f) ==
  /\ Numbered(versions[f], LastClosed + 1)
  /\ versions[f] \in [DOMAIN versions[f] -> Rows(f)]
  /\ Indexed(f, versions[f], index[f], lost)
  /\ \E e : DOMAIN scheduled[f] \subseteq {e}
  /\ \A k \in DOMAIN scheduled[f] :
       k \in Nat /\ k > LastClosed + 1 /\ scheduled[f][k] \in Values[f]

FamiliesInv ==
  /\ DOMAIN index = Families /\ DOMAIN scheduled = Families
  /\ \A f \in Families : FamilyInv(f)
  /\ Tiles(versions["mode"])
  /\ DOMAIN scheduled["reward"] \subseteq {epoch + 1}

\* The archives: one record for each closed epoch, with the span the geometry
\* gives it and the versions it binds.
SpanKept(e) ==
  /\ finalized[e].start = StartIn(geometry, e)
  /\ finalized[e].end = StartIn(geometry, e + 1) - 1
  /\ finalized[e].length = LengthIn(geometry, e)

RecordsInv ==
  /\ DOMAIN finalized = 1 .. LastClosed
  /\ DOMAIN stamps \subseteq 1 .. LastClosed
  /\ \A e \in DOMAIN finalized : SpanKept(e)
  /\ StampsHold

HistoriesInv ==
  /\ ClockInv
  /\ FamiliesInv
  /\ RecordsInv
  /\ HaltsOnlyForSelection

\* The last closed epoch is the current one or the one before it.
LEMMA ClosedRange ==
  ASSUME ClockInv
  PROVE  /\ LastClosed \in Nat /\ LastClosed <= epoch /\ epoch - 1 <= LastClosed
         /\ phase = "deliver" => LastClosed = epoch - 1
         /\ LastClosed + 1 \in Nat
  BY DEF ClockInv, LastClosed

\* The families are four, and so are the cases of a promotion.
LEMMA FamilyNames ==
  ASSUME NEW f \in Families
  PROVE  f \in {"reward", "mode", "selection", "settlement"}
  BY DEF Families

\* A promotion appends the next version, and touches earlier rows at most to
\* close the interval of a mode.
LEMMA PromotionGrows ==
  ASSUME NEW f \in Families, NEW n \in Nat, NEW top, top < n, Numbered(versions[f], top),
         versions[f] \in [DOMAIN versions[f] -> Rows(f)],
         scheduled[f][n] \in Values[f], f = "mode" => Tiles(versions[f])
  PROVE  /\ Grows(versions[f], Promoted(f, n), n)
         /\ Promoted(f, n) \in [DOMAIN Promoted(f, n) -> Rows(f)]
         /\ \A k \in DOMAIN versions[f] : Promoted(f, n)[k].value = versions[f][k].value
         /\ f = "mode" => Tiles(Promoted(f, n))
         /\ f # "mode" => \A k \in DOMAIN versions[f] : Promoted(f, n)[k] = versions[f][k]
<1> DEFINE h == versions[f]
           l == LatestKey(h)
           r == Successor(f, n)
<1>1. /\ l \in DOMAIN h /\ h[l].version \in Nat /\ Keyed(h, top) /\ n \notin DOMAIN h
      /\ l <= top /\ l # n
  BY NumberedTop DEF Numbered, Keyed
<1>2. r = [version |-> h[l].version + 1, value |-> scheduled[f][n], until |-> 0]
  BY DEF Successor, LatestVersion
<1>3. r \in Rows(f) /\ r.version = h[l].version + 1 /\ r.until = 0
  BY <1>1, <1>2 DEF Rows
<1>4. h \in [DOMAIN h -> Rows(f)]
  OBVIOUS
<1>5. CASE f # "mode"
  <2>1. Promoted(f, n) = With(h, n, r)
    BY <1>5, FamilyNames DEF Promoted, PromoteScheduledRewardConfig,
       PromoteScheduledSelectionParams, PromoteScheduledSettlementParams
  <2> DEFINE g == Promoted(f, n)
  <2> HIDE DEF h, r, l
  <2>2. /\ DOMAIN g = DOMAIN h \cup {n} /\ g[n] = r /\ \A k \in DOMAIN h : g[k] = h[k]
        /\ g = [x \in DOMAIN h \cup {n} |-> IF x = n THEN r ELSE h[x]]
    BY <1>1, <2>1 DEF With
  <2> HIDE DEF g
  <2>3. Grows(h, g, n)
    BY <1>3, <2>2 DEF Grows, l
  <2>4. g \in [DOMAIN g -> Rows(f)]
    BY <1>3, <1>4, <2>2
  <2> QED
    BY <1>5, <2>2, <2>3, <2>4 DEF g, h
<1>6. CASE f = "mode"
  <2> DEFINE c == [h EXCEPT ![l].until = n]
  <2>1. Promoted(f, n) = With(c, n, r)
    BY <1>6 DEF Promoted, PromoteScheduledDistributionMode, ClosedPredecessor
  <2> DEFINE g == Promoted(f, n)
  <2> HIDE DEF h, r, l
  <2>2. /\ DOMAIN c = DOMAIN h /\ c[l] = [h[l] EXCEPT !.until = n]
        /\ \A k \in DOMAIN h : k # l => c[k] = h[k]
    BY <1>1, <1>4
  <2>3. /\ c[l] \in Rows(f) /\ c[l].until = n /\ c[l].version = h[l].version
        /\ c[l].value = h[l].value
    <3>1. h[l] \in Rows(f)
      BY <1>1, <1>4
    <3> QED
      BY <2>2, <3>1 DEF Rows
  <2> HIDE DEF c
  <2>4. /\ DOMAIN g = DOMAIN h \cup {n} /\ g[n] = r /\ \A k \in DOMAIN h : g[k] = c[k]
        /\ g = [x \in DOMAIN h \cup {n} |-> IF x = n THEN r ELSE c[x]]
    BY <1>1, <2>1, <2>2 DEF With
  <2> HIDE DEF g
  <2>5. /\ \A k \in DOMAIN h : g[k].version = h[k].version /\ g[k].value = h[k].value
        /\ g[l].until = n /\ \A k \in DOMAIN h : k # l => g[k].until = h[k].until
    BY <1>1, <2>2, <2>3, <2>4
  <2>6. Grows(h, g, n)
    BY <1>3, <2>4, <2>5 DEF Grows, l
  <2>7. g \in [DOMAIN g -> Rows(f)]
    BY <1>3, <1>4, <2>2, <2>3, <2>4
  <2>8. Tiles(g)
    <3>1. Tiles(h) /\ g[n].until = 0
      BY <1>3, <1>6, <2>4 DEF h
    <3>2. /\ g[LatestKey(h)].until = n
          /\ \A k \in DOMAIN h : k # LatestKey(h) => g[k].until = h[k].until
      BY <2>5 DEF l
    <3> QED
      BY <1>1, <2>4, <3>1, <3>2, TilesGrow
  <2> QED
    BY <1>6, <2>5, <2>6, <2>7, <2>8 DEF g, h
<1> QED
  BY <1>5, <1>6

\* A row appended at n leaves alone what an earlier epoch binds.
LEMMA BindingKept ==
  ASSUME NEW h, NEW g, NEW n \in Nat, NEW top, Numbered(h, top), top < n,
         g = h \/ Grows(h, g, n), NEW b \in Nat, 1 <= b, b < n
  PROVE  /\ KeyAtOrBefore(g, b) = KeyAtOrBefore(h, b)
         /\ KeyAtOrBefore(h, b) \in DOMAIN h
         /\ g[KeyAtOrBefore(h, b)].version = h[KeyAtOrBefore(h, b)].version
<1>0. Keyed(h, top)
  BY DEF Numbered
<1>1. KeyAtOrBefore(h, b) \in DOMAIN h
  BY <1>0, SeekFinds
<1>2. CASE g = h
  BY <1>1, <1>2
<1>3. CASE Grows(h, g, n)
  <2>1. KeyAtOrBefore(g, b) = KeyAtOrBefore(h, b)
    <3>1. DOMAIN g = DOMAIN h \cup {n}
      BY <1>3 DEF Grows
    <3> QED
      BY <1>0, <3>1, AppendSeek
  <2> QED
    BY <1>1, <1>3, <2>1 DEF Grows
<1> QED
  BY <1>2, <1>3

\* A target binds an epoch from 1 on, and none after itself
\* (bindingEpochForTarget).
LEMMA BindingEpochs ==
  ASSUME NEW t \in Nat, 1 <= t
  PROVE  /\ BindingEpoch(t) \in Nat /\ 1 <= BindingEpoch(t)
         /\ BindingEpoch(t) <= t
         /\ \A e \in Nat : 1 <= e /\ e >= t - 2 => BindingEpoch(t) <= e
  BY DEF BindingEpoch

-----------------------------------------------------------------------------
(* BeginBlock.                                                             *)

\* The anchor of the current epoch is always found where the state has it.
LEMMA AnchorHolds ==
  ASSUME ClockInv
  PROVE  EpochAnchored
<1>1. Geo(geometry, epoch) /\ epoch \in Nat /\ 1 <= epoch /\ epochStart = StartIn(geometry, epoch)
  BY DEF ClockInv
<1>2. KeyAtOrBefore(geometry, epoch) \in DOMAIN geometry
  BY <1>1, SeekFinds DEF Geo
<1>3. GeometryRowOK(KeyAtOrBefore(geometry, epoch))
  BY <1>1, <1>2, GeoRows
<1>4. EpochStartHeight(epoch) = epochStart
  BY <1>1, EpochsIn
<1> QED
  BY <1>3, <1>4 DEF EpochAnchored

\* The latest row is the one of the current epoch.
LEMMA LatestRow ==
  ASSUME ClockInv
  PROVE  /\ LatestKey(geometry) = KeyAtOrBefore(geometry, epoch)
         /\ LatestKey(geometry) = KeyAtOrBefore(geometry, epoch + 1)
         /\ LatestKey(geometry) \in DOMAIN geometry
         /\ LatestKey(geometry) \in Nat /\ LatestKey(geometry) <= epoch
         /\ geometry[LatestKey(geometry)].version \in Nat
<1>1. Geo(geometry, epoch) /\ epoch \in Nat /\ Keyed(geometry, epoch)
  BY DEF ClockInv, Geo
<1>2. /\ LatestKey(geometry) = KeyAtOrBefore(geometry, epoch)
      /\ LatestKey(geometry) = KeyAtOrBefore(geometry, epoch + 1)
      /\ LatestKey(geometry) \in DOMAIN geometry
      /\ LatestKey(geometry) \in Nat /\ LatestKey(geometry) <= epoch
  BY <1>1, LatestIsSeek
<1> QED
  BY <1>1, <1>2 DEF Geo

\* BeginBlock never fails.
LEMMA BeginSucceeds ==
  ASSUME ClockInv
  PROVE  BeginBlockOK(epoch + 1)
<1> DEFINE n == epoch + 1
<1>1. EpochAnchored
  BY AnchorHolds
<1>2. EpochStartHeight(n) = StartIn(geometry, n) /\ height <= EpochStartHeight(n)
  BY EpochsIn DEF ClockInv
<1>3. ASSUME height = EpochStartHeight(n), n \in DOMAIN lengths PROVE AppendOK(n)
  <2>1. GeometryRowOK(LatestKey(geometry))
    BY LatestRow, GeoRows DEF ClockInv
  <2>2. lengths[n] \in Lengths
    BY <1>3 DEF ClockInv
  <2>3. n > LatestKey(geometry)
    BY LatestRow DEF ClockInv
  <2>4. EpochStartFrom(LatestKey(geometry), n) = height
    BY <1>3, LatestRow DEF EpochStartHeight
  <2> QED
    BY <2>1, <2>2, <2>3, <2>4 DEF AppendOK
<1> QED
  BY <1>1, <1>2, <1>3 DEF BeginBlockOK

\* No span up to the current epoch moves.
SpansKept ==
  /\ \A e \in Nat : 1 <= e /\ e <= epoch + 1 => StartIn(geometry', e) = StartIn(geometry, e)
  /\ \A e \in Nat : 1 <= e /\ e <= epoch => LengthIn(geometry', e) = LengthIn(geometry, e)

\* What BeginBlock does to the clock.
LEMMA BeginClock ==
  ASSUME ClockInv, BeginBlock
  PROVE  /\ ClockInv' /\ SpansKept /\ LastClosed' = LastClosed
         /\ halted' = halted /\ ~ halted
         /\ \/ epoch' = epoch /\ geometry' = geometry /\ lengths' = lengths
            \/ epoch' = epoch + 1 /\ LastClosed = epoch
         /\ UNCHANGED <<familyVars, recordVars, lost>>
<1> DEFINE n == epoch + 1
<1>0. /\ height \in Nat /\ epoch \in Nat /\ 1 <= epoch /\ Geo(geometry, epoch) /\ phase = "begin"
      /\ ~ halted /\ epochStart = StartIn(geometry, epoch) /\ mirror = LengthIn(geometry, epoch)
      /\ \A k \in DOMAIN lengths : k \in Nat /\ k > epoch /\ lengths[k] \in Lengths
      /\ height <= StartIn(geometry, n)
  BY DEF ClockInv, BeginBlock
<1>1. BeginBlockOK(n) /\ EpochStartHeight(n) = StartIn(geometry, n)
  BY BeginSucceeds, EpochsIn
<1>2. /\ \/ height = StartIn(geometry, n) /\ OpenEpoch(n)
         \/ height < StartIn(geometry, n) /\ UNCHANGED <<epoch, epochStart, geometryVars>>
      /\ phase' = "deliver" /\ halted' = halted /\ height' = height
      /\ UNCHANGED <<familyVars, recordVars, lost>>
  BY <1>1 DEF BeginBlock
<1>3. CASE height < StartIn(geometry, n) /\ UNCHANGED <<epoch, epochStart, geometryVars>>
  <2>1. /\ epoch' = epoch /\ epochStart' = epochStart /\ geometry' = geometry
        /\ lengths' = lengths /\ mirror' = mirror
    BY <1>3 DEF geometryVars
  <2>2. SpansKept
    BY <2>1 DEF SpansKept
  <2>3. ClockInv'
    BY <1>0, <1>2, <1>3, <2>1 DEF ClockInv
  <2>4. LastClosed' = epoch - 1 /\ LastClosed = epoch - 1
    <3>1. height # StartIn(geometry, n)
      BY <1>0, <1>3, GeoStart
    <3>2. phase' # "begin"
      BY <1>2
    <3> QED
      BY <2>1, <3>1, <3>2 DEF LastClosed
  <2> QED
    BY <1>0, <1>2, <2>1, <2>2, <2>3, <2>4
<1>4. CASE height = StartIn(geometry, n) /\ OpenEpoch(n)
  <2>1. epoch' = n /\ epochStart' = height /\ ConsumeScheduledEpochConfig(n)
    BY <1>4 DEF OpenEpoch
  <2>2. LastClosed' = epoch /\ LastClosed = epoch
    <3>1. phase' # "begin" /\ n - 1 = epoch
      BY <1>0, <1>2
    <3> QED
      BY <1>0, <1>4, <2>1, <3>1 DEF LastClosed
  <2>3. /\ Geo(geometry', n) /\ SpansKept /\ mirror' = LengthIn(geometry', n)
        /\ StartIn(geometry', n) = StartIn(geometry, n)
        /\ \A k \in DOMAIN lengths' : k \in DOMAIN lengths /\ k # n /\ lengths'[k] = lengths[k]
    <3>1. CASE n \in DOMAIN lengths
      <4> DEFINE r == EpochConfigVersion(n)
      <4>1. geometry' = With(geometry, n, r) /\ lengths' = Without(lengths, n) /\ mirror' = lengths[n]
        BY <2>1, <3>1 DEF ConsumeScheduledEpochConfig
      <4>2. /\ r.version = geometry[LatestKey(geometry)].version + 1
            /\ r.start = StartIn(geometry, n) /\ r.length = lengths[n] /\ r.length \in Lengths
        BY <1>0, <1>4, <3>1 DEF EpochConfigVersion
      <4> HIDE DEF r
      <4>3. /\ Geo(With(geometry, n, r), n)
            /\ \A e \in Nat : 1 <= e /\ e <= epoch =>
                 /\ StartIn(With(geometry, n, r), e) = StartIn(geometry, e)
                 /\ LengthIn(With(geometry, n, r), e) = LengthIn(geometry, e)
            /\ StartIn(With(geometry, n, r), n) = StartIn(geometry, n)
            /\ LengthIn(With(geometry, n, r), n) = r.length
        BY <1>0, <4>2, GeoAppend
      <4>4. SpansKept
        <5>1. \A e \in Nat : 1 <= e /\ e <= n => e <= epoch \/ e = n
          BY <1>0
        <5> QED
          BY <4>1, <4>3, <5>1 DEF SpansKept
      <4>5. \A k \in DOMAIN lengths' : k \in DOMAIN lengths /\ k # n /\ lengths'[k] = lengths[k]
        BY <4>1 DEF Without, Restrict
      <4> QED
        BY <4>1, <4>2, <4>3, <4>4, <4>5
    <3>2. CASE n \notin DOMAIN lengths
      <4>1. geometry' = geometry /\ lengths' = lengths /\ mirror' = mirror
        BY <2>1, <3>2 DEF ConsumeScheduledEpochConfig, geometryVars
      <4>2. Geo(geometry, n) /\ LengthIn(geometry, n) = LengthIn(geometry, epoch)
        BY <1>0, GeoGrow
      <4> QED
        BY <1>0, <3>2, <4>1, <4>2 DEF SpansKept
    <3> QED
      BY <3>1, <3>2
  <2>4. /\ StartIn(geometry', n) = height
        /\ height < StartIn(geometry', n + 1)
    <3>1. n \in Nat /\ 1 <= n
      BY <1>0
    <3>2. /\ StartIn(geometry', n + 1) = StartIn(geometry', n) + LengthIn(geometry', n)
          /\ LengthIn(geometry', n) \in Nat /\ LengthIn(geometry', n) >= 1
      BY <2>3, <3>1, GeoStart
    <3>3. StartIn(geometry', n) = height
      BY <1>4, <2>3
    <3> QED
      BY <1>0, <3>2, <3>3
  <2>5. \A k \in DOMAIN lengths' : k \in Nat /\ k > n /\ lengths'[k] \in Lengths
    BY <1>0, <2>3
  <2>6. ClockInv'
    <3>0. halted' \in BOOLEAN
      BY <1>2, Zenon DEF ClockInv
    <3>1. height' \in Nat /\ epoch' \in Nat /\ 1 <= epoch' /\ phase' \in {"begin", "deliver"}
      BY <1>0, <1>2, <2>1
    <3>2. height' <= StartIn(geometry', epoch' + 1) /\ height' < StartIn(geometry', epoch' + 1)
      <4>1. StartIn(geometry', n + 1) \in Nat
        BY <1>0, <2>3, GeoStart
      <4> QED
        BY <1>0, <1>2, <2>1, <2>4, <4>1
    <3>3. epochStart' = StartIn(geometry', epoch') /\ mirror' = LengthIn(geometry', epoch')
          /\ Geo(geometry', epoch')
      BY <2>1, <2>3, <2>4
    <3>4. \A k \in DOMAIN lengths' : k \in Nat /\ k > epoch' /\ lengths'[k] \in Lengths
      BY <2>1, <2>5
    <3> QED
      BY <3>0, <3>1, <3>2, <3>3, <3>4 DEF ClockInv
  <2> QED
    BY <1>0, <1>2, <2>1, <2>2, <2>3, <2>6
<1> QED
  BY <1>2, <1>3, <1>4

\* A family that a step leaves alone.
LEMMA FamilyFrame ==
  ASSUME NEW f, FamilyInv(f), LastClosed' = LastClosed, lost' = lost,
         versions'[f] = versions[f], index'[f] = index[f], scheduled'[f] = scheduled[f]
  PROVE  FamilyInv(f)'
  BY DEF FamilyInv

\* The bindings and the spans of the closed epochs, when versions stay.
LEMMA RecordsFrame ==
  ASSUME ClockInv, RecordsInv, SpansKept, LastClosed' = LastClosed,
         UNCHANGED <<versions, finalized, stamps>>
  PROVE  RecordsInv'
<1>0. LastClosed \in Nat /\ LastClosed <= epoch /\ epoch \in Nat
  BY ClosedRange DEF ClockInv
<1>2. ASSUME NEW e \in 1 .. LastClosed
      PROVE  /\ StartIn(geometry', e) = StartIn(geometry, e)
             /\ StartIn(geometry', e + 1) = StartIn(geometry, e + 1)
             /\ LengthIn(geometry', e) = LengthIn(geometry, e)
  <2>1. /\ e \in Nat /\ 1 <= e /\ e <= epoch /\ e <= epoch + 1
        /\ e + 1 \in Nat /\ 1 <= e + 1 /\ e + 1 <= epoch + 1
    BY <1>0
  <2> QED
    BY <2>1 DEF SpansKept
<1>3. ASSUME NEW e \in DOMAIN finalized PROVE SpanKept(e)'
  <2>1. e \in 1 .. LastClosed /\ SpanKept(e)
    BY DEF RecordsInv
  <2> QED
    BY <1>2, <2>1 DEF SpanKept
<1>4. StampsHold'
  <2>1. ASSUME NEW e \in DOMAIN stamps PROVE SettlementWindowBlocks(e)' = SettlementWindowBlocks(e)
    <3>1. e \in 1 .. LastClosed
      BY DEF RecordsInv
    <3>2. LengthIn(geometry, e)' = LengthIn(geometry, e)
      BY <1>2, <3>1
    <3>3. EpochLengthForEpoch(e)' = EpochLengthForEpoch(e)
      BY <3>2 DEF EpochLengthForEpoch, LengthIn
    <3> QED
      BY <3>3 DEF SettlementWindowBlocks, SettlementParamsForTarget
  <2>2. StampsHold
    BY DEF RecordsInv
  <2> QED
    BY <2>1, <2>2 DEF StampsHold, RewardConfigForTarget, DistributionModeForTarget,
                      SettlementParamsForTarget
<1> QED
  BY <1>3, <1>4 DEF RecordsInv

-----------------------------------------------------------------------------
(* EndBlock.                                                               *)

\* The adjacent edge of the reward history holds at every row.
LEMMA RewardEdges ==
  ASSUME NEW top, Numbered(versions["reward"], top), NEW k \in DOMAIN versions["reward"]
  PROVE  RewardEdgeOK(k)
<1> DEFINE h == versions["reward"]
<1>0. Keyed(h, top) /\ Numbered(h, top) /\ k \in DOMAIN h
  BY DEF Numbered
<1>1. CASE k = 1
  <2>1. {j \in DOMAIN h : j < k} = {}
    BY <1>0, <1>1 DEF Keyed
  <2> QED
    BY <2>1 DEF RewardEdgeOK
<1>2. CASE k # 1
  <2> HIDE DEF h
  <2>1. Max({j \in DOMAIN h : j < k}) = KeyAtOrBefore(h, k - 1)
    BY <1>0, <1>2, KeyBefore
  <2>2. h[k].version = h[KeyAtOrBefore(h, k - 1)].version + 1
    BY <1>0, <1>2, NumberedEdge
  <2> QED
    BY <2>1, <2>2 DEF RewardEdgeOK, h
<1> QED
  BY <1>1, <1>2

\* The number after the latest one has no index entry.
LEMMA NotIndexedYet ==
  ASSUME NEW f, NEW h, NEW ix, NEW gone, NEW top, Numbered(h, top), Indexed(f, h, ix, gone)
  PROVE  h[LatestKey(h)].version + 1 \notin DOMAIN ix
<1> DEFINE t == h[LatestKey(h)].version
<1>1. t \in Nat /\ \A k \in DOMAIN h : h[k].version \in Nat /\ h[k].version <= t
  BY NumberedTop DEF Numbered
<1> HIDE DEF t
<1>2. ASSUME t + 1 \in DOMAIN ix PROVE FALSE
  <2>1. ix[t + 1] \in DOMAIN h /\ h[ix[t + 1]].version = t + 1
    BY <1>2 DEF Indexed
  <2> QED
    BY <1>1, <2>1
<1> QED
  BY <1>2 DEF t

\* Every check of a close passes, but for the mode of a settlement.
LEMMA CloseChecks ==
  ASSUME ClockInv, FamiliesInv, phase = "deliver"
  PROVE  /\ RewardResolves(epoch) /\ RewardScheduleOK(epoch + 1)
         /\ ModeResolves(epoch) /\ AnchorOK("settlement")
         /\ \A f \in MiningFamilies : MiningScheduleOK(f, epoch + 1)
         /\ \A f \in Families : PromotionOK(f, epoch + 1)
<1> DEFINE n == epoch + 1
           b == BindingEpoch(epoch)
<1>0. LastClosed = epoch - 1 /\ LastClosed + 1 = epoch /\ epoch \in Nat /\ 1 <= epoch
  BY ClosedRange DEF ClockInv
<1>1. b \in Nat /\ 1 <= b
  BY <1>0, BindingEpochs
<1>2. ASSUME NEW f \in Families
      PROVE  /\ Numbered(versions[f], epoch) /\ Keyed(versions[f], epoch) /\ AnchorOK(f)
             /\ Indexed(f, versions[f], index[f], lost)
             /\ \E e : DOMAIN scheduled[f] \subseteq {e}
             /\ \A k \in DOMAIN scheduled[f] : k \in Nat /\ k > epoch
  <2>1. FamilyInv(f)
    BY DEF FamiliesInv
  <2>2. /\ Numbered(versions[f], epoch) /\ Indexed(f, versions[f], index[f], lost)
        /\ \E e : DOMAIN scheduled[f] \subseteq {e}
        /\ \A k \in DOMAIN scheduled[f] : k \in Nat /\ k > epoch
    BY <1>0, <2>1 DEF FamilyInv
  <2> QED
    BY <2>2 DEF Numbered, Keyed, AnchorOK
<1>3. /\ "reward" \in Families /\ "mode" \in Families /\ "settlement" \in Families
      /\ MiningFamilies \subseteq Families
  BY DEF Families, MiningFamilies
<1>4. RewardResolves(epoch)
  <2>1. KeyAtOrBefore(versions["reward"], b) \in DOMAIN versions["reward"]
    BY <1>1, <1>2, <1>3, SeekFinds
  <2>2. RewardEdgeOK(KeyAtOrBefore(versions["reward"], b))
    BY <1>2, <1>3, <2>1, RewardEdges
  <2> QED
    BY <1>2, <1>3, <2>2 DEF RewardResolves
<1>5. RewardScheduleOK(n)
  BY DEF RewardScheduleOK, FamiliesInv
<1>6. ModeResolves(epoch)
  <2> DEFINE h == versions["mode"]
  <2>1. Tiles(h) /\ Keyed(h, epoch)
    BY <1>2, <1>3 DEF FamiliesInv
  <2>2. {k \in DOMAIN h : k <= b /\ h[k].until \notin 1 .. b} = {KeyAtOrBefore(h, b)}
    <3> HIDE DEF h, b
    <3> QED
      BY <1>1, <2>1, TilesCover
  <2>3. h[KeyAtOrBefore(h, b)].until \notin 1 .. b
    BY <2>2
  <2> QED
    BY <1>2, <1>3, <2>3 DEF ModeResolves, DistributionModeForTarget
<1>7. ASSUME NEW f \in MiningFamilies PROVE MiningScheduleOK(f, n)
  <2>1. f \in Families
    BY <1>3
  <2>2. PICK e : DOMAIN scheduled[f] \subseteq {e}
    BY <1>2, <2>1
  <2>3. Cardinality(DOMAIN scheduled[f]) <= 1
    <3>1. IsFiniteSet({e}) /\ Cardinality({e}) = 1
      BY FS_Singleton
    <3> QED
      BY <2>2, <3>1, FS_Subset
  <2>4. \A k \in DOMAIN scheduled[f] : k >= n
    BY <1>0, <1>2, <2>1
  <2> QED
    BY <2>3, <2>4 DEF MiningScheduleOK
<1>8. ASSUME NEW f \in Families PROVE PromotionOK(f, n)
  <2> DEFINE h == versions[f]
  <2>1. LatestKey(h) \in DOMAIN h /\ LatestKey(h) \in Nat /\ LatestKey(h) <= epoch
    BY <1>2, NumberedTop
  <2>2. n > LatestKey(h)
    BY <1>0, <2>1
  <2>3. f = "reward" => RewardEdgeOK(LatestKey(h))
    BY <1>2, <2>1, RewardEdges
  <2>4. f = "mode" => LatestVersion(f).until = 0
    BY DEF FamiliesInv, Tiles, LatestVersion
  <2>5. LatestVersion(f).version + 1 \notin DOMAIN index[f]
    BY <1>2, NotIndexedYet DEF LatestVersion
  <2> QED
    BY <2>2, <2>3, <2>4, <2>5 DEF PromotionOK
<1> QED
  BY <1>2, <1>3, <1>4, <1>5, <1>6, <1>7, <1>8

\* EndBlock fails for one reason only.
LEMMA EndFails ==
  ASSUME ClockInv, FamiliesInv, phase = "deliver", NEW entitled \in BOOLEAN,
         ~ EndBlockOK(entitled)
  PROVE  /\ height = EpochEndHeight(epoch)
         /\ DistributionModeForTarget(epoch).value = ProtocolSelection
<1>1. EpochAnchored
  BY AnchorHolds
<1>2. height <= EpochEndHeight(epoch)
  <2>1. EpochEndHeight(epoch) = StartIn(geometry, epoch + 1) - 1
    BY EpochsIn
  <2>2. height < StartIn(geometry, epoch + 1) /\ height \in Nat
    BY DEF ClockInv
  <2>3. StartIn(geometry, epoch + 1) \in Nat
    <3>1. Geo(geometry, epoch) /\ epoch + 1 \in Nat /\ 1 <= epoch + 1
      BY DEF ClockInv
    <3> QED
      BY <3>1, GeoStart
  <2> QED
    BY <2>1, <2>2, <2>3
<1>3. height = EpochEndHeight(epoch) /\ ~ CloseOK(entitled)
  BY <1>1, <1>2 DEF EndBlockOK
<1>4. ~ MaterializeOK
  BY <1>3, CloseChecks DEF CloseOK
<1>5. DistributionModeForTarget(epoch).value # Trusted
  BY <1>4, CloseChecks DEF MaterializeOK
<1>6. DistributionModeForTarget(epoch).value \in Values["mode"]
  <2> DEFINE h == versions["mode"]
             b == BindingEpoch(epoch)
  <2>1. FamilyInv("mode") /\ epoch \in Nat /\ 1 <= epoch
    BY DEF FamiliesInv, Families, ClockInv
  <2>2. h \in [DOMAIN h -> Rows("mode")] /\ Keyed(h, LastClosed + 1)
    BY <2>1 DEF FamilyInv, Numbered
  <2>3. KeyAtOrBefore(h, b) \in DOMAIN h
    <3>1. b \in Nat /\ 1 <= b
      BY <2>1, BindingEpochs
    <3> QED
      BY <2>2, <3>1, SeekFinds
  <2> HIDE DEF h, b
  <2>4. h[KeyAtOrBefore(h, b)].value \in Values["mode"]
    BY <2>2, <2>3 DEF Rows
  <2> QED
    BY <2>4 DEF DistributionModeForTarget, h, b
<1> QED
  BY <1>3, <1>5, <1>6, HistoriesAssumption

\* What the versions of the families do in a step.
VersionsStep(n) ==
  \A f \in Families :
    \/ versions'[f] = versions[f]
    \/ /\ Grows(versions[f], versions'[f], n)
       /\ f # "mode" => \A k \in DOMAIN versions[f] : versions'[f][k] = versions[f][k]

\* Such a step leaves alone what a target bound by the current epoch is paid under.
LEMMA BindingsStay ==
  ASSUME epoch \in Nat, 1 <= epoch, \A f \in Families : Numbered(versions[f], epoch),
         VersionsStep(epoch + 1), NEW t \in Nat, 1 <= t, epoch >= t - 2
  PROVE  /\ RewardConfigForTarget(t)' = RewardConfigForTarget(t)
         /\ DistributionModeForTarget(t).version' = DistributionModeForTarget(t).version
         /\ SettlementParamsForTarget(t)' = SettlementParamsForTarget(t)
<1> DEFINE n == epoch + 1
           b == BindingEpoch(t)
<1>1. b \in Nat /\ 1 <= b /\ b < n /\ n \in Nat /\ epoch < n
  BY BindingEpochs
<1>2. b' = b
  BY DEF BindingEpoch
<1>3. ASSUME NEW f \in Families
      PROVE  /\ KeyAtOrBefore(versions'[f], b) = KeyAtOrBefore(versions[f], b)
             /\ versions'[f][KeyAtOrBefore(versions[f], b)].version
                  = versions[f][KeyAtOrBefore(versions[f], b)].version
             /\ f # "mode" => versions'[f][KeyAtOrBefore(versions[f], b)]
                  = versions[f][KeyAtOrBefore(versions[f], b)]
  <2> DEFINE h == versions[f]
             g == versions'[f]
  <2>1. Numbered(h, epoch) /\ (g = h \/ Grows(h, g, n))
    BY DEF VersionsStep
  <2>2. f # "mode" => \A k \in DOMAIN h : g[k] = h[k]
    BY DEF VersionsStep
  <2> HIDE DEF h, g, b, n
  <2>3. /\ KeyAtOrBefore(g, b) = KeyAtOrBefore(h, b)
        /\ KeyAtOrBefore(h, b) \in DOMAIN h
        /\ g[KeyAtOrBefore(h, b)].version = h[KeyAtOrBefore(h, b)].version
    BY <1>1, <2>1, BindingKept
  <2> QED
    BY <2>2, <2>3 DEF h, g
<1>4. "reward" \in Families /\ "mode" \in Families /\ "settlement" \in Families
  BY DEF Families
<1> HIDE DEF b
<1>5. RewardConfigForTarget(t)' = RewardConfigForTarget(t)
  BY <1>2, <1>3, <1>4 DEF RewardConfigForTarget, b
<1>6. SettlementParamsForTarget(t)' = SettlementParamsForTarget(t)
  BY <1>2, <1>3, <1>4 DEF SettlementParamsForTarget, b
<1>7. DistributionModeForTarget(t).version' = DistributionModeForTarget(t).version
  BY <1>2, <1>3, <1>4 DEF DistributionModeForTarget, b
<1> QED
  BY <1>5, <1>6, <1>7

\* The promotions of a close keep the families.
LEMMA CloseFamilies ==
  ASSUME ClockInv, FamiliesInv, phase = "deliver", PromoteScheduled(epoch + 1),
         LastClosed' = epoch, epoch' = epoch, lost' = lost
  PROVE  FamiliesInv' /\ VersionsStep(epoch + 1)
<1> DEFINE n == epoch + 1
<1>0. LastClosed = epoch - 1 /\ LastClosed + 1 = epoch /\ epoch \in Nat /\ n \in Nat /\ epoch < n
  BY ClosedRange DEF ClockInv
<1>1. /\ versions' = [f \in Families |-> IF Due(f, n) THEN Promoted(f, n) ELSE versions[f]]
      /\ index' = [f \in Families |-> IF Due(f, n) THEN IndexedVersion(f, n) ELSE index[f]]
      /\ scheduled' = [f \in Families |->
           IF Due(f, n) THEN Without(scheduled[f], n) ELSE scheduled[f]]
  BY DEF PromoteScheduled
<1>2. ASSUME NEW f \in Families
      PROVE  /\ Numbered(versions[f], epoch) /\ versions[f] \in [DOMAIN versions[f] -> Rows(f)]
             /\ Indexed(f, versions[f], index[f], lost)
             /\ \E e : DOMAIN scheduled[f] \subseteq {e}
             /\ \A k \in DOMAIN scheduled[f] : k \in Nat /\ k > epoch /\ scheduled[f][k] \in Values[f]
             /\ f = "mode" => Tiles(versions[f])
  <2>1. FamilyInv(f) /\ Tiles(versions["mode"])
    BY DEF FamiliesInv
  <2> QED
    BY <1>0, <2>1 DEF FamilyInv
<1>3. ASSUME NEW f \in Families, Due(f, n)
      PROVE  /\ Grows(versions[f], Promoted(f, n), n)
             /\ Promoted(f, n) \in [DOMAIN Promoted(f, n) -> Rows(f)]
             /\ f = "mode" => Tiles(Promoted(f, n))
             /\ f # "mode" => \A k \in DOMAIN versions[f] : Promoted(f, n)[k] = versions[f][k]
  <2>1. scheduled[f][n] \in Values[f]
    BY <1>2, <1>3 DEF Due
  <2> HIDE DEF n
  <2> QED
    BY <1>0, <1>2, <2>1, PromotionGrows
<1>4. ASSUME NEW f \in Families
      PROVE  /\ DOMAIN scheduled'[f] \subseteq DOMAIN scheduled[f]
             /\ \A k \in DOMAIN scheduled'[f] : k # n /\ scheduled'[f][k] = scheduled[f][k]
  <2>1. CASE Due(f, n)
    <3>1. scheduled'[f] = Without(scheduled[f], n)
      BY <1>1, <2>1
    <3> QED
      BY <3>1 DEF Without, Restrict
  <2>2. CASE ~ Due(f, n)
    <3>1. scheduled'[f] = scheduled[f]
      BY <1>1, <2>2
    <3> QED
      BY <2>2, <3>1 DEF Due
  <2> QED
    BY <2>1, <2>2
<1>5. ASSUME NEW f \in Families PROVE FamilyInv(f)'
  <2>1. \E e : DOMAIN scheduled'[f] \subseteq {e}
    BY <1>2, <1>4
  <2>2. \A k \in DOMAIN scheduled'[f] : k \in Nat /\ k > n /\ scheduled'[f][k] \in Values[f]
    <3> SUFFICES ASSUME NEW k \in DOMAIN scheduled'[f]
                 PROVE  k \in Nat /\ k > n /\ scheduled'[f][k] \in Values[f]
      OBVIOUS
    <3>1. k \in DOMAIN scheduled[f] /\ k # n /\ scheduled'[f][k] = scheduled[f][k]
      BY <1>4
    <3>2. k \in Nat /\ k > epoch /\ scheduled[f][k] \in Values[f]
      BY <1>2, <3>1
    <3> QED
      BY <1>0, <3>1, <3>2
  <2>3. /\ Numbered(versions'[f], n) /\ versions'[f] \in [DOMAIN versions'[f] -> Rows(f)]
        /\ Indexed(f, versions'[f], index'[f], lost)
    <3>1. CASE Due(f, n)
      <4> DEFINE h == versions[f]
                 g == Promoted(f, n)
      <4>1. versions'[f] = g /\ index'[f] = IndexedVersion(f, n)
        BY <1>1, <3>1
      <4>2. Grows(h, g, n) /\ g \in [DOMAIN g -> Rows(f)] /\ Numbered(h, epoch)
            /\ Indexed(f, h, index[f], lost)
        BY <1>2, <1>3, <3>1
      <4>3. IndexedVersion(f, n) = With(index[f], h[LatestKey(h)].version + 1, n)
        BY DEF IndexedVersion, LatestVersion
      <4> HIDE DEF h, g, n
      <4>4. Numbered(g, n)
        BY <1>0, <4>2, NumberedGrows
      <4>5. Indexed(f, g, With(index[f], h[LatestKey(h)].version + 1, n), lost)
        BY <1>0, <4>2, IndexGrows
      <4> QED
        BY <4>1, <4>2, <4>3, <4>4, <4>5
    <3>2. CASE ~ Due(f, n)
      <4>1. versions'[f] = versions[f] /\ index'[f] = index[f]
        BY <1>1, <3>2
      <4>2. Numbered(versions[f], n)
        BY <1>0, <1>2, NumberedUpTo
      <4> QED
        BY <1>2, <4>1, <4>2
    <3> QED
      BY <3>1, <3>2
  <2> QED
    BY <2>1, <2>2, <2>3 DEF FamilyInv
<1>6. Tiles(versions'["mode"])
  <2>1. "mode" \in Families
    BY DEF Families
  <2>2. CASE Due("mode", n)
    BY <1>1, <1>3, <2>1, <2>2
  <2>3. CASE ~ Due("mode", n)
    BY <1>1, <1>2, <2>1, <2>3
  <2> QED
    BY <2>2, <2>3
<1>7. DOMAIN scheduled'["reward"] \subseteq {epoch' + 1}
  <2>1. "reward" \in Families
    BY DEF Families
  <2> QED
    BY <1>4, <2>1 DEF FamiliesInv
<1>8. DOMAIN index' = Families /\ DOMAIN scheduled' = Families
  BY <1>1
<1>9. VersionsStep(n)
  <2> SUFFICES ASSUME NEW f \in Families
               PROVE  \/ versions'[f] = versions[f]
                      \/ /\ Grows(versions[f], versions'[f], n)
                         /\ f # "mode" => \A k \in DOMAIN versions[f] : versions'[f][k] = versions[f][k]
    BY DEF VersionsStep
  <2>1. CASE Due(f, n)
    <3>1. versions'[f] = Promoted(f, n)
      BY <1>1, <2>1
    <3> QED
      BY <1>3, <2>1, <3>1
  <2>2. CASE ~ Due(f, n)
    BY <1>1, <2>2
  <2> QED
    BY <2>1, <2>2
<1> QED
  BY <1>5, <1>6, <1>7, <1>8, <1>9 DEF FamiliesInv

\* The record of the epoch that closes joins the archives.
LEMMA CloseRecords ==
  ASSUME ClockInv, FamiliesInv, RecordsInv, phase = "deliver", LastClosed' = epoch,
         geometry' = geometry, VersionsStep(epoch + 1), FinalizeEpoch,
         MaterializeFinalizedEpoch \/ stamps' = stamps
  PROVE  RecordsInv'
<1>0. LastClosed = epoch - 1 /\ LastClosed + 1 = epoch /\ epoch \in Nat /\ 1 <= epoch
      /\ epochStart = StartIn(geometry, epoch) /\ mirror = LengthIn(geometry, epoch)
  BY ClosedRange DEF ClockInv
<1>1. ASSUME NEW f \in Families PROVE Numbered(versions[f], epoch)
  BY <1>0 DEF FamiliesInv, FamilyInv
<1>2. ASSUME NEW e \in 1 .. epoch
      PROVE  /\ RewardConfigForTarget(e)' = RewardConfigForTarget(e)
             /\ DistributionModeForTarget(e).version' = DistributionModeForTarget(e).version
             /\ SettlementParamsForTarget(e)' = SettlementParamsForTarget(e)
             /\ SettlementWindowBlocks(e)' = SettlementWindowBlocks(e)
  <2>1. e \in Nat /\ 1 <= e /\ epoch >= e - 2
    BY <1>0
  <2>2. /\ RewardConfigForTarget(e)' = RewardConfigForTarget(e)
        /\ DistributionModeForTarget(e).version' = DistributionModeForTarget(e).version
        /\ SettlementParamsForTarget(e)' = SettlementParamsForTarget(e)
    BY <1>0, <1>1, <2>1, BindingsStay
  <2>3. EpochLengthForEpoch(e)' = EpochLengthForEpoch(e)
    BY DEF EpochLengthForEpoch
  <2> QED
    BY <2>2, <2>3 DEF SettlementWindowBlocks
<1>3. \A e : e \in 1 .. epoch <=> e \in 1 .. epoch - 1 \/ e = epoch
  BY <1>0
<1> DEFINE r == [start |-> epochStart, end |-> EpochEndHeight(epoch), length |-> mirror,
                 reward |-> RewardConfigForTarget(epoch).version]
<1>4. finalized' = With(finalized, epoch, r)
  BY DEF FinalizeEpoch
<1>5. /\ r.start = StartIn(geometry, epoch) /\ r.end = StartIn(geometry, epoch + 1) - 1
      /\ r.length = LengthIn(geometry, epoch) /\ r.reward = RewardConfigForTarget(epoch).version
  BY <1>0, EpochsIn
<1> HIDE DEF r
<1>6. DOMAIN finalized = 1 .. epoch - 1 /\ DOMAIN stamps \subseteq 1 .. epoch - 1
  BY <1>0 DEF RecordsInv
<1>7. /\ DOMAIN finalized' = 1 .. epoch
      /\ finalized'[epoch] = r
      /\ \A e \in 1 .. epoch - 1 : finalized'[e] = finalized[e]
  <2>1. epoch \notin 1 .. epoch - 1
    BY <1>0
  <2>2. /\ DOMAIN finalized' = DOMAIN finalized \cup {epoch} /\ finalized'[epoch] = r
        /\ \A e \in DOMAIN finalized : e # epoch => finalized'[e] = finalized[e]
    BY <1>4 DEF With
  <2> QED
    BY <1>3, <1>6, <2>1, <2>2
<1>8. ASSUME NEW e \in 1 .. epoch
      PROVE  SpanKept(e)' /\ finalized'[e].reward = RewardConfigForTarget(e).version
  <2>1. CASE e = epoch
    BY <1>5, <1>7, <2>1 DEF SpanKept
  <2>2. CASE e \in 1 .. epoch - 1
    <3>1. SpanKept(e) /\ finalized[e].reward = RewardConfigForTarget(e).version
      BY <1>6, <2>2 DEF RecordsInv, StampsHold
    <3> QED
      BY <1>7, <2>2, <3>1 DEF SpanKept
  <2> QED
    BY <1>3, <2>1, <2>2
<1> DEFINE m == [mode |-> DistributionModeForTarget(epoch).version,
                 settlement |-> SettlementParamsForTarget(epoch).version,
                 window |-> SettlementWindowBlocks(epoch)]
<1>9. /\ DOMAIN stamps' \subseteq 1 .. epoch
      /\ \A e \in DOMAIN stamps' :
           /\ stamps'[e].mode = DistributionModeForTarget(e).version
           /\ stamps'[e].settlement = SettlementParamsForTarget(e).version
           /\ stamps'[e].window = SettlementWindowBlocks(e)
  <2>0. \A e \in DOMAIN stamps :
          /\ stamps[e].mode = DistributionModeForTarget(e).version
          /\ stamps[e].settlement = SettlementParamsForTarget(e).version
          /\ stamps[e].window = SettlementWindowBlocks(e)
    BY DEF RecordsInv, StampsHold
  <2>1. CASE stamps' = stamps
    BY <1>3, <1>6, <2>0, <2>1
  <2>2. CASE MaterializeFinalizedEpoch
    <3>1. stamps' = With(stamps, epoch, m)
      BY <2>2 DEF MaterializeFinalizedEpoch
    <3>2. /\ m.mode = DistributionModeForTarget(epoch).version
          /\ m.settlement = SettlementParamsForTarget(epoch).version
          /\ m.window = SettlementWindowBlocks(epoch)
      OBVIOUS
    <3> HIDE DEF m
    <3>3. /\ DOMAIN stamps' = DOMAIN stamps \cup {epoch} /\ stamps'[epoch] = m
          /\ \A e \in DOMAIN stamps : e # epoch => stamps'[e] = stamps[e]
      BY <3>1 DEF With
    <3>4. DOMAIN stamps' \subseteq 1 .. epoch
      BY <1>3, <1>6, <3>3
    <3>5. ASSUME NEW e \in DOMAIN stamps'
          PROVE  /\ stamps'[e].mode = DistributionModeForTarget(e).version
                 /\ stamps'[e].settlement = SettlementParamsForTarget(e).version
                 /\ stamps'[e].window = SettlementWindowBlocks(e)
      <4>1. CASE e = epoch
        BY <3>2, <3>3, <4>1
      <4>2. CASE e # epoch
        BY <2>0, <3>3, <4>2
      <4> QED
        BY <4>1, <4>2
    <3> QED
      BY <3>4, <3>5
  <2> QED
    BY <2>1, <2>2
<1>10. StampsHold'
  <2>1. \A e \in DOMAIN finalized' : finalized'[e].reward = RewardConfigForTarget(e).version'
    BY <1>2, <1>7, <1>8
  <2>2. ASSUME NEW e \in DOMAIN stamps'
        PROVE  /\ stamps'[e].mode = DistributionModeForTarget(e).version'
               /\ stamps'[e].settlement = SettlementParamsForTarget(e).version'
               /\ stamps'[e].window = SettlementWindowBlocks(e)'
    BY <1>2, <1>9
  <2> QED
    BY <2>1, <2>2 DEF StampsHold
<1> QED
  BY <1>7, <1>8, <1>9, <1>10 DEF RecordsInv


-----------------------------------------------------------------------------
(* The invariant.                                                          *)

\* BeginBlock keeps the invariant.
LEMMA BeginKeeps ==
  ASSUME HistoriesInv, BeginBlock
  PROVE  HistoriesInv'
<1>0. ClockInv /\ FamiliesInv /\ RecordsInv
  BY DEF HistoriesInv
<1>1. /\ ClockInv' /\ SpansKept /\ LastClosed' = LastClosed
      /\ halted' = halted /\ ~ halted
      /\ \/ epoch' = epoch
         \/ epoch' = epoch + 1 /\ LastClosed = epoch
      /\ versions' = versions /\ index' = index /\ scheduled' = scheduled
      /\ finalized' = finalized /\ stamps' = stamps /\ lost' = lost
  BY <1>0, BeginClock DEF familyVars, recordVars
<1>2. ASSUME NEW f \in Families PROVE FamilyInv(f)'
  <2>1. FamilyInv(f)
    BY <1>0 DEF FamiliesInv
  <2> QED
    BY <1>1, <2>1, FamilyFrame
<1>3. DOMAIN scheduled'["reward"] \subseteq {epoch' + 1}
  <2>1. CASE epoch' = epoch
    BY <1>0, <1>1, <2>1 DEF FamiliesInv
  <2>2. CASE LastClosed = epoch
    <3>1. "reward" \in Families
      BY DEF Families
    <3>2. \A k \in DOMAIN scheduled["reward"] : k \in Nat /\ k > epoch + 1 /\ k = epoch + 1
      BY <1>0, <2>2, <3>1 DEF FamiliesInv, FamilyInv
    <3>3. DOMAIN scheduled["reward"] = {}
      BY <1>0, <3>2 DEF ClockInv
    <3> QED
      BY <1>1, <3>3
  <2> QED
    BY <1>1, <2>1, <2>2
<1>4. FamiliesInv'
  BY <1>0, <1>1, <1>2, <1>3 DEF FamiliesInv
<1>5. RecordsInv'
  BY <1>0, <1>1, RecordsFrame
<1>6. HaltsOnlyForSelection'
  BY <1>1 DEF HaltsOnlyForSelection
<1> QED
  BY <1>1, <1>4, <1>5, <1>6 DEF HistoriesInv

\* A step that keeps the clock, the histories and the archives.
LEMMA QuietStep ==
  ASSUME HistoriesInv, LastClosed' = LastClosed, geometry' = geometry, epoch' = epoch,
         UNCHANGED <<familyVars, recordVars, lost>>
  PROVE  FamiliesInv' /\ RecordsInv'
<1>0. ClockInv /\ FamiliesInv /\ RecordsInv
  BY DEF HistoriesInv
<1>1. /\ versions' = versions /\ index' = index /\ scheduled' = scheduled
      /\ finalized' = finalized /\ stamps' = stamps /\ lost' = lost
  BY DEF familyVars, recordVars
<1>2. ASSUME NEW f \in Families PROVE FamilyInv(f)'
  <2>1. FamilyInv(f)
    BY <1>0 DEF FamiliesInv
  <2> QED
    BY <1>1, <2>1, FamilyFrame
<1>3. FamiliesInv'
  BY <1>0, <1>1, <1>2 DEF FamiliesInv
<1>4. SpansKept
  BY DEF SpansKept
<1>5. RecordsInv'
  BY <1>0, <1>1, <1>4, RecordsFrame
<1> QED
  BY <1>3, <1>5

\* EndBlock keeps the invariant: it halts for a selection mode, moves on, or
\* closes the epoch.
LEMMA EndKeeps ==
  ASSUME HistoriesInv, NEW entitled \in BOOLEAN, EndBlock(entitled)
  PROVE  HistoriesInv' /\ VersionsStep(epoch + 1)
<1>0. ClockInv /\ FamiliesInv /\ RecordsInv
  BY DEF HistoriesInv
<1>1. /\ ~ halted /\ phase = "deliver" /\ epoch' = epoch /\ epochStart' = epochStart
      /\ geometry' = geometry /\ lengths' = lengths /\ lost' = lost
  BY DEF EndBlock
<1>2. /\ LastClosed = epoch - 1 /\ epoch \in Nat /\ 1 <= epoch /\ Geo(geometry, epoch)
      /\ height \in Nat /\ height < StartIn(geometry, epoch + 1)
      /\ mirror = LengthIn(geometry, epoch) /\ epochStart = StartIn(geometry, epoch)
      /\ \A k \in DOMAIN lengths : k \in Nat /\ k > epoch /\ lengths[k] \in Lengths
  BY <1>0, <1>1, ClosedRange DEF ClockInv
<1>3. /\ EpochEndHeight(epoch) = StartIn(geometry, epoch + 1) - 1
      /\ StartIn(geometry, epoch + 1) \in Nat
      /\ EpochLengthForEpoch(epoch) = LengthIn(geometry, epoch)
  BY <1>2, EpochsIn, GeoStart
<1>4. CASE ~ EndBlockOK(entitled)
  <2>1. /\ halted' = TRUE /\ height' = height /\ phase' = phase /\ mirror' = mirror
        /\ UNCHANGED <<familyVars, recordVars>>
    BY <1>4 DEF EndBlock
  <2>2. LastClosed' = LastClosed
    BY <1>1, <2>1 DEF LastClosed
  <2>3. FamiliesInv' /\ RecordsInv'
    BY <1>1, <2>1, <2>2, QuietStep
  <2>4. ClockInv'
    BY <1>0, <1>1, <2>1 DEF ClockInv
  <2>5. HaltsOnlyForSelection'
    <3>1. /\ height = EpochEndHeight(epoch)
          /\ DistributionModeForTarget(epoch).value = ProtocolSelection
      BY <1>0, <1>1, <1>4, EndFails
    <3>2. EpochEndHeight(epoch)' = EpochEndHeight(epoch)
      BY <1>1 DEF EpochEndHeight, EpochStartHeight, EpochStartFrom
    <3>3. DistributionModeForTarget(epoch)' = DistributionModeForTarget(epoch)
      BY <1>1, <2>1 DEF DistributionModeForTarget, familyVars
    <3> QED
      BY <1>1, <2>1, <3>1, <3>2, <3>3 DEF HaltsOnlyForSelection
  <2>6. VersionsStep(epoch + 1)
    BY <2>1 DEF VersionsStep, familyVars
  <2> QED
    BY <2>3, <2>4, <2>5, <2>6 DEF HistoriesInv
<1>5. CASE EndBlockOK(entitled)
  <2>1. /\ \/ height = EpochEndHeight(epoch) /\ CloseEpoch(entitled)
           \/ height < EpochEndHeight(epoch) /\ UNCHANGED <<mirror, familyVars, recordVars>>
        /\ phase' = "begin" /\ height' = height + 1 /\ halted' = halted
    BY <1>5 DEF EndBlock
  <2>2. HaltsOnlyForSelection'
    BY <1>1, <2>1 DEF HaltsOnlyForSelection
  <2>3. ASSUME mirror' = mirror PROVE ClockInv'
    <3>1. halted' \in BOOLEAN
      BY <1>0, <2>1, Zenon DEF ClockInv
    <3>2. height' \in Nat /\ height' <= StartIn(geometry', epoch' + 1)
      BY <1>1, <1>2, <1>3, <2>1
    <3> QED
      BY <1>1, <1>2, <2>1, <2>3, <3>1, <3>2 DEF ClockInv
  <2>4. CASE height < EpochEndHeight(epoch) /\ UNCHANGED <<mirror, familyVars, recordVars>>
    <3>1. LastClosed' = LastClosed
      <4>1. height' # StartIn(geometry', epoch' + 1)
        BY <1>1, <1>2, <1>3, <2>1, <2>4
      <4> QED
        BY <1>1, <1>2, <4>1 DEF LastClosed
    <3>2. FamiliesInv' /\ RecordsInv'
      BY <1>1, <2>4, <3>1, QuietStep
    <3>3. VersionsStep(epoch + 1)
      BY <2>4 DEF VersionsStep, familyVars
    <3> QED
      BY <2>2, <2>3, <2>4, <3>2, <3>3 DEF HistoriesInv
  <2>5. CASE height = EpochEndHeight(epoch) /\ CloseEpoch(entitled)
    <3>1. /\ FinalizeEpoch /\ PromoteScheduled(epoch + 1)
          /\ MaterializeFinalizedEpoch \/ stamps' = stamps
      BY <2>5 DEF CloseEpoch
    <3>2. mirror' = mirror
      BY <1>2, <1>3, <3>1 DEF FinalizeEpoch
    <3>3. LastClosed' = epoch
      <4>1. height' = StartIn(geometry', epoch' + 1)
        BY <1>1, <1>2, <1>3, <2>1, <2>5
      <4> QED
        BY <1>1, <2>1, <4>1 DEF LastClosed
    <3>4. FamiliesInv' /\ VersionsStep(epoch + 1)
      BY <1>0, <1>1, <3>1, <3>3, CloseFamilies
    <3>5. RecordsInv'
      BY <1>0, <1>1, <3>1, <3>3, <3>4, CloseRecords
    <3> QED
      BY <2>2, <2>3, <3>2, <3>4, <3>5 DEF HistoriesInv
  <2> QED
    BY <2>1, <2>4, <2>5
<1> QED
  BY <1>4, <1>5

\* Scheduling a length touches the schedule of the geometry only.
LEMMA ScheduleLengthKeeps ==
  ASSUME HistoriesInv, NEW e \in Epochs, NEW length \in Lengths, ScheduleEpochLength(e, length)
  PROVE  HistoriesInv'
<1>0. ClockInv /\ epoch \in Nat
  BY DEF HistoriesInv, ClockInv
<1>1. /\ ~ halted /\ height' = height /\ phase' = phase /\ halted' = halted /\ epoch' = epoch
      /\ epochStart' = epochStart /\ geometry' = geometry /\ mirror' = mirror
      /\ UNCHANGED <<familyVars, recordVars, lost>>
      /\ lengths' = With(lengths, e, length)
      /\ e \in Future
  BY DEF ScheduleEpochLength, Writing, chainVars
<1>2. e \in Nat /\ e > epoch
  BY <1>0, <1>1, HistoriesAssumption DEF Future
<1>3. \A k \in DOMAIN lengths' : k \in Nat /\ k > epoch /\ lengths'[k] \in Lengths
  BY <1>0, <1>1, <1>2 DEF With, ClockInv
<1>4. LastClosed' = LastClosed
  BY <1>1 DEF LastClosed
<1>5. FamiliesInv' /\ RecordsInv'
  BY <1>1, <1>4, QuietStep
<1>6. ClockInv'
  BY <1>0, <1>1, <1>3 DEF ClockInv
<1>7. HaltsOnlyForSelection'
  BY <1>1 DEF HaltsOnlyForSelection
<1> QED
  BY <1>5, <1>6, <1>7 DEF HistoriesInv

\* A step of the families between two blocks: the clock, the rows and the
\* archives stay.
LEMMA FamilyStep ==
  ASSUME HistoriesInv, ~ halted, UNCHANGED <<chainVars, geometryVars, versions, recordVars>>,
         DOMAIN index' = Families, DOMAIN scheduled' = Families,
         \A f \in Families : FamilyInv(f)',
         DOMAIN scheduled'["reward"] \subseteq {epoch + 1}
  PROVE  HistoriesInv'
<1>0. ClockInv /\ FamiliesInv /\ RecordsInv
  BY DEF HistoriesInv
<1>1. /\ height' = height /\ phase' = phase /\ halted' = halted /\ epoch' = epoch
      /\ epochStart' = epochStart /\ geometry' = geometry /\ lengths' = lengths /\ mirror' = mirror
      /\ versions' = versions /\ finalized' = finalized /\ stamps' = stamps
  BY DEF chainVars, geometryVars, recordVars
<1>2. LastClosed' = LastClosed
  BY <1>1 DEF LastClosed
<1>3. SpansKept
  BY <1>1 DEF SpansKept
<1>4. RecordsInv'
  BY <1>0, <1>1, <1>2, <1>3, RecordsFrame
<1>5. FamiliesInv'
  BY <1>0, <1>1 DEF FamiliesInv
<1>6. ClockInv'
  BY <1>0, <1>1 DEF ClockInv
<1>7. HaltsOnlyForSelection'
  BY <1>1 DEF HaltsOnlyForSelection
<1> QED
  BY <1>4, <1>5, <1>6, <1>7 DEF HistoriesInv

\* A change is scheduled alone, and past the epoch that is open.
LEMMA ScheduleVersionKeeps ==
  ASSUME HistoriesInv, NEW f \in Families, NEW e \in Epochs, NEW value \in Values[f],
         ScheduleVersion(f, e, value)
  PROVE  HistoriesInv'
<1>0. ClockInv /\ FamiliesInv /\ epoch \in Nat
  BY DEF HistoriesInv, ClockInv
<1>1. /\ ~ halted /\ phase = "deliver" /\ UNCHANGED <<chainVars, geometryVars, versions, recordVars>>
      /\ index' = index /\ lost' = lost /\ e \in Future
      /\ f = "reward" => e = epoch + 1
      /\ DOMAIN scheduled[f] \subseteq {e}
      /\ scheduled' = [scheduled EXCEPT ![f] = With(@, e, value)]
  BY DEF ScheduleVersion, Writing
<1>2. e \in Nat /\ e > epoch /\ LastClosed + 1 = epoch
  BY <1>0, <1>1, ClosedRange, HistoriesAssumption DEF Future
<1>3. /\ DOMAIN scheduled' = Families /\ scheduled'[f] = With(scheduled[f], e, value)
      /\ \A g \in Families : g # f => scheduled'[g] = scheduled[g]
  BY <1>0, <1>1 DEF FamiliesInv
<1>4. DOMAIN scheduled'[f] = {e} /\ scheduled'[f][e] = value
  BY <1>1, <1>3 DEF With
<1>5. LastClosed' = LastClosed /\ versions' = versions
  BY <1>1 DEF LastClosed, chainVars, geometryVars
<1>6. ASSUME NEW g \in Families PROVE FamilyInv(g)'
  <2>1. FamilyInv(g)
    BY <1>0 DEF FamiliesInv
  <2>2. CASE g # f
    BY <1>1, <1>3, <1>5, <2>1, <2>2, FamilyFrame
  <2>3. CASE g = f
    <3>1. \A k \in DOMAIN scheduled'[f] :
            k \in Nat /\ k > LastClosed + 1 /\ scheduled'[f][k] \in Values[f]
      BY <1>2, <1>4
    <3>2. \E x : DOMAIN scheduled'[f] \subseteq {x}
      BY <1>4
    <3> QED
      BY <1>1, <1>5, <2>1, <2>3, <3>1, <3>2 DEF FamilyInv
  <2> QED
    BY <2>2, <2>3
<1>7. DOMAIN scheduled'["reward"] \subseteq {epoch + 1}
  <2>1. "reward" \in Families
    BY DEF Families
  <2> QED
    BY <1>0, <1>1, <1>3, <1>4, <2>1 DEF FamiliesInv
<1>8. DOMAIN index' = Families
  BY <1>0, <1>1 DEF FamiliesInv
<1> QED
  BY <1>1, <1>3, <1>6, <1>7, <1>8, FamilyStep

\* An index entry that storage loses is on record as lost.
LEMMA LoseKeeps ==
  ASSUME HistoriesInv, NEW f \in Families, NEW v \in DOMAIN index[f], LoseIndexEntry(f, v)
  PROVE  HistoriesInv'
<1>0. ClockInv /\ FamiliesInv
  BY DEF HistoriesInv
<1>1. /\ ~ halted /\ UNCHANGED <<chainVars, geometryVars, versions, recordVars>>
      /\ scheduled' = scheduled /\ lost' = lost \cup {<<f, v>>}
      /\ index' = [index EXCEPT ![f] = Without(@, v)]
  BY DEF LoseIndexEntry
<1>2. /\ DOMAIN index' = Families /\ index'[f] = Without(index[f], v)
      /\ \A g \in Families : g # f => index'[g] = index[g]
  BY <1>0, <1>1 DEF FamiliesInv
<1>3. LastClosed' = LastClosed /\ versions' = versions
  BY <1>1 DEF LastClosed, chainVars, geometryVars
<1>4. ASSUME NEW g \in Families PROVE FamilyInv(g)'
  <2>1. FamilyInv(g)
    BY <1>0 DEF FamiliesInv
  <2>2. Indexed(g, versions[g], index[g], lost)
    BY <2>1 DEF FamilyInv
  <2>3. Indexed(g, versions[g], index'[g], lost')
    <3>1. CASE g # f
      <4>1. Indexed(g, versions[g], index[g], lost \cup {<<f, v>>})
        BY <2>2, IndexKept
      <4> QED
        BY <1>1, <1>2, <3>1, <4>1
    <3>2. CASE g = f
      <4>1. Indexed(f, versions[f], Without(index[f], v), lost \cup {<<f, v>>})
        BY <2>2, <3>2, IndexLoses
      <4> QED
        BY <1>1, <1>2, <3>2, <4>1
    <3> QED
      BY <3>1, <3>2
  <2> QED
    BY <1>1, <1>3, <2>1, <2>3 DEF FamilyInv
<1>5. DOMAIN scheduled' = Families /\ DOMAIN scheduled'["reward"] \subseteq {epoch + 1}
  BY <1>0, <1>1 DEF FamiliesInv
<1> QED
  BY <1>1, <1>2, <1>4, <1>5, FamilyStep

\* At genesis every history has its row of epoch 1 and nothing is scheduled.
LEMMA GenesisHolds ==
  ASSUME HistoriesInit
  PROVE  HistoriesInv
<1>0. /\ height = 1 /\ phase = "begin" /\ halted = FALSE /\ epoch = 1 /\ epochStart = 1
      /\ geometry = [e \in {1} |-> [version |-> 1, start |-> 1, length |-> GenesisLength]]
      /\ DOMAIN lengths = {} /\ mirror = GenesisLength
      /\ versions = [f \in Families |->
           [e \in {1} |-> [version |-> 1, value |-> GenesisValue[f], until |-> 0]]]
      /\ index = [f \in Families |-> [v \in {1} |-> 1]]
      /\ scheduled = [f \in Families |-> [e \in {} |-> 0]]
      /\ DOMAIN finalized = {} /\ DOMAIN stamps = {}
  BY DEF HistoriesInit
<1>1. GenesisLength \in Lengths /\ GenesisLength \in Nat /\ GenesisLength >= 1
  <2>1. GenesisLength \in Lengths /\ Lengths \subseteq Nat \ {0}
    BY HistoriesAssumption, Zenon
  <2>2. GenesisLength \in Nat /\ GenesisLength # 0
    BY <2>1
  <2> QED
    BY <2>1, <2>2
<1>2. /\ DOMAIN geometry = {1} /\ geometry[1].version = 1 /\ geometry[1].start = 1
      /\ geometry[1].length = GenesisLength
  BY <1>0
<1>3. ASSUME NEW h, DOMAIN h = {1}, NEW e \in Nat, 1 <= e
      PROVE  Keyed(h, 1) /\ KeyAtOrBefore(h, e) = 1 /\ LatestKey(h) = 1
  <2>1. Keyed(h, 1)
    BY <1>3 DEF Keyed
  <2>2. KeyAtOrBefore(h, e) = 1
    BY <1>3, <2>1, SeekFinds
  <2>3. LatestKey(h) = 1
    BY <1>3, <2>1, LatestIsSeek
  <2> QED
    BY <2>1, <2>2, <2>3
<1>4. Geo(geometry, 1)
  BY <1>1, <1>2, <1>3 DEF Geo
<1>5. /\ StartIn(geometry, 1) = 1 /\ StartIn(geometry, 2) = 1 + GenesisLength
      /\ LengthIn(geometry, 1) = GenesisLength
  BY <1>1, <1>2, <1>3 DEF StartIn, LengthIn
<1>6. ClockInv
  <2>1. halted \in BOOLEAN
    BY <1>0, Zenon
  <2>2. /\ height \in Nat /\ epoch \in Nat /\ 1 <= epoch /\ phase \in {"begin", "deliver"}
        /\ height <= StartIn(geometry, epoch + 1) /\ phase # "deliver"
    BY <1>0, <1>1, <1>5
  <2>3. /\ Geo(geometry, epoch) /\ epochStart = StartIn(geometry, epoch)
        /\ mirror = LengthIn(geometry, epoch)
    BY <1>0, <1>4, <1>5
  <2> QED
    BY <1>0, <2>1, <2>2, <2>3 DEF ClockInv
<1>7. LastClosed = 0
  <2>1. height # StartIn(geometry, epoch + 1)
    BY <1>0, <1>1, <1>5
  <2> QED
    BY <1>0, <2>1 DEF LastClosed
<1>8. ASSUME NEW f \in Families
      PROVE  /\ DOMAIN versions[f] = {1} /\ versions[f][1].version = 1
             /\ versions[f][1].until = 0 /\ versions[f] \in [DOMAIN versions[f] -> Rows(f)]
             /\ DOMAIN index[f] = {1} /\ index[f][1] = 1 /\ DOMAIN scheduled[f] = {}
  <2> DEFINE r == [version |-> 1, value |-> GenesisValue[f], until |-> 0]
  <2>1. versions[f] = [e \in {1} |-> r]
    BY <1>0
  <2>2. r \in Rows(f) /\ r.version = 1 /\ r.until = 0
    BY HistoriesAssumption DEF Rows
  <2>3. DOMAIN index[f] = {1} /\ index[f][1] = 1 /\ DOMAIN scheduled[f] = {}
    BY <1>0
  <2> HIDE DEF r
  <2> QED
    BY <2>1, <2>2, <2>3
<1>9. ASSUME NEW f \in Families PROVE FamilyInv(f) /\ Tiles(versions[f])
  <2>0. DOMAIN versions[f] = {1} /\ 1 \in Nat /\ 1 <= 1
    BY <1>8
  <2>1. Keyed(versions[f], 1) /\ LatestKey(versions[f]) = 1
    BY <1>3, <2>0
  <2>2. Numbered(versions[f], 1)
    <3>1. \A v \in Nat : 1 <= v /\ v <= versions[f][LatestKey(versions[f])].version => v = 1
      BY <1>8, <2>1
    <3> QED
      BY <1>8, <2>1, <3>1 DEF Numbered
  <2>3. Indexed(f, versions[f], index[f], lost)
    BY <1>8 DEF Indexed
  <2>4. Tiles(versions[f])
    BY <1>8, <2>1 DEF Tiles
  <2>5. Numbered(versions[f], LastClosed + 1)
    BY <1>7, <2>2
  <2> QED
    BY <1>8, <2>3, <2>4, <2>5 DEF FamilyInv
<1>10. FamiliesInv
  <2>1. "mode" \in Families /\ "reward" \in Families
    BY DEF Families
  <2>2. DOMAIN index = Families /\ DOMAIN scheduled = Families
    BY <1>0
  <2>3. DOMAIN scheduled["reward"] = {}
    BY <1>8, <2>1
  <2> QED
    BY <1>9, <2>1, <2>2, <2>3 DEF FamiliesInv
<1>11. RecordsInv
  BY <1>0, <1>7 DEF RecordsInv, StampsHold
<1>12. HaltsOnlyForSelection
  BY <1>0 DEF HaltsOnlyForSelection
<1> QED
  BY <1>6, <1>10, <1>11, <1>12 DEF HistoriesInv

\* A step that changes nothing.
LEMMA StutterKeeps ==
  ASSUME HistoriesInv, UNCHANGED vars
  PROVE  HistoriesInv'
<1>0. ClockInv /\ HaltsOnlyForSelection
  BY DEF HistoriesInv
<1>1. /\ height' = height /\ phase' = phase /\ halted' = halted /\ epoch' = epoch
      /\ epochStart' = epochStart /\ geometry' = geometry /\ lengths' = lengths /\ mirror' = mirror
      /\ UNCHANGED <<familyVars, recordVars, lost>>
  BY DEF vars, chainVars, geometryVars
<1>2. LastClosed' = LastClosed
  BY <1>1 DEF LastClosed
<1>3. FamiliesInv' /\ RecordsInv'
  BY <1>1, <1>2, QuietStep
<1>4. ClockInv'
  BY <1>0, <1>1 DEF ClockInv
<1>5. versions' = versions
  BY <1>1 DEF familyVars
<1>6. HaltsOnlyForSelection'
  BY <1>0, <1>1, <1>5 DEF HaltsOnlyForSelection, EpochEndHeight, EpochStartHeight, EpochStartFrom,
                          DistributionModeForTarget
<1> QED
  BY <1>3, <1>4, <1>6 DEF HistoriesInv

\* HistoriesInv is inductive: the clock, the histories and the archives agree
\* after every hook, schedule and loss (advanceEpochIfDue, finalizeEpoch, the
\* promotions of x/rewards and x/mining).
THEOREM HistoriesInvariant == HistoriesSpec => []HistoriesInv
<1>1. HistoriesInit => HistoriesInv
  BY GenesisHolds
<1>2. HistoriesInv /\ [HistoriesNext]_vars => HistoriesInv'
  <2> SUFFICES ASSUME HistoriesInv, [HistoriesNext]_vars PROVE HistoriesInv'
    OBVIOUS
  <2>1. CASE BeginBlock
    BY <2>1, BeginKeeps
  <2>2. ASSUME NEW entitled \in BOOLEAN, EndBlock(entitled) PROVE HistoriesInv'
    BY <2>2, EndKeeps
  <2>3. ASSUME NEW e \in Epochs, NEW length \in Lengths, ScheduleEpochLength(e, length)
        PROVE  HistoriesInv'
    BY <2>3, ScheduleLengthKeeps
  <2>4. ASSUME NEW f \in Families, NEW e \in Epochs, NEW value \in Values[f],
               ScheduleVersion(f, e, value)
        PROVE  HistoriesInv'
    BY <2>4, ScheduleVersionKeeps
  <2>5. ASSUME NEW f \in Families, NEW v \in DOMAIN index[f], LoseIndexEntry(f, v)
        PROVE  HistoriesInv'
    BY <2>5, LoseKeeps
  <2>6. CASE UNCHANGED vars
    BY <2>6, StutterKeeps
  <2> QED
    BY <2>1, <2>2, <2>3, <2>4, <2>5, <2>6 DEF HistoriesNext
<1> QED
  BY <1>1, <1>2, PTL DEF HistoriesSpec

\* The chain halts only where an epoch with entitlements is bound to protocol
\* selection (resolveSettlementMode), whatever the bounds of the model.
THEOREM HaltsForSelectionAlone == HistoriesSpec => []HaltsOnlyForSelection
<1>1. HistoriesInv => HaltsOnlyForSelection
  BY DEF HistoriesInv
<1> QED
  BY <1>1, HistoriesInvariant, PTL

\* The archived epochs tile the heights and the modes tile the epochs
\* (epochhistory.go, mode.go).
THEOREM HistoriesAlwaysTile == HistoriesSpec => []HistoriesTile
<1>1. ASSUME HistoriesInv PROVE HistoriesTile
  <2>0. ClockInv /\ FamiliesInv /\ RecordsInv
    BY <1>1 DEF HistoriesInv
  <2>1. /\ LastClosed \in Nat /\ epoch \in Nat /\ Geo(geometry, epoch)
        /\ DOMAIN finalized = 1 .. LastClosed
    BY <2>0, ClosedRange DEF ClockInv, RecordsInv
  <2>2. ASSUME NEW e \in DOMAIN finalized
        PROVE  /\ finalized[e].start = IF e = 1 THEN 1 ELSE finalized[e - 1].end + 1
               /\ finalized[e].end = finalized[e].start + finalized[e].length - 1
               /\ finalized[e].start = EpochStartHeight(e)
               /\ finalized[e].end = EpochEndHeight(e)
    <3>1. e \in Nat /\ 1 <= e /\ SpanKept(e)
      BY <2>0, <2>1 DEF RecordsInv
    <3>2. /\ StartIn(geometry, e) \in Nat /\ LengthIn(geometry, e) \in Nat
          /\ StartIn(geometry, e + 1) = StartIn(geometry, e) + LengthIn(geometry, e)
          /\ StartIn(geometry, 1) = 1
      BY <2>1, <3>1, GeoStart
    <3>3. /\ finalized[e].start = StartIn(geometry, e)
          /\ finalized[e].end = StartIn(geometry, e + 1) - 1
          /\ finalized[e].length = LengthIn(geometry, e)
      BY <3>1 DEF SpanKept
    <3>4. finalized[e].end = finalized[e].start + finalized[e].length - 1
      BY <3>2, <3>3
    <3>5. finalized[e].start = EpochStartHeight(e) /\ finalized[e].end = EpochEndHeight(e)
      BY <3>3, EpochsIn
    <3>6. ASSUME e # 1 PROVE finalized[e].start = finalized[e - 1].end + 1
      <4>1. e - 1 \in DOMAIN finalized /\ (e - 1) + 1 = e
        BY <2>1, <3>1, <3>6
      <4>2. SpanKept(e - 1)
        BY <2>0, <4>1 DEF RecordsInv
      <4>3. finalized[e - 1].end = StartIn(geometry, e) - 1
        BY <4>1, <4>2 DEF SpanKept
      <4> QED
        BY <3>2, <3>3, <4>3
    <3> QED
      BY <3>2, <3>3, <3>4, <3>5, <3>6
  <2>3. ArchivedSpansTile
    BY <2>2 DEF ArchivedSpansTile
  <2>4. ASSUME NEW e \in Epochs
        PROVE  {k \in DOMAIN versions.mode : k <= e /\ versions.mode[k].until \notin 1 .. e}
                 = {KeyAtOrBefore(versions.mode, e)}
    <3>1. "mode" \in Families
      BY DEF Families
    <3>2. Tiles(versions["mode"]) /\ Keyed(versions["mode"], LastClosed + 1)
      BY <2>0, <3>1 DEF FamiliesInv, FamilyInv, Numbered
    <3>3. e \in Nat /\ 1 <= e
      BY HistoriesAssumption DEF Epochs
    <3> QED
      BY <3>2, <3>3, TilesCover
  <2>5. ModeIntervalsTile
    BY <2>4 DEF ModeIntervalsTile
  <2> QED
    BY <2>3, <2>5 DEF HistoriesTile
<1> QED
  BY <1>1, HistoriesInvariant, PTL

\* Every archived epoch and every settlement still binds the versions it was
\* created under (entitlement.go, settlementDeadlineFromAnchor).
THEOREM StampsAlwaysHold == HistoriesSpec => []StampsHold
<1>1. HistoriesInv => StampsHold
  BY DEF HistoriesInv, RecordsInv
<1> QED
  BY <1>1, HistoriesInvariant, PTL

\* The lookup by version number never denies a version that exists
\* (versionlookup.go, RewardConfigVersionByNumber).
THEOREM LookupIsHonest == HistoriesSpec => []LookupHonest
<1>1. ASSUME HistoriesInv PROVE LookupHonest
  <2> SUFFICES ASSUME NEW f \in Families, NEW v \in 1 .. MaxWrites + 2
               PROVE  /\ Lookup(f, v) > 0 => versions[f][Lookup(f, v)].version = v
                      /\ Lookup(f, v) = Absent => \A k \in DOMAIN versions[f] : versions[f][k].version # v
                      /\ Lookup(f, v) = Corrupt => <<f, v>> \in lost
    BY DEF LookupHonest
  <2>1. FamilyInv(f)
    BY <1>1 DEF HistoriesInv, FamiliesInv
  <2>2. Numbered(versions[f], LastClosed + 1) /\ Indexed(f, versions[f], index[f], lost)
    BY <2>1 DEF FamilyInv
  <2>3. v \in Nat /\ 1 <= v
    BY HistoriesAssumption
  <2> QED
    BY <2>2, <2>3, LookupAnswers
<1> QED
  BY <1>1, HistoriesInvariant, PTL

-----------------------------------------------------------------------------
(* ProjectEpochStartHeight walks the rows of the schedule; the starts it   *)
(* finds are those of a walk from epoch to epoch.                          *)

\* The definitions of ProjectEpochStartHeight, for any history and schedule.
RowsTo(g, l, e) ==
  {KeyAtOrBefore(g, e)} \cup {k \in DOMAIN l : KeyAtOrBefore(g, e) < k /\ k <= e}
LengthAt(g, l, e, k) ==
  IF k = KeyAtOrBefore(g, e) THEN g[KeyAtOrBefore(g, e)].length ELSE l[k]
RowBefore(g, l, e, k) == Max({i \in RowsTo(g, l, e) : i < k})
StartStep(g, l, e, s, k) ==
  IF k = KeyAtOrBefore(g, e) THEN g[KeyAtOrBefore(g, e)].start
  ELSE s[RowBefore(g, l, e, k)]
         + (k - RowBefore(g, l, e, k)) * LengthAt(g, l, e, RowBefore(g, l, e, k))
StartsTo(g, l, e) == CHOOSE s : s = [k \in RowsTo(g, l, e) |-> StartStep(g, l, e, s, k)]
ProjectIn(g, l, e) ==
  StartsTo(g, l, e)[Max(RowsTo(g, l, e))]
    + (e - Max(RowsTo(g, l, e))) * LengthAt(g, l, e, Max(RowsTo(g, l, e)))

\* They are the definitions of ProjectEpochStartHeight.
LEMMA ProjectIsIn ==
  ASSUME NEW e
  PROVE  /\ ProjectEpochStartHeight(e) = ProjectIn(geometry, lengths, e)
         /\ ProjectEpochStartHeight(e)' = ProjectIn(geometry', lengths', e)
<1>1. ProjectEpochStartHeight(e) = ProjectIn(geometry, lengths, e)
  BY Zenon DEF ProjectEpochStartHeight, Crossed, RowsTo, LengthAt, RowBefore, StartStep,
               StartsTo, ProjectIn
<1>2. ProjectEpochStartHeight(e)' = ProjectIn(geometry', lengths', e)
  BY Zenon DEF ProjectEpochStartHeight, Crossed, RowsTo, LengthAt, RowBefore, StartStep,
               StartsTo, ProjectIn
<1> QED
  BY <1>1, <1>2

\* A schedule for epochs after top.
Pending(l, top) == \A k \in DOMAIN l : k \in Nat /\ k > top /\ l[k] \in Lengths

\* The length epoch k has in the projection, and the walk along it.
LengthOf(g, l, k) == LengthAt(g, l, k, Max(RowsTo(g, l, k)))
Walks(g, l, e, s) ==
  /\ s \in [1 .. e -> Nat]
  /\ s[1] = 1
  /\ \A k \in 1 .. (e - 1) : s[k + 1] = s[k] + LengthOf(g, l, k)

\* The last of the rows up to e.
LEMMA LastRow ==
  ASSUME NEW g, NEW l, NEW top, Geo(g, top), Pending(l, top), NEW e \in Nat, 1 <= e
  PROVE  /\ RowsTo(g, l, e) \in SUBSET Nat
         /\ Max(RowsTo(g, l, e)) \in RowsTo(g, l, e)
         /\ \A j \in RowsTo(g, l, e) : 1 <= j /\ j <= e /\ j <= Max(RowsTo(g, l, e))
                                       /\ KeyAtOrBefore(g, e) <= j
         /\ \A j \in RowsTo(g, l, e) : LengthAt(g, l, e, j) \in Nat
         /\ KeyAtOrBefore(g, e) \in DOMAIN g
<1> DEFINE b == KeyAtOrBefore(g, e)
           R == RowsTo(g, l, e)
<1>0. b \in DOMAIN g /\ b \in Nat /\ 1 <= b /\ b <= e
  BY SeekFinds DEF Geo
<1>1. R = {b} \cup {k \in DOMAIN l : b < k /\ k <= e}
  BY DEF RowsTo
<1>2. \A k \in DOMAIN l : k \in Nat /\ l[k] \in Nat
  BY HistoriesAssumption DEF Pending
<1>3. R \in SUBSET Nat /\ b \in R /\ \A j \in R : 1 <= j /\ j <= e /\ b <= j
  <2> HIDE DEF b, R
  <2> QED
    BY <1>0, <1>1, <1>2
<1>4. \A j \in R : LengthAt(g, l, e, j) \in Nat
  <2>1. g[b].length \in Nat
    BY <1>0, HistoriesAssumption DEF Geo
  <2> SUFFICES ASSUME NEW j \in R PROVE LengthAt(g, l, e, j) \in Nat
    OBVIOUS
  <2>2. j = b \/ j \in DOMAIN l
    BY <1>1
  <2> QED
    BY <1>2, <2>1, <2>2 DEF LengthAt
<1> HIDE DEF R, b
<1>5. PICK m \in R : \A j \in R : j <= m
  BY <1>3, GreatestNatural
<1>6. Max(R) = m
  BY <1>3, <1>5, MaxIs
<1> QED
  BY <1>0, <1>3, <1>4, <1>5, <1>6 DEF R, b

\* Between the recorded row and e, an earlier epoch has the rows up to it.
LEMMA RowsShared ==
  ASSUME NEW g, NEW l, NEW top, Geo(g, top), Pending(l, top), NEW e \in Nat, 1 <= e,
         NEW k \in Nat, KeyAtOrBefore(g, e) <= k, k <= e
  PROVE  /\ KeyAtOrBefore(g, k) = KeyAtOrBefore(g, e)
         /\ RowsTo(g, l, k) = {i \in RowsTo(g, l, e) : i <= k}
<1> DEFINE b == KeyAtOrBefore(g, e)
<1>0. IsSeek(g, e, b) /\ b \in Nat /\ Keyed(g, top)
  BY SeekFinds DEF Geo
<1>1. \A j \in DOMAIN g : j \in Nat
  BY <1>0 DEF Keyed
<1>2. IsSeek(g, k, b)
  BY <1>0, <1>1 DEF IsSeek
<1>3. KeyAtOrBefore(g, k) = b
  <2> HIDE DEF b
  <2> QED
    BY <1>0, <1>2, SeekIs
<1>4. RowsTo(g, l, k) = {b} \cup {i \in DOMAIN l : b < i /\ i <= k}
  BY <1>3 DEF RowsTo
<1>5. RowsTo(g, l, e) = {b} \cup {i \in DOMAIN l : b < i /\ i <= e}
  BY DEF RowsTo
<1>6. \A i \in DOMAIN l : i \in Nat
  BY DEF Pending
<1>7. RowsTo(g, l, k) = {i \in RowsTo(g, l, e) : i <= k}
  <2>1. b <= k /\ b \in Nat
    BY <1>0
  <2> HIDE DEF b
  <2> QED
    BY <1>4, <1>5, <1>6, <2>1
<1> QED
  BY <1>3, <1>7

\* From a row to the next one, the walk is a straight line.
LEMMA StraightWalk ==
  ASSUME NEW g, NEW l, NEW top, Geo(g, top), Pending(l, top), NEW e \in Nat, 1 <= e,
         NEW s, Walks(g, l, e, s), NEW j \in RowsTo(g, l, e), NEW n \in Nat, j <= n, n <= e,
         \A i \in RowsTo(g, l, e) : j < i => n <= i
  PROVE  s[n] = s[j] + (n - j) * LengthAt(g, l, e, j)
<1> DEFINE R == RowsTo(g, l, e)
           d == LengthAt(g, l, e, j)
           G == {x \in Nat : j + x <= n => s[j + x] = s[j] + x * d}
<1>0. /\ j \in Nat /\ 1 <= j /\ j <= e /\ d \in Nat /\ KeyAtOrBefore(g, e) <= j
      /\ KeyAtOrBefore(g, e) \in Nat
      /\ R \in SUBSET Nat
  BY LastRow, SeekFinds DEF Geo
<1>1. \A k \in 1 .. e : s[k] \in Nat
  BY DEF Walks
<1>2. ASSUME NEW k \in Nat, j <= k, k < n PROVE LengthOf(g, l, k) = d
  <2>1. KeyAtOrBefore(g, e) <= k /\ k <= e
    BY <1>0, <1>2
  <2>2. KeyAtOrBefore(g, k) = KeyAtOrBefore(g, e) /\ RowsTo(g, l, k) = {i \in R : i <= k}
    BY <2>1, RowsShared
  <2>3. Max({i \in R : i <= k}) = j
    <3> DEFINE T == {i \in R : i <= k}
    <3>1. T \in SUBSET Nat /\ j \in T
      BY <1>0, <1>2
    <3>2. \A i \in T : i <= j
      BY <1>0, <1>2
    <3> HIDE DEF T
    <3>3. Max(T) = j
      BY <3>1, <3>2, MaxIs
    <3> QED
      BY <3>3 DEF T
  <2> QED
    BY <2>2, <2>3 DEF LengthOf, LengthAt
<1> HIDE DEF d
<1>3. 0 \in G
  BY <1>0, <1>1
<1>4. ASSUME NEW x \in G PROVE x + 1 \in G
  <2> SUFFICES ASSUME j + (x + 1) <= n PROVE s[j + (x + 1)] = s[j] + (x + 1) * d
    OBVIOUS
  <2>1. x \in Nat /\ j + x \in Nat /\ j <= j + x /\ j + x < n /\ j + x \in 1 .. (e - 1)
        /\ (j + x) + 1 = j + (x + 1) /\ j + x <= n
    BY <1>0
  <2>2. s[j + x] = s[j] + x * d
    BY <2>1
  <2>3. s[(j + x) + 1] = s[j + x] + d
    BY <1>2, <2>1 DEF Walks
  <2>4. (x + 1) * d = x * d + d /\ x * d \in Nat
    BY <1>0, <2>1
  <2>5. s[j] \in Nat
    BY <1>0, <1>1
  <2> DEFINE p == x * d
             q == (x + 1) * d
  <2> HIDE DEF p, q
  <2>6. s[j + x] = s[j] + p /\ q = p + d /\ p \in Nat
    BY <2>2, <2>4 DEF p, q
  <2>7. s[j + (x + 1)] = s[j] + q
    BY <1>0, <2>1, <2>3, <2>5, <2>6
  <2> QED
    BY <2>7 DEF q
<1>5. G = Nat
  <2>1. G \in SUBSET Nat /\ \A x \in G : x + 1 \in G
    BY <1>4
  <2> HIDE DEF G
  <2> QED
    BY <1>3, <2>1, NaturalsByInduction
<1>6. n - j \in Nat /\ j + (n - j) = n
  BY <1>0
<1>7. n - j \in G
  BY <1>5, <1>6
<1> QED
  BY <1>6, <1>7 DEF d

\* Up to the epoch after the last recorded one, the walk is the history.
LEMMA WalkIsHistory ==
  ASSUME NEW g, NEW l, NEW top, Geo(g, top), Pending(l, top), NEW e \in Nat, 1 <= e,
         NEW s, Walks(g, l, e, s), NEW n \in Nat, 1 <= n, n <= e, n <= top + 1
  PROVE  s[n] = StartIn(g, n)
<1> DEFINE G == {x \in Nat : x + 1 <= n => s[x + 1] = StartIn(g, x + 1)}
<1>0. top \in Nat
  BY DEF Geo, Keyed
<1>1. ASSUME NEW k \in Nat, 1 <= k, k <= top PROVE LengthOf(g, l, k) = LengthIn(g, k)
  <2>1. RowsTo(g, l, k) = {KeyAtOrBefore(g, k)}
    BY <1>0, <1>1 DEF RowsTo, Pending
  <2>2. Max(RowsTo(g, l, k)) = KeyAtOrBefore(g, k)
    BY <1>1, <2>1, LastRow
  <2> QED
    BY <2>2 DEF LengthOf, LengthAt, LengthIn
<1>2. 0 \in G
  <2>1. s[1] = 1 /\ StartIn(g, 1) = 1
    BY GeoStart DEF Walks
  <2> QED
    BY <2>1
<1>3. ASSUME NEW x \in G PROVE x + 1 \in G
  <2> SUFFICES ASSUME (x + 1) + 1 <= n PROVE s[(x + 1) + 1] = StartIn(g, (x + 1) + 1)
    OBVIOUS
  <2> DEFINE k == x + 1
  <2>1. k \in Nat /\ 1 <= k /\ k <= top /\ k \in 1 .. (e - 1) /\ k <= n
    BY <1>0
  <2>2. s[k] = StartIn(g, k)
    BY <2>1
  <2> HIDE DEF k
  <2>3. s[k + 1] = s[k] + LengthIn(g, k)
    BY <1>1, <2>1 DEF Walks
  <2>4. StartIn(g, k + 1) = StartIn(g, k) + LengthIn(g, k)
    BY <2>1, GeoStart
  <2>5. s[k + 1] = StartIn(g, k + 1)
    BY <2>2, <2>3, <2>4
  <2> QED
    BY <2>5 DEF k
<1>4. G = Nat
  <2>1. G \in SUBSET Nat /\ \A x \in G : x + 1 \in G
    BY <1>3
  <2> HIDE DEF G
  <2> QED
    BY <1>2, <2>1, NaturalsByInduction
<1>5. n - 1 \in Nat /\ (n - 1) + 1 = n
  OBVIOUS
<1>6. n - 1 \in G
  BY <1>4, <1>5
<1> QED
  BY <1>5, <1>6

\* What ProjectEpochStartHeight finds is where the walk arrives.
LEMMA ProjectWalks ==
  ASSUME NEW g, NEW l, NEW top, Geo(g, top), Pending(l, top), NEW e \in Nat, 1 <= e,
         NEW s, Walks(g, l, e, s)
  PROVE  ProjectIn(g, l, e) = s[e]
<1> DEFINE b == KeyAtOrBefore(g, e)
           R == RowsTo(g, l, e)
           m == Max(R)
           P(k) == RowBefore(g, l, e, k)
           D(k) == LengthAt(g, l, e, k)
<1>0. /\ R \in SUBSET Nat /\ m \in R /\ b \in DOMAIN g /\ b \in R
      /\ \A j \in R : j \in Nat /\ 1 <= j /\ j <= e /\ j <= m /\ b <= j
  <2>1. b \in R
    BY DEF RowsTo
  <2> QED
    BY <2>1, LastRow
<1>1. b \in Nat /\ 1 <= b /\ b <= e /\ b <= top
  BY SeekFinds DEF Geo
<1>2. s[b] = g[b].start
  <2>1. s[b] = StartIn(g, b)
    <3>1. top \in Nat
      BY DEF Geo, Keyed
    <3>2. b <= top + 1
      BY <1>1, <3>1
    <3> HIDE DEF b
    <3> QED
      BY <1>1, <3>2, WalkIsHistory
  <2>2. KeyAtOrBefore(g, b) = b
    <3>1. b <= b
      BY <1>1
    <3> QED
      BY <1>1, <3>1, RowsShared
  <2>3. g[b].start \in Nat /\ g[b].length \in Nat
    BY <1>0, HistoriesAssumption DEF Geo
  <2>4. (b - b) * g[b].length = 0
    BY <1>1, <2>3
  <2> QED
    BY <2>1, <2>2, <2>3, <2>4 DEF StartIn
<1>3. ASSUME NEW k \in R, k # b
      PROVE  P(k) \in R /\ P(k) < k /\ s[k] = s[P(k)] + (k - P(k)) * D(P(k))
  <2> DEFINE T == {i \in R : i < k}
  <2>1. T \in SUBSET Nat /\ b \in T /\ k \in Nat /\ \A i \in T : i <= k
    BY <1>0, <1>3
  <2>2. PICK j \in T : \A i \in T : i <= j
    <3> HIDE DEF T
    <3> QED
      BY <2>1, GreatestNatural
  <2>3. P(k) = j
    <3>1. Max(T) = j
      <4> HIDE DEF T
      <4> QED
        BY <2>1, <2>2, MaxIs
    <3> QED
      BY <3>1 DEF RowBefore
  <2>4. j \in R /\ j < k /\ j \in Nat /\ j <= k /\ k <= e /\ \A i \in R : j < i => k <= i
    <3>1. j \in R /\ j < k /\ j \in Nat /\ j <= k /\ k <= e
      BY <1>0
    <3>2. ASSUME NEW i \in R, j < i, ~ (k <= i) PROVE FALSE
      <4>1. i \in Nat /\ i < k
        BY <1>0, <2>1, <3>2
      <4>2. i \in T
        BY <4>1
      <4> QED
        BY <2>2, <3>1, <3>2, <4>1, <4>2
    <3> QED
      BY <3>1, <3>2
  <2>5. s[k] = s[j] + (k - j) * LengthAt(g, l, e, j)
    <3> HIDE DEF T
    <3> QED
      BY <2>1, <2>4, StraightWalk
  <2> HIDE DEF T
  <2> QED
    BY <2>3, <2>4, <2>5
<1>4. \E t : t = [k \in R |-> StartStep(g, l, e, t, k)]
  <2> DEFINE t == [k \in R |-> s[k]]
  <2>1. ASSUME NEW k \in R PROVE t[k] = StartStep(g, l, e, t, k)
    <3>1. CASE k = b
      BY <1>2, <3>1 DEF StartStep
    <3>2. CASE k # b
      <4>1. P(k) \in R /\ s[k] = s[P(k)] + (k - P(k)) * D(P(k))
        BY <1>3, <3>2
      <4>2. t[P(k)] = s[P(k)] /\ t[k] = s[k]
        BY <4>1
      <4> HIDE DEF t
      <4> QED
        BY <3>2, <4>1, <4>2 DEF StartStep
    <3> QED
      BY <3>1, <3>2
  <2>2. t = [k \in R |-> StartStep(g, l, e, t, k)]
    <3>1. t = [k \in R |-> t[k]]
      OBVIOUS
    <3> HIDE DEF t, R
    <3> QED
      BY <2>1, <3>1, Zenon
  <2> QED
    BY <2>2
<1> DEFINE u == StartsTo(g, l, e)
<1>5. u = [k \in R |-> StartStep(g, l, e, u, k)]
  BY <1>4, Zenon DEF StartsTo
<1>6. ASSUME NEW k \in R
      PROVE  u[k] = IF k = b THEN g[b].start ELSE u[P(k)] + (k - P(k)) * D(P(k))
  <2>1. u[k] = StartStep(g, l, e, u, k)
    <3> HIDE DEF u, R
    <3> QED
      BY <1>5
  <2> QED
    BY <2>1 DEF StartStep
<1> HIDE DEF u, P, D
<1>7. ASSUME NEW k0 \in R, u[k0] # s[k0] PROVE FALSE
  <2> DEFINE Bad == {k \in R : u[k] # s[k]}
  <2>1. Bad \in SUBSET Nat /\ Bad # {}
    BY <1>0, <1>7
  <2>2. PICK k \in Bad : \A j \in Bad : k <= j
    <3> HIDE DEF Bad
    <3> QED
      BY <2>1, LeastNatural
  <2>3. k \in R /\ k \in Nat /\ u[k] # s[k]
    BY <1>0
  <2>4. k # b
    BY <1>2, <1>6, <2>3
  <2>5. P(k) \in R /\ P(k) < k /\ P(k) \in Nat /\ s[k] = s[P(k)] + (k - P(k)) * D(P(k))
    BY <1>0, <1>3, <2>3, <2>4
  <2>6. u[P(k)] = s[P(k)]
    <3>1. P(k) \notin Bad
      BY <2>2, <2>3, <2>5
    <3> QED
      BY <2>5, <3>1
  <2>7. u[k] = u[P(k)] + (k - P(k)) * D(P(k))
    BY <1>6, <2>3, <2>4
  <2> QED
    BY <2>3, <2>5, <2>6, <2>7
<1>8. u[m] = s[m]
  BY <1>0, <1>7
<1>9. s[e] = s[m] + (e - m) * D(m)
  <2>1. m \in R /\ m \in Nat /\ m <= e /\ e <= e /\ \A i \in R : m < i => e <= i
    BY <1>0
  <2> HIDE DEF m
  <2>2. s[e] = s[m] + (e - m) * LengthAt(g, l, e, m)
    BY <2>1, StraightWalk
  <2> QED
    BY <2>2 DEF D
<1> QED
  BY <1>8, <1>9 DEF ProjectIn, u, D

\* The length of an epoch is the one scheduled last, or the recorded one.
LEMMA LengthScheduled ==
  ASSUME NEW g, NEW l, NEW top, Geo(g, top), Pending(l, top), NEW k \in Nat, 1 <= k,
         NEW m \in DOMAIN l, m <= k, \A i \in DOMAIN l : i <= k => i <= m
  PROVE  LengthOf(g, l, k) = l[m]
<1> DEFINE b == KeyAtOrBefore(g, k)
           R == RowsTo(g, l, k)
<1>0. b \in Nat /\ b <= top /\ top \in Nat
  BY SeekFinds DEF Geo, Keyed
<1>1. m \in Nat /\ m > top /\ b < m /\ b # m
  BY <1>0 DEF Pending
<1>2. R = {b} \cup {i \in DOMAIN l : b < i /\ i <= k}
  BY DEF RowsTo
<1>3. R \in SUBSET Nat
  BY LastRow
<1>4. m \in R /\ \A j \in R : j <= m
  <2> HIDE DEF b, R
  <2> QED
    BY <1>0, <1>1, <1>2
<1>5. Max(R) = m
  <2> HIDE DEF R
  <2> QED
    BY <1>3, <1>4, MaxIs
<1> QED
  BY <1>1, <1>5 DEF LengthOf, LengthAt

\* An epoch before every scheduled change has the recorded length.
LEMMA LengthRecorded ==
  ASSUME NEW g, NEW l, NEW top, Geo(g, top), Pending(l, top), NEW k \in Nat, 1 <= k,
         \A i \in DOMAIN l : k < i
  PROVE  LengthOf(g, l, k) = LengthIn(g, k)
<1>1. RowsTo(g, l, k) = {KeyAtOrBefore(g, k)}
  BY DEF RowsTo, Pending
<1>2. Max(RowsTo(g, l, k)) = KeyAtOrBefore(g, k)
  BY <1>1, LastRow
<1> QED
  BY <1>2 DEF LengthOf, LengthAt, LengthIn

\* Which of the two it is.
LEMMA LengthCases ==
  ASSUME NEW l, NEW top, Pending(l, top), NEW k \in Nat
  PROVE  \/ \A i \in DOMAIN l : k < i
         \/ \E m \in DOMAIN l : m <= k /\ \A i \in DOMAIN l : i <= k => i <= m
<1> DEFINE T == {i \in DOMAIN l : i <= k}
<1>1. T \in SUBSET Nat /\ \A i \in T : i <= k
  BY DEF Pending
<1>2. CASE T = {}
  BY <1>2 DEF Pending
<1>3. CASE T # {}
  <2>1. PICK m \in T : \A i \in T : i <= m
    <3> HIDE DEF T
    <3> QED
      BY <1>1, <1>3, GreatestNatural
  <2> QED
    BY <2>1
<1> QED
  BY <1>2, <1>3

\* There is a walk to every epoch.
LEMMA WalkExists ==
  ASSUME NEW g, NEW l, NEW top, Geo(g, top), Pending(l, top), NEW e \in Nat, 1 <= e
  PROVE  \E s : Walks(g, l, e, s)
<1> DEFINE n == e - 1
           L(k) == LengthOf(g, l, k)
           first == [i \in 0 .. n |-> 1]
           prev == [i \in 0 .. n |-> i - 1]
           step == [i \in 0 .. n |-> [v \in Nat |-> v + L(i)]]
<1>1. ASSUME NEW k \in Nat, 1 <= k PROVE L(k) \in Nat
  BY <1>1, LastRow DEF LengthOf
<1> HIDE DEF L
<1>2. IntervalRecursion(n, Nat, {0}, first, prev, step)
  <2>1. n \in Nat
    OBVIOUS
  <2>2. \A i \in 0 .. n : i \in {0} => first[i] \in Nat
    OBVIOUS
  <2>3. \A i \in 0 .. n : i \notin {0} => prev[i] \in 0 .. (i - 1)
    OBVIOUS
  <2>4. ASSUME NEW i \in 0 .. n, NEW v \in Nat, i \notin {0} PROVE step[i][v] \in Nat
    <3>1. L(i) \in Nat
      BY <1>1, <2>4
    <3> QED
      BY <3>1
  <2> HIDE DEF n, first, prev, step
  <2> QED
    BY <2>1, <2>2, <2>3, <2>4 DEF IntervalRecursion
<1>3. PICK f : SolvesRecursion(f, n, Nat, {0}, first, prev, step)
  <2> HIDE DEF n, first, prev, step
  <2> QED
    BY <1>2, RecursionExists
<1>4. /\ f \in [0 .. n -> Nat] /\ f[0] = 1
      /\ \A i \in 1 .. n : f[i] = f[i - 1] + L(i)
  <2>1. f \in [0 .. n -> Nat] /\ \A i \in 0 .. n : f[i] = IF i \in {0} THEN first[i] ELSE step[i][f[prev[i]]]
    BY <1>3 DEF SolvesRecursion
  <2>2. f[0] = 1
    <3>1. 0 \in 0 .. n /\ first[0] = 1
      OBVIOUS
    <3> HIDE DEF n, first, prev, step
    <3> QED
      BY <2>1, <3>1
  <2>3. ASSUME NEW i \in 1 .. n PROVE f[i] = f[i - 1] + L(i)
    <3>1. i \in 0 .. n /\ i \notin {0} /\ prev[i] = i - 1 /\ i - 1 \in 0 .. n
      OBVIOUS
    <3>2. f[i] = step[i][f[i - 1]] /\ f[i - 1] \in Nat
      BY <2>1, <3>1
    <3> QED
      BY <3>1, <3>2
  <2> QED
    BY <2>1, <2>2, <2>3
<1> DEFINE s == [k \in 1 .. e |-> f[k - 1]]
<1>5. s \in [1 .. e -> Nat] /\ s[1] = 1
  BY <1>4
<1>6. ASSUME NEW k \in 1 .. (e - 1) PROVE s[k + 1] = s[k] + L(k)
  <2>1. s[k + 1] = f[k] /\ s[k] = f[k - 1] /\ k \in 1 .. n
    OBVIOUS
  <2> QED
    BY <1>4, <2>1
<1> HIDE DEF s
<1> QED
  BY <1>5, <1>6 DEF Walks, L

\* Two projections with the same lengths before e agree on e.
LEMMA ProjectSame ==
  ASSUME NEW g, NEW l, NEW top, Geo(g, top), Pending(l, top),
         NEW h, NEW m, NEW high, Geo(h, high), Pending(m, high), NEW e \in Nat, 1 <= e,
         \A k \in Nat : 1 <= k /\ k < e => LengthOf(h, m, k) = LengthOf(g, l, k)
  PROVE  ProjectIn(h, m, e) = ProjectIn(g, l, e)
<1>1. PICK s : Walks(g, l, e, s)
  BY WalkExists
<1>2. Walks(h, m, e, s)
  <2>1. \A k \in 1 .. (e - 1) : LengthOf(h, m, k) = LengthOf(g, l, k)
    OBVIOUS
  <2> QED
    BY <1>1, <2>1 DEF Walks
<1>3. ProjectIn(g, l, e) = s[e]
  BY <1>1, ProjectWalks
<1>4. ProjectIn(h, m, e) = s[e]
  BY <1>2, ProjectWalks
<1> QED
  BY <1>3, <1>4

\* Opening an epoch moves its scheduled length into the history: no epoch of
\* the projection has another length than before.
LEMMA OpeningKeepsLengths ==
  ASSUME NEW g, NEW l, NEW top \in Nat, Geo(g, top), Pending(l, top), top + 1 \in DOMAIN l, NEW r,
         r.version = g[LatestKey(g)].version + 1,
         r.start = StartIn(g, top + 1), r.length = l[top + 1]
  PROVE  /\ Geo(With(g, top + 1, r), top + 1) /\ Pending(Without(l, top + 1), top + 1)
         /\ \A k \in Nat : 1 <= k =>
              LengthOf(With(g, top + 1, r), Without(l, top + 1), k) = LengthOf(g, l, k)
<1> DEFINE n == top + 1
           h == With(g, n, r)
           m == Without(l, n)
<1>0. n \in Nat /\ n > top /\ r.length \in Lengths
  BY DEF Pending
<1>1. /\ Geo(h, n)
      /\ \A k \in Nat : 1 <= k /\ k <= top => LengthIn(h, k) = LengthIn(g, k)
  BY <1>0, GeoAppend
<1>2. DOMAIN m = DOMAIN l \ {n} /\ \A k \in DOMAIN m : m[k] = l[k]
  BY DEF Without, Restrict
<1>3. DOMAIN h = DOMAIN g \cup {n} /\ h[n] = r
  BY DEF With
<1> HIDE DEF h, m
<1>4. Pending(m, n)
  <2>1. \A k \in DOMAIN m : k \in Nat /\ k > top /\ k # n /\ m[k] \in Lengths
    BY <1>2 DEF Pending
  <2> QED
    BY <1>0, <2>1 DEF Pending
<1>5. ASSUME NEW k \in Nat, 1 <= k PROVE LengthOf(h, m, k) = LengthOf(g, l, k)
  <2>1. CASE k <= top
    <3>1. (\A i \in DOMAIN l : k < i) /\ \A i \in DOMAIN m : k < i
      BY <1>2, <2>1 DEF Pending
    <3>2. LengthOf(g, l, k) = LengthIn(g, k)
      BY <1>5, <3>1, LengthRecorded
    <3>3. LengthOf(h, m, k) = LengthIn(h, k)
      BY <1>1, <1>4, <1>5, <3>1, LengthRecorded
    <3> QED
      BY <1>1, <1>5, <2>1, <3>2, <3>3
  <2>2. CASE n <= k
    <3>1. PICK x \in DOMAIN l : x <= k /\ \A i \in DOMAIN l : i <= k => i <= x
      <4>1. ~ (\A i \in DOMAIN l : k < i)
        BY <1>0, <1>5, <2>2
      <4> QED
        BY <1>5, <4>1, LengthCases
    <3>2. LengthOf(g, l, k) = l[x]
      BY <1>5, <3>1, LengthScheduled
    <3>3. CASE x # n
      <4>1. x \in DOMAIN m /\ m[x] = l[x] /\ \A i \in DOMAIN m : i <= k => i <= x
        BY <1>2, <3>1, <3>3
      <4>2. LengthOf(h, m, k) = m[x]
        BY <1>1, <1>4, <1>5, <3>1, <4>1, LengthScheduled
      <4> QED
        BY <3>2, <4>1, <4>2
    <3>4. CASE x = n
      <4>1. \A i \in DOMAIN m : k < i
        <5> SUFFICES ASSUME NEW i \in DOMAIN m PROVE k < i
          OBVIOUS
        <5>1. i \in DOMAIN l /\ i \in Nat /\ i > n
          BY <1>2, <1>4 DEF Pending
        <5> QED
          BY <1>0, <1>5, <3>1, <3>4, <5>1
      <4>2. LengthOf(h, m, k) = LengthIn(h, k)
        BY <1>1, <1>4, <1>5, <4>1, LengthRecorded
      <4>3. KeyAtOrBefore(h, k) = n
        <5>1. IsSeek(h, k, n) /\ Keyed(h, n)
          <6>1. Keyed(h, n)
            BY <1>1 DEF Geo
          <6> QED
            BY <1>3, <2>2, <6>1 DEF IsSeek, Keyed
        <5> HIDE DEF n
        <5> QED
          BY <5>1, SeekIs
      <4> QED
        BY <1>3, <3>2, <3>4, <4>2, <4>3 DEF LengthIn
    <3> QED
      BY <3>3, <3>4
  <2> QED
    BY <1>0, <1>5, <2>1, <2>2
<1> QED
  BY <1>1, <1>4, <1>5 DEF h, m

\* A length scheduled for x changes no epoch before x.
LEMMA SchedulingKeepsEarlier ==
  ASSUME NEW g, NEW l, NEW top, Geo(g, top), Pending(l, top), NEW x \in Nat, x > top,
         NEW length \in Lengths
  PROVE  /\ Pending(With(l, x, length), top)
         /\ \A k \in Nat : 1 <= k /\ k < x =>
              LengthOf(g, With(l, x, length), k) = LengthOf(g, l, k)
         /\ x \in DOMAIN l /\ l[x] = length => \A k \in Nat : 1 <= k =>
              LengthOf(g, With(l, x, length), k) = LengthOf(g, l, k)
<1> DEFINE m == With(l, x, length)
<1>1. /\ DOMAIN m = DOMAIN l \cup {x} /\ m[x] = length
      /\ \A k \in DOMAIN l : k # x => m[k] = l[k]
  BY DEF With
<1> HIDE DEF m
<1>2. Pending(m, top)
  BY <1>1 DEF Pending
<1>3. ASSUME NEW k \in Nat, 1 <= k, k < x \/ (x \in DOMAIN l /\ l[x] = length)
      PROVE  LengthOf(g, m, k) = LengthOf(g, l, k)
  <2>1. CASE \A i \in DOMAIN l : k < i
    <3>1. \A i \in DOMAIN m : k < i
      BY <1>1, <1>3, <2>1
    <3>2. LengthOf(g, m, k) = LengthIn(g, k)
      BY <1>2, <1>3, <3>1, LengthRecorded
    <3>3. LengthOf(g, l, k) = LengthIn(g, k)
      BY <1>3, <2>1, LengthRecorded
    <3> QED
      BY <3>2, <3>3
  <2>2. CASE \E i \in DOMAIN l : i <= k /\ \A j \in DOMAIN l : j <= k => j <= i
    <3>1. PICK i \in DOMAIN l : i <= k /\ \A j \in DOMAIN l : j <= k => j <= i
      BY <2>2
    <3>2. i \in DOMAIN m /\ m[i] = l[i]
      <4>1. i \in Nat
        BY DEF Pending
      <4> QED
        BY <1>1, <1>3, <3>1, <4>1
    <3>3. \A j \in DOMAIN m : j <= k => j <= i
      BY <1>1, <1>3, <3>1
    <3>4. LengthOf(g, m, k) = m[i]
      BY <1>2, <1>3, <3>1, <3>2, <3>3, LengthScheduled
    <3>5. LengthOf(g, l, k) = l[i]
      BY <1>3, <3>1, LengthScheduled
    <3> QED
      BY <3>2, <3>4, <3>5
  <2> QED
    BY <1>3, <2>1, <2>2, LengthCases
<1> QED
  BY <1>2, <1>3 DEF m

-----------------------------------------------------------------------------
(* Nothing published is rewritten.                                         *)

\* What BeginBlock does to the geometry.
LEMMA OpeningRow ==
  ASSUME ClockInv, BeginBlock
  PROVE  \/ geometry' = geometry /\ lengths' = lengths
         \/ /\ epoch + 1 \in DOMAIN lengths
            /\ geometry' = With(geometry, epoch + 1, EpochConfigVersion(epoch + 1))
            /\ lengths' = Without(lengths, epoch + 1)
            /\ EpochConfigVersion(epoch + 1).version = geometry[LatestKey(geometry)].version + 1
            /\ EpochConfigVersion(epoch + 1).start = StartIn(geometry, epoch + 1)
            /\ EpochConfigVersion(epoch + 1).length = lengths[epoch + 1]
<1> DEFINE n == epoch + 1
<1>1. BeginBlockOK(n) /\ EpochStartHeight(n) = StartIn(geometry, n)
  BY BeginSucceeds, EpochsIn
<1>2. \/ height = StartIn(geometry, n) /\ OpenEpoch(n)
      \/ UNCHANGED <<epoch, epochStart, geometryVars>>
  BY <1>1 DEF BeginBlock
<1>3. CASE UNCHANGED <<epoch, epochStart, geometryVars>>
  BY <1>3 DEF geometryVars
<1>4. CASE height = StartIn(geometry, n) /\ OpenEpoch(n)
  <2>1. /\ EpochConfigVersion(n).version = geometry[LatestKey(geometry)].version + 1
        /\ EpochConfigVersion(n).start = height
        /\ EpochConfigVersion(n).length = lengths[n]
    BY DEF EpochConfigVersion
  <2>2. ConsumeScheduledEpochConfig(n)
    BY <1>4 DEF OpenEpoch
  <2> QED
    BY <1>4, <2>1, <2>2 DEF ConsumeScheduledEpochConfig, geometryVars
<1> QED
  BY <1>2, <1>3, <1>4

\* A projected start moves only for a length scheduled before it.
LEMMA BoundariesStay ==
  ASSUME HistoriesInv, writes \in Nat, [HistoriesNext]_vars
  PROVE  BoundariesNeverMove
<1> SUFFICES ASSUME NEW e \in Epochs,
                    ProjectIn(geometry', lengths', e) # ProjectIn(geometry, lengths, e)
             PROVE  /\ writes' > writes
                    /\ e > epoch + 1
                    /\ \E k \in DOMAIN lengths' :
                         k < e /\ (k \in DOMAIN lengths => lengths[k] # lengths'[k])
  BY ProjectIsIn DEF BoundariesNeverMove
<1>0. /\ ClockInv /\ epoch \in Nat /\ Geo(geometry, epoch) /\ Pending(lengths, epoch)
      /\ e \in Nat /\ 1 <= e
  BY HistoriesAssumption DEF HistoriesInv, ClockInv, Pending, Epochs
<1>1. ~ (geometry' = geometry /\ lengths' = lengths)
  OBVIOUS
<1>2. CASE BeginBlock
  <2> DEFINE r == EpochConfigVersion(epoch + 1)
  <2>1. /\ epoch + 1 \in DOMAIN lengths
        /\ geometry' = With(geometry, epoch + 1, r) /\ lengths' = Without(lengths, epoch + 1)
        /\ r.version = geometry[LatestKey(geometry)].version + 1
        /\ r.start = StartIn(geometry, epoch + 1) /\ r.length = lengths[epoch + 1]
    BY <1>0, <1>1, <1>2, OpeningRow
  <2> HIDE DEF r
  <2>2. /\ Geo(geometry', epoch + 1) /\ Pending(lengths', epoch + 1)
        /\ \A k \in Nat : 1 <= k =>
             LengthOf(geometry', lengths', k) = LengthOf(geometry, lengths, k)
    BY <1>0, <2>1, OpeningKeepsLengths
  <2>3. ProjectIn(geometry', lengths', e) = ProjectIn(geometry, lengths, e)
    BY <1>0, <2>2, ProjectSame
  <2> QED
    BY <2>3
<1>3. ASSUME NEW x \in Epochs, NEW length \in Lengths, ScheduleEpochLength(x, length)
      PROVE  /\ writes' > writes
             /\ e > epoch + 1
             /\ \E k \in DOMAIN lengths' :
                  k < e /\ (k \in DOMAIN lengths => lengths[k] # lengths'[k])
  <2>1. /\ geometry' = geometry /\ lengths' = With(lengths, x, length) /\ writes' = writes + 1
        /\ x \in Future
    BY <1>3 DEF ScheduleEpochLength
  <2>2. x \in Nat /\ x > epoch
    BY <1>0, <2>1, HistoriesAssumption DEF Future
  <2>3. /\ Pending(lengths', epoch)
        /\ \A k \in Nat : 1 <= k /\ k < x =>
             LengthOf(geometry, lengths', k) = LengthOf(geometry, lengths, k)
        /\ x \in DOMAIN lengths /\ lengths[x] = length => \A k \in Nat : 1 <= k =>
             LengthOf(geometry, lengths', k) = LengthOf(geometry, lengths, k)
    BY <1>0, <1>3, <2>1, <2>2, SchedulingKeepsEarlier
  <2>4. ~ (\A k \in Nat : 1 <= k /\ k < e =>
             LengthOf(geometry, lengths', k) = LengthOf(geometry, lengths, k))
    BY <1>0, <2>1, <2>3, ProjectSame
  <2>5. x < e
    BY <1>0, <2>2, <2>3, <2>4
  <2>6. x \in DOMAIN lengths' /\ lengths'[x] = length
    BY <2>1 DEF With
  <2>7. x \in DOMAIN lengths => lengths[x] # lengths'[x]
    BY <2>3, <2>4, <2>6
  <2>8. writes' > writes /\ e > epoch + 1
    BY <1>0, <2>1, <2>2, <2>5
  <2> QED
    BY <2>5, <2>6, <2>7, <2>8
<1>4. ASSUME NEW entitled \in BOOLEAN, EndBlock(entitled) PROVE FALSE
  BY <1>1, <1>4 DEF EndBlock
<1>5. ASSUME NEW f \in Families, NEW k \in Epochs, NEW value \in Values[f],
             ScheduleVersion(f, k, value)
      PROVE  FALSE
  BY <1>1, <1>5 DEF ScheduleVersion, geometryVars
<1>6. ASSUME NEW f \in Families, NEW v \in DOMAIN index[f], LoseIndexEntry(f, v) PROVE FALSE
  BY <1>1, <1>6 DEF LoseIndexEntry, geometryVars
<1>7. CASE UNCHANGED vars
  BY <1>1, <1>7 DEF vars, geometryVars
<1> QED
  BY <1>2, <1>3, <1>4, <1>5, <1>6, <1>7 DEF HistoriesNext

\* What a target is paid under is fixed when the epoch it binds opens.
LEMMA BindingsAreFixed ==
  ASSUME HistoriesInv, [HistoriesNext]_vars
  PROVE  BindingsFixed
<1> SUFFICES ASSUME NEW t \in Epochs, epoch >= t - 2
             PROVE  /\ RewardConfigForTarget(t)' = RewardConfigForTarget(t)
                    /\ DistributionModeForTarget(t).version' = DistributionModeForTarget(t).version
                    /\ SettlementParamsForTarget(t)' = SettlementParamsForTarget(t)
  BY DEF BindingsFixed
<1>0. ClockInv /\ FamiliesInv /\ epoch \in Nat /\ 1 <= epoch /\ t \in Nat /\ 1 <= t
  BY HistoriesAssumption DEF HistoriesInv, ClockInv, Epochs
<1>1. CASE versions' = versions
  <2>1. BindingEpoch(t)' = BindingEpoch(t)
    BY DEF BindingEpoch
  <2> QED
    BY <1>1, <2>1 DEF RewardConfigForTarget, DistributionModeForTarget, SettlementParamsForTarget
<1>2. ASSUME NEW entitled \in BOOLEAN, EndBlock(entitled)
      PROVE  /\ RewardConfigForTarget(t)' = RewardConfigForTarget(t)
             /\ DistributionModeForTarget(t).version' = DistributionModeForTarget(t).version
             /\ SettlementParamsForTarget(t)' = SettlementParamsForTarget(t)
  <2>1. VersionsStep(epoch + 1)
    BY <1>2, EndKeeps
  <2>2. LastClosed + 1 = epoch
    BY <1>0, <1>2, ClosedRange DEF EndBlock
  <2>3. \A f \in Families : Numbered(versions[f], epoch)
    BY <1>0, <2>2 DEF FamiliesInv, FamilyInv
  <2> QED
    BY <1>0, <2>1, <2>3, BindingsStay
<1>3. ASSUME BeginBlock PROVE versions' = versions
  BY <1>3 DEF BeginBlock, familyVars
<1>4. ASSUME NEW x \in Epochs, NEW length \in Lengths, ScheduleEpochLength(x, length)
      PROVE  versions' = versions
  BY <1>4 DEF ScheduleEpochLength, familyVars
<1>5. ASSUME NEW f \in Families, NEW k \in Epochs, NEW value \in Values[f],
             ScheduleVersion(f, k, value)
      PROVE  versions' = versions
  BY <1>5 DEF ScheduleVersion
<1>6. ASSUME NEW f \in Families, NEW v \in DOMAIN index[f], LoseIndexEntry(f, v)
      PROVE  versions' = versions
  BY <1>6 DEF LoseIndexEntry
<1>7. ASSUME UNCHANGED vars PROVE versions' = versions
  BY <1>7 DEF vars, familyVars
<1> QED
  BY <1>1, <1>2, <1>3, <1>4, <1>5, <1>6, <1>7 DEF HistoriesNext

\* The counter of the writes is a number.
LEMMA WritesCounted == HistoriesSpec => [](writes \in Nat)
<1>1. HistoriesInit => writes \in Nat
  BY DEF HistoriesInit
<1>2. writes \in Nat /\ [HistoriesNext]_vars => (writes \in Nat)'
  <2> SUFFICES ASSUME writes \in Nat, [HistoriesNext]_vars
               PROVE  writes' = writes \/ writes' = writes + 1
    OBVIOUS
  <2>1. ASSUME HistoriesNext PROVE writes' = writes \/ writes' = writes + 1
    BY <2>1 DEF HistoriesNext, BeginBlock, EndBlock, ScheduleEpochLength, ScheduleVersion,
                LoseIndexEntry
  <2>2. ASSUME UNCHANGED vars PROVE writes' = writes
    BY <2>2 DEF vars
  <2> QED
    BY <2>1, <2>2
<1> QED
  BY <1>1, <1>2, PTL DEF HistoriesSpec

\* Neither what an epoch is paid under nor where it begins is ever rewritten
\* (bindingEpochForTarget, ProjectEpochStartHeight, advanceEpochIfDue).
THEOREM HistoryIsStable == HistoriesSpec => HistoryStable
<1>1. HistoriesInv /\ writes \in Nat /\ [HistoriesNext]_vars
        => [BindingsFixed /\ BoundariesNeverMove]_vars
  BY BindingsAreFixed, BoundariesStay
<1> QED
  BY <1>1, HistoriesInvariant, WritesCounted, PTL DEF HistoriesSpec, HistoryStable
=============================================================================
