-------------------------- MODULE CombinedServerProofs ------------------------
(* The pages of the combined server, for any number of browsers, slots and *)
(* forms.                                                                  *)
EXTENDS CombinedServer, FiniteSetTheorems, SequenceTheorems, TLAPS

-----------------------------------------------------------------------------
(* Columns.  The rank of a slot among those that are enabled.              *)
Rank(on, i) == Cardinality({j \in on : j <= i})

LEMMA SlotsFinite ==
  ASSUME NEW on \in SUBSET Slot
  PROVE  /\ IsFiniteSet(on) /\ Cardinality(on) \in Nat /\ on \subseteq Nat
         /\ \A T \in SUBSET on : IsFiniteSet(T) /\ Cardinality(T) <= Cardinality(on)
<1>1. IsFiniteSet(Slot)
  BY FS_Interval, CombinedAssumption DEF Slot
<1>2. IsFiniteSet(on)
  BY <1>1, FS_Subset
<1>3. \A T \in SUBSET on : IsFiniteSet(T) /\ Cardinality(T) <= Cardinality(on)
  BY <1>2, FS_Subset
<1>4. Cardinality(on) \in Nat
  BY <1>2, FS_CardinalityType
<1> QED
  BY <1>2, <1>3, <1>4, CombinedAssumption DEF Slot

(* Ranks count from 1 and grow with the slots.                             *)
LEMMA RankGrows ==
  ASSUME NEW on \in SUBSET Slot
  PROVE  /\ \A i \in on : Rank(on, i) \in 1 .. Cardinality(on)
         /\ \A i, k \in on : i < k => Rank(on, i) < Rank(on, k)
<1> DEFINE U(i) == {j \in on : j <= i}
<1>1. \A i \in on : /\ IsFiniteSet(U(i)) /\ Cardinality(U(i)) <= Cardinality(on)
                    /\ Cardinality(U(i)) \in Nat
  BY SlotsFinite, FS_CardinalityType
<1>2. ASSUME NEW i \in on
      PROVE  Rank(on, i) \in 1 .. Cardinality(on)
  <2>1. i \in U(i)
    BY SlotsFinite
  <2>2. Cardinality(U(i)) # 0
    <3> DEFINE T == U(i)
    <3>1. IsFiniteSet(T) /\ T # {}
      BY <1>1, <2>1
    <3> HIDE DEF T
    <3>2. Cardinality(T) # 0
      BY <3>1, FS_EmptySet
    <3> QED
      BY <3>2 DEF T
  <2>3. Rank(on, i) = Cardinality(U(i))
    BY DEF Rank
  <2>4. Cardinality(on) \in Nat
    BY SlotsFinite
  <2> HIDE DEF U
  <2> QED
    BY <1>1, <2>2, <2>3, <2>4
<1>3. ASSUME NEW i \in on, NEW k \in on, i < k
      PROVE  Rank(on, i) < Rank(on, k)
  <2> DEFINE T == U(i)
             V == U(k)
  <2>1. k \notin T /\ T \cup {k} \in SUBSET V
    BY <1>3, SlotsFinite
  <2>2. IsFiniteSet(T) /\ IsFiniteSet(V) /\ Cardinality(T) \in Nat /\ Cardinality(V) \in Nat
    BY <1>1
  <2>3. Rank(on, i) = Cardinality(T) /\ Rank(on, k) = Cardinality(V)
    BY DEF Rank
  <2> HIDE DEF T, V, U
  <2>4. Cardinality(T \cup {k}) = Cardinality(T) + 1
    BY <2>1, <2>2, FS_AddElement
  <2>5. Cardinality(T \cup {k}) <= Cardinality(V)
    BY <2>1, <2>2, FS_Subset
  <2> QED
    BY <2>2, <2>3, <2>4, <2>5
<1> QED
  BY <1>2, <1>3

(* The slots can be listed in their order.                                 *)
LEMMA Listed ==
  ASSUME NEW on \in SUBSET Slot
  PROVE  \E s \in [1 .. Cardinality(on) -> on] : Ascending(s)
<1> DEFINE n == Cardinality(on)
           rank == [i \in on |-> Rank(on, i)]
<1>1. n \in Nat /\ IsFiniteSet(on) /\ on \subseteq Nat
  BY SlotsFinite
<1>2. /\ \A i \in on : Rank(on, i) \in 1 .. n
      /\ \A i, k \in on : i < k => Rank(on, i) < Rank(on, k)
  BY RankGrows
<1>3. rank \in Injection(on, 1 .. n)
  <2>1. rank \in [on -> 1 .. n]
    BY <1>2
  <2>2. \A i, k \in on : rank[i] = rank[k] => i = k
    <3> SUFFICES ASSUME NEW i \in on, NEW k \in on, Rank(on, i) = Rank(on, k)
                 PROVE  i = k
      OBVIOUS
    <3>1. i \in Nat /\ k \in Nat /\ Rank(on, i) \in Nat
      BY <1>1, <1>2
    <3> QED
      BY <1>2, <3>1
  <2> QED
    BY <2>1, <2>2 DEF Injection, IsInjective
<1>4. IsFiniteSet(1 .. n) /\ Cardinality(1 .. n) = n
  <2> HIDE DEF n
  <2>1. 1 \in Int /\ n \in Int /\ (1 > n => n = 0) /\ n - 1 + 1 = n
    BY <1>1
  <2> QED
    BY <2>1, FS_Interval
<1>5. rank \in Surjection(on, 1 .. n)
  <2> HIDE DEF rank
  <2> QED
    BY <1>3, <1>4, FS_Injection
<1>6. \A k \in 1 .. n : \E i \in on : Rank(on, i) = k
  BY <1>5 DEF Surjection
<1> DEFINE s == [k \in 1 .. n |-> CHOOSE i \in on : Rank(on, i) = k]
<1> HIDE DEF n
<1>7. \A k \in 1 .. n : s[k] \in on /\ Rank(on, s[k]) = k
  BY <1>6
<1>8. \A j, k \in 1 .. n : j < k => s[j] < s[k]
  <2> SUFFICES ASSUME NEW j \in 1 .. n, NEW k \in 1 .. n, j < k, ~ s[j] < s[k]
               PROVE  FALSE
    OBVIOUS
  <2> DEFINE a == s[j]
             b == s[k]
  <2>1. a \in on /\ b \in on /\ Rank(on, a) = j /\ Rank(on, b) = k /\ ~ a < b
    BY <1>7
  <2>2. j \in Nat /\ k \in Nat /\ j < k
    BY <1>1
  <2> HIDE DEF s, a, b
  <2>3. a \in Nat /\ b \in Nat
    BY <1>1, <2>1
  <2>4. b < a \/ b = a
    BY <2>1, <2>3
  <2> QED
    BY <1>2, <2>1, <2>2, <2>4
<1>9. s \in [1 .. n -> on] /\ DOMAIN s = 1 .. n
  BY <1>7
<1> HIDE DEF s
<1>10. s \in [1 .. n -> on] /\ Ascending(s)
  BY <1>8, <1>9 DEF Ascending
<1> QED
  BY <1>10 DEF n

(* In such a list every slot stands at the place of its rank.              *)
LEMMA ListedByRank ==
  ASSUME NEW on \in SUBSET Slot,
         NEW s \in [1 .. Cardinality(on) -> on], Ascending(s)
  PROVE  /\ {s[k] : k \in 1 .. Cardinality(on)} = on
         /\ \A i \in on : Rank(on, i) \in 1 .. Cardinality(on) /\ s[Rank(on, i)] = i
<1> DEFINE n == Cardinality(on)
<1>1. n \in Nat /\ IsFiniteSet(on) /\ on \subseteq Nat
  BY SlotsFinite
<1>2. \A m \in Nat : IsFiniteSet(1 .. m) /\ Cardinality(1 .. m) = m
  <2> SUFFICES ASSUME NEW m \in Nat
               PROVE  IsFiniteSet(1 .. m) /\ Cardinality(1 .. m) = m
    OBVIOUS
  <2>1. 1 \in Int /\ m \in Int /\ (1 > m => m = 0) /\ m - 1 + 1 = m
    OBVIOUS
  <2> QED
    BY <2>1, FS_Interval
<1>3. s \in [1 .. n -> on] /\ DOMAIN s = 1 .. n /\ \A j, k \in 1 .. n : j < k => s[j] < s[k]
  BY DEF Ascending
<1> HIDE DEF n
<1>4. \A j, k \in 1 .. n : (s[j] = s[k] => j = k) /\ (s[j] <= s[k] <=> j <= k)
  <2> SUFFICES ASSUME NEW j \in 1 .. n, NEW k \in 1 .. n
               PROVE  (s[j] = s[k] => j = k) /\ (s[j] <= s[k] <=> j <= k)
    OBVIOUS
  <2> DEFINE a == s[j]
             b == s[k]
  <2>1. a \in on /\ b \in on
    BY <1>3
  <2>2. (j < k => a < b) /\ (k < j => b < a) /\ (j = k => a = b)
    BY <1>3
  <2>3. j \in Nat /\ k \in Nat
    BY <1>1
  <2> HIDE DEF a, b
  <2>4. a \in Nat /\ b \in Nat
    BY <1>1, <2>1
  <2>5. (a = b => j = k) /\ (a <= b <=> j <= k)
    BY <2>2, <2>3, <2>4
  <2> QED
    BY <2>5 DEF a, b
<1>5. s \in Injection(1 .. n, on)
  BY <1>3, <1>4 DEF Injection, IsInjective
<1>6. s \in Surjection(1 .. n, on)
  <2>1. Cardinality(1 .. n) = Cardinality(on)
    BY <1>1, <1>2 DEF n
  <2> QED
    BY <1>1, <1>5, <2>1, FS_Injection
<1>7. {s[k] : k \in 1 .. n} = on
  BY <1>3, <1>6 DEF Surjection
<1>8. ASSUME NEW k \in 1 .. n
      PROVE  Rank(on, s[k]) = k
  <2> DEFINE T == {j \in on : j <= s[k]}
             f == [j \in 1 .. k |-> s[j]]
  <2>1. k \in Nat /\ \A j \in 1 .. k : j \in 1 .. n
    BY <1>1
  <2>2. f \in [1 .. k -> T]
    <3> SUFFICES ASSUME NEW j \in 1 .. k PROVE s[j] \in T
      OBVIOUS
    <3>1. j \in 1 .. n /\ j <= k
      BY <2>1
    <3> QED
      BY <1>3, <1>4, <3>1
  <2>3. \A i \in T : \E j \in 1 .. k : f[j] = i
    <3> SUFFICES ASSUME NEW i \in T PROVE \E j \in 1 .. k : f[j] = i
      OBVIOUS
    <3>1. PICK j \in 1 .. n : s[j] = i
      BY <1>7
    <3>2. j \in 1 .. k
      BY <1>4, <3>1, <2>1
    <3> QED
      BY <3>1, <3>2
  <2>4. f \in Injection(1 .. k, T)
    <3>1. \A a, b \in 1 .. k : f[a] = f[b] => a = b
      BY <1>4, <2>1
    <3> QED
      BY <2>2, <3>1 DEF Injection, IsInjective
  <2>5. f \in Surjection(1 .. k, T)
    BY <2>2, <2>3 DEF Surjection
  <2>6. Rank(on, s[k]) = Cardinality(T)
    BY DEF Rank
  <2> HIDE DEF T, f
  <2>7. Cardinality(T) = Cardinality(1 .. k)
    BY <1>2, <2>1, <2>4, <2>5, FS_Surjection
  <2> QED
    BY <1>2, <2>1, <2>6, <2>7
<1>9. \A i \in on : Rank(on, i) \in 1 .. n /\ s[Rank(on, i)] = i
  <2> SUFFICES ASSUME NEW i \in on
               PROVE  Rank(on, i) \in 1 .. n /\ s[Rank(on, i)] = i
    OBVIOUS
  <2>1. PICK k \in 1 .. n : s[k] = i
    BY <1>7
  <2> QED
    BY <1>8, <2>1
<1> QED
  BY <1>7, <1>9 DEF n

-----------------------------------------------------------------------------
(* A slot that is enabled names a server.                                  *)
Named == \A i \in enable : host[i] \in Browser /\ port[i] \in Browser

(* Sessions run for one browser, whose page has a column for each of them. *)
Running ==
  srv = "run" =>
    /\ cur \in Browser /\ sess[cur] = "send"
    /\ \A i \in Slot : client[i] # "off" => i \in enable
    /\ \A i \in enable : index[i] \in DOMAIN page[cur] /\ page[cur][index[i]].slot = i

Served(b) == sess[b] = "over" \/ (srv = "run" /\ cur = b)

(* A page is written once, and for itself; and a query is parsed by its    *)
(* own session before any other gets its memory.                           *)
Handled ==
  \A b \in Browser :
    /\ answer[b] = "console" \/ shown[b] # {} => Served(b)
    /\ b \in cut => Served(b)
    /\ \A c \in Browser : line[b] = c /\ c # b => sess[c] = "over"
    /\ line[b] # 0 => sess[b] \in {"send", "over"}

IInv == TypeOK /\ Named /\ Running /\ Handled /\ PageExplained

LEMMA InitInv == Init => IInv
<1> SUFFICES ASSUME Init PROVE IInv
  OBVIOUS
<1>1. TypeOK
  <2>1. <<>> \in Seq(Column)
    BY EmptySeq
  <2>2. 0 \in 0 .. SERVER_SIZE
    BY CombinedAssumption
  <2>3. index \in [Slot -> 0 .. SERVER_SIZE]
    BY <2>2 DEF Init
  <2>4. shown \in [Browser -> SUBSET ((0 .. SERVER_SIZE) \X Slot)]
    BY DEF Init
  <2>5. page \in [Browser -> Seq(Column)]
    BY <2>1 DEF Init
  <2>6. /\ request \in Requests /\ peer \in [Browser -> {"away", "here", "asked", "gone"}]
        /\ srv \in {"up", "run", "dead"} /\ sess \in [Browser -> {"none", "read", "send", "over"}]
        /\ enable \in SUBSET Slot /\ cur \in Browser \cup {0} /\ stopped \in BOOLEAN
        /\ host \in [Slot -> Browser \cup {0}] /\ port \in [Slot -> Browser \cup {0}]
    BY DEF Init
  <2>7. /\ client \in [Slot -> {"off", "resolve", "connect", "read", "ended"}]
        /\ answer \in [Browser -> {"none", "panel", "console"}]
        /\ line \in [Browser -> Browser \cup {0}] /\ cut \in SUBSET Browser
    BY DEF Init
  <2> QED
    BY <2>3, <2>4, <2>5, <2>6, <2>7 DEF TypeOK
<1>2. Named /\ Running
  BY DEF Init, Named, Running
<1>3. Handled
  BY CombinedAssumption DEF Init, Handled
<1>4. PageExplained
  BY DEF Init, PageExplained
<1> QED
  BY <1>1, <1>2, <1>3, <1>4 DEF IInv

-----------------------------------------------------------------------------
(* Steps beside the console: table, sessions and pages stay.               *)
LEMMA AsideKeeps ==
  ASSUME IInv, TypeOK', srv # "run" \/ sess' = sess,
         UNCHANGED <<request, table, inner, cut, page, shown>>,
         srv' = srv \/ (srv = "up" /\ srv' = "dead"),
         \A b \in Browser : /\ sess[b] = "over" => sess'[b] = "over"
                            /\ answer'[b] = answer[b] \/ answer'[b] # "console"
                            /\ \/ line'[b] = line[b] /\ (sess[b] = "send" => sess'[b] \in {"send", "over"})
                               \/ /\ sess[b] = "read" /\ sess'[b] = "send"
                                  /\ \A c \in Browser : line'[b] = c /\ c # b => sess[c] = "over"
  PROVE  IInv'
<1> USE DEF IInv, table, inner
<1>1. Named' /\ Running'
  BY DEF Named, Running
<1>2. \A b \in Browser : Served(b) => Served(b)'
  BY DEF Served
<1>3. Handled'
  <2> SUFFICES ASSUME NEW b \in Browser
               PROVE  /\ answer'[b] = "console" \/ shown'[b] # {} => Served(b)'
                      /\ b \in cut' => Served(b)'
                      /\ \A c \in Browser : line'[b] = c /\ c # b => sess'[c] = "over"
                      /\ line'[b] # 0 => sess'[b] \in {"send", "over"}
    BY DEF Handled
  <2>1. (answer'[b] = "console" \/ shown'[b] # {} => Served(b)') /\ (b \in cut' => Served(b)')
    BY <1>2 DEF Handled
  <2>2. CASE line'[b] = line[b] /\ (sess[b] = "send" => sess'[b] \in {"send", "over"})
    BY <2>1, <2>2 DEF Handled
  <2>3. CASE /\ sess[b] = "read" /\ sess'[b] = "send"
             /\ \A c \in Browser : line'[b] = c /\ c # b => sess[c] = "over"
    BY <2>1, <2>3
  <2> QED
    BY <2>2, <2>3
<1>4. PageExplained'
  <2>1. ASSUME NEW b \in Browser, answer'[b] = "console"
        PROVE  answer[b] = "console" /\ line'[b] = line[b]
    <3>1. answer[b] = "console"
      BY <2>1
    <3>2. sess[b] # "read"
      BY <3>1 DEF Handled, Running, Served
    <3> QED
      BY <3>1, <3>2
  <2>2. \A b : Full(b)' = Full(b) /\ Slots(b)' = Slots(b)
    BY DEF Full, Slots
  <2> QED
    BY <2>1, <2>2 DEF PageExplained
<1> QED
  BY <1>1, <1>3, <1>4

LEMMA OutsideKeeps ==
  ASSUME IInv, NEW b \in Browser,
         \/ Connects(b) \/ Asks(b) \/ Leaves(b)
         \/ do_accept(b) \/ get_http_data(b) \/ send_cgi_web(b) \/ SendFails(b)
  PROVE  IInv'
<1> USE DEF IInv
<1>1. CASE Connects(b) \/ Asks(b) \/ Leaves(b)
  <2>1. UNCHANGED <<request, srv, sess, strings, table, inner, pages>>
    BY <1>1 DEF Connects, Asks, Leaves, Moves
  <2>2. peer' \in [Browser -> {"away", "here", "asked", "gone"}]
    BY <1>1 DEF Connects, Asks, Leaves, Moves, TypeOK
  <2>3. TypeOK'
    BY <2>1, <2>2 DEF TypeOK, strings, table, inner, pages
  <2> QED
    BY <2>1, <2>3, AsideKeeps DEF pages, strings
<1>2. CASE do_accept(b)
  <2>1. TypeOK'
    BY <1>2 DEF do_accept, TypeOK, net, strings, table, inner, pages
  <2>2. \A c \in Browser : /\ sess[c] = "over" => sess'[c] = "over"
                           /\ sess[c] = "send" => sess'[c] = "send"
    BY <1>2 DEF do_accept, TypeOK
  <2> QED
    BY <1>2, <2>1, <2>2, AsideKeeps DEF do_accept, net, pages, strings
<1>3. CASE get_http_data(b)
  <2>1. /\ srv = "up" /\ sess[b] = "read" /\ UNCHANGED <<net, cut, table, inner, pages>>
        /\ srv' \in {"up", "dead"}
    BY <1>3 DEF get_http_data
  <2>2. CASE peer[b] = "asked" /\ parse_http_header(b) /\ sess' = [sess EXCEPT ![b] = "send"]
    <3>1. PICK c \in {0} \cup {line[d] : d \in {e \in Browser : sess[e] = "over"}} \cup {b} :
            line' = [line EXCEPT ![b] = c]
      BY <2>2 DEF parse_http_header
    <3>2. c \in Browser \cup {0}
      BY <3>1 DEF TypeOK
    <3>3. ASSUME c \in Browser, c # b PROVE sess[c] = "over"
      <4>1. c # 0
        BY <3>3, CombinedAssumption
      <4>2. PICK d \in Browser : sess[d] = "over" /\ c = line[d]
        BY <3>1, <3>3, <4>1
      <4> QED
        BY <3>3, <4>2 DEF Handled
    <3>4. TypeOK'
      BY <2>1, <2>2, <3>1, <3>2 DEF TypeOK, net, table, inner, pages
    <3>5. line'[b] = c /\ sess'[b] = "send"
          /\ \A d \in Browser \ {b} : line'[d] = line[d] /\ sess'[d] = sess[d]
      BY <2>2, <3>1 DEF TypeOK
    <3>6. \A d \in Browser :
            /\ sess[d] = "over" => sess'[d] = "over"
            /\ \/ line'[d] = line[d] /\ (sess[d] = "send" => sess'[d] \in {"send", "over"})
               \/ /\ sess[d] = "read" /\ sess'[d] = "send"
                  /\ \A e \in Browser : line'[d] = e /\ e # d => sess[e] = "over"
      BY <2>1, <3>3, <3>5
    <3> QED
      BY <2>1, <3>4, <3>6, AsideKeeps DEF net, pages
  <2>3. CASE sess' = [sess EXCEPT ![b] = "over"] /\ line' = line
    <3>1. TypeOK'
      BY <2>1, <2>3 DEF TypeOK, net, table, inner, pages
    <3>2. \A c \in Browser : /\ sess[c] = "over" => sess'[c] = "over"
                             /\ sess[c] = "send" => sess'[c] = "send"
      BY <2>1, <2>3 DEF TypeOK
    <3> QED
      BY <2>1, <2>3, <3>1, <3>2, AsideKeeps DEF net, pages
  <2>4. CASE UNCHANGED <<sess, line>>
    <3>1. TypeOK'
      BY <2>1, <2>4 DEF TypeOK, net, table, inner, pages
    <3> QED
      BY <2>1, <2>4, <3>1, AsideKeeps DEF net, pages
  <2> QED
    BY <1>3, <2>2, <2>3, <2>4 DEF get_http_data, Over
<1>4. CASE send_cgi_web(b) \/ SendFails(b)
  <2>1. /\ srv = "up" /\ sess[b] = "send" /\ srv' \in {"up", "dead"}
        /\ UNCHANGED <<request, peer, line, cut, table, inner, page, shown>>
        /\ sess' = sess \/ sess' = [sess EXCEPT ![b] = "over"]
        /\ \/ answer' = answer
           \/ answer' = [answer EXCEPT ![b] = IF cgi_name(b) = "panel" THEN "panel" ELSE @]
    BY <1>4 DEF send_cgi_web, SendFails, Over, net, strings, pages
  <2>2. TypeOK'
    BY <2>1 DEF TypeOK, table, inner
  <2>3. \A c \in Browser : /\ sess[c] = "over" => sess'[c] = "over"
                           /\ sess[c] = "send" => sess'[c] \in {"send", "over"}
                           /\ answer'[c] = answer[c] \/ answer'[c] # "console"
    BY <2>1 DEF TypeOK
  <2> QED
    BY <2>1, <2>2, <2>3, AsideKeeps
<1> QED
  BY <1>1, <1>2, <1>3, <1>4

-----------------------------------------------------------------------------
(* A console request.                                                      *)
LEMMA Columns ==
  ASSUME NEW on \in SUBSET Slot, NEW s \in [1 .. Cardinality(on) -> on], Ascending(s)
  PROVE  /\ s \in Seq(on) /\ DOMAIN s = 1 .. Cardinality(on)
         /\ {s[k] : k \in DOMAIN s} = on
         /\ \A i \in on : Rank(on, i) \in DOMAIN s /\ s[Rank(on, i)] = i
         /\ Cardinality(on) \in Nat
<1> DEFINE n == Cardinality(on)
<1>1. s \in [1 .. n -> on] /\ Ascending(s)
  OBVIOUS
<1>2. n \in Nat
  BY SlotsFinite
<1>3. DOMAIN s = 1 .. n
  BY <1>1
<1> HIDE DEF n
<1>4. s \in Seq(on)
  BY <1>1, <1>2, SeqDef
<1> USE DEF n
<1> QED
  BY <1>1, <1>2, <1>3, <1>4, ListedByRank

LEMMA RankInForm ==
  ASSUME NEW on \in SUBSET Slot, NEW i \in on
  PROVE  Rank(on, i) \in 0 .. SERVER_SIZE
<1>1. Rank(on, i) \in 1 .. Cardinality(on) /\ Cardinality(on) \in Nat
  BY RankGrows, SlotsFinite
<1>2. IsFiniteSet(Slot) /\ Cardinality(Slot) = SERVER_SIZE
  <2>1. 1 \in Int /\ SERVER_SIZE \in Int /\ (1 > SERVER_SIZE => SERVER_SIZE = 0)
        /\ SERVER_SIZE - 1 + 1 = SERVER_SIZE
    BY CombinedAssumption
  <2> QED
    BY <2>1, FS_Interval DEF Slot
<1>3. Cardinality(on) <= SERVER_SIZE
  BY <1>2, FS_Subset
<1> QED
  BY <1>1, <1>3, CombinedAssumption

(* What a console request leaves in the table and on its page.             *)
LEMMA ServiceTable ==
  ASSUME IInv, NEW b \in Browser, do_service(b)
  PROVE  /\ enable' \in SUBSET Slot
         /\ host' \in [Slot -> Browser \cup {0}] /\ port' \in [Slot -> Browser \cup {0}]
         /\ Named'
         /\ line[b] \in Browser /\ cut' = cut \cup {line[b]}
         /\ line[b] = b =>
              Full(b) \subseteq enable' /\ \A i \in Full(b) : host'[i] = b /\ port'[i] = b
         /\ index' \in [Slot -> 0 .. SERVER_SIZE]
         /\ \A i \in enable' : index'[i] = Rank(enable', i)
<1> USE DEF IInv
<1> DEFINE c == line[b]
           form == query(c)
<1>1. c \in Browser
  BY DEF do_service, cgi_name, TypeOK
<1>2. /\ enable' = enable \cup {i \in Slot : form[i] = "full"}
      /\ host' = [i \in Slot |-> IF form[i] # "empty" THEN c ELSE host[i]]
      /\ port' = [i \in Slot |-> IF form[i] = "full" THEN c ELSE port[i]]
      /\ cut' = cut \cup {c}
  BY DEF do_service, parse_query
<1>3. c = b => form = request[b].form
  <2>1. b \notin cut
    BY DEF Handled, Served, do_service
  <2> QED
    BY <2>1 DEF query
<1> HIDE DEF c, form
<1>4. enable' \in SUBSET Slot
  BY <1>2 DEF TypeOK
<1>5. /\ host' \in [Slot -> Browser \cup {0}] /\ port' \in [Slot -> Browser \cup {0}]
  BY <1>1, <1>2 DEF TypeOK
<1>6. c = b => Full(b) \subseteq enable' /\ \A i \in Full(b) : host'[i] = b /\ port'[i] = b
  BY <1>2, <1>3 DEF Full
<1>7. Named'
  <2> SUFFICES ASSUME NEW i \in enable' PROVE host'[i] \in Browser /\ port'[i] \in Browser
    BY DEF Named
  <2>1. CASE form[i] = "full"
    BY <1>1, <1>2, <1>4, <2>1
  <2>2. CASE form[i] # "full"
    <3>1. host[i] \in Browser /\ port[i] \in Browser
      BY <1>2, <2>2 DEF Named
    <3> QED
      BY <1>1, <1>2, <1>4, <2>2, <3>1
  <2> QED
    BY <2>1, <2>2
<1>8. \A i \in enable' : column(i) = Rank(enable', i)
  BY DEF column, Rank
<1>9. /\ index' = [i \in Slot |-> IF i \in enable' THEN column(i) ELSE index[i]]
      /\ index \in [Slot -> 0 .. SERVER_SIZE]
  BY DEF do_service, TypeOK
<1>10. \A i \in enable' : index'[i] = Rank(enable', i)
  BY <1>4, <1>8, <1>9
<1>11. \A i \in enable' : Rank(enable', i) \in 0 .. SERVER_SIZE
  BY <1>4, RankInForm
<1>12. index' \in [Slot -> 0 .. SERVER_SIZE]
  BY <1>8, <1>9, <1>11
<1> QED
  BY <1>1, <1>2, <1>4, <1>5, <1>6, <1>7, <1>10, <1>12 DEF c

LEMMA ServicePage ==
  ASSUME IInv, NEW b \in Browser, do_service(b)
  PROVE  /\ page' = [page EXCEPT ![b] = page'[b]] /\ page'[b] \in Seq(Column)
         /\ Slots(b)' = enable'
         /\ line[b] = b => \A c \in DOMAIN page'[b] : LET col == page'[b][c] IN
              col.slot \in Full(b) => col.host = b /\ col.port = b
         /\ \A i \in enable' : index'[i] \in DOMAIN page'[b] /\ page'[b][index'[i]].slot = i
<1> DEFINE on == enable'
           s == CHOOSE t \in [1 .. Cardinality(on) -> on] : Ascending(t)
           cols == [k \in DOMAIN s |->
                     [slot |-> s[k], host |-> host'[s[k]], port |-> port'[s[k]]]]
<1>1. page' = [page EXCEPT ![b] = cols]
  BY DEF do_service, print_html_web
<1>2. page \in [Browser -> Seq(Column)]
  BY DEF IInv, TypeOK
<1>3. page'[b] = cols
  BY <1>1, <1>2
<1>4. on \in SUBSET Slot /\ Named'
  BY ServiceTable
<1>5. /\ s \in Seq(on) /\ DOMAIN s = 1 .. Cardinality(on) /\ Cardinality(on) \in Nat
      /\ {s[k] : k \in DOMAIN s} = on
      /\ \A i \in on : Rank(on, i) \in DOMAIN s /\ s[Rank(on, i)] = i
  <2>1. \E t \in [1 .. Cardinality(on) -> on] : Ascending(t)
    BY <1>4, Listed
  <2>2. s \in [1 .. Cardinality(on) -> on] /\ Ascending(s)
    BY <2>1
  <2> HIDE DEF s, on
  <2> QED
    BY <1>4, <2>2, Columns
<1> HIDE DEF s
<1>6. \A k \in DOMAIN s : s[k] \in on /\ host'[s[k]] \in Browser /\ port'[s[k]] \in Browser
  BY <1>4, <1>5 DEF Named
<1>7. \A k \in DOMAIN s : cols[k] \in Column
  BY <1>4, <1>6 DEF Column
<1>8. DOMAIN cols = DOMAIN s
  OBVIOUS
<1>9. cols \in [1 .. Cardinality(on) -> Column]
  BY <1>5, <1>7
<1>10. cols \in Seq(Column)
  <2> DEFINE n == Cardinality(on)
  <2> HIDE DEF n, cols, on
  <2> SUFFICES cols \in Seq(Column)
    OBVIOUS
  <2>1. n \in Nat /\ cols \in [1 .. n -> Column]
    BY <1>5, <1>9 DEF n
  <2> QED
    BY <2>1, SeqDef
<1>11. \A k \in DOMAIN s : cols[k].slot = s[k] /\ cols[k].host = host'[s[k]]
                           /\ cols[k].port = port'[s[k]]
  OBVIOUS
<1> HIDE DEF cols
<1>12. Slots(b)' = enable'
  BY <1>3, <1>5, <1>8, <1>11 DEF Slots
<1>13. line[b] = b => \A c \in DOMAIN page'[b] : LET col == page'[b][c] IN
         col.slot \in Full(b) => col.host = b /\ col.port = b
  BY <1>3, <1>8, <1>11, ServiceTable
<1>14. \A i \in enable' : index'[i] \in DOMAIN page'[b] /\ page'[b][index'[i]].slot = i
  <2>1. \A i \in on : index'[i] = Rank(on, i)
    BY ServiceTable
  <2> QED
    BY <1>3, <1>5, <1>8, <1>11, <2>1
<1>15. page' = [page EXCEPT ![b] = page'[b]]
  BY <1>1, <1>3
<1> QED
  BY <1>3, <1>10, <1>12, <1>13, <1>14, <1>15

LEMMA ServiceTypes ==
  ASSUME IInv, NEW b \in Browser, do_service(b)
  PROVE  TypeOK'
<1> USE DEF IInv
<1>1. /\ enable' \in SUBSET Slot
      /\ host' \in [Slot -> Browser \cup {0}] /\ port' \in [Slot -> Browser \cup {0}]
      /\ index' \in [Slot -> 0 .. SERVER_SIZE]
  BY ServiceTable
<1>2. page' \in [Browser -> Seq(Column)]
  <2>1. page' = [page EXCEPT ![b] = page'[b]] /\ page'[b] \in Seq(Column)
    BY ServicePage
  <2> QED
    BY <2>1 DEF TypeOK
<1>3. line' = line /\ cut' \in SUBSET Browser
  <2>1. line' = line
    BY DEF do_service
  <2>2. line[b] \in Browser /\ cut' = cut \cup {line[b]}
    BY ServiceTable
  <2> QED
    BY <2>1, <2>2 DEF TypeOK
<1>4. UNCHANGED <<request, peer, shown>>
  BY DEF do_service, net
<1>5. answer' \in [Browser -> {"none", "panel", "console"}]
  BY DEF do_service, TypeOK
<1>6. /\ srv' \in {"up", "run", "dead"} /\ cur' \in Browser \cup {0} /\ stopped' \in BOOLEAN
      /\ sess' \in [Browser -> {"none", "read", "send", "over"}]
      /\ client' \in [Slot -> {"off", "resolve", "connect", "read", "ended"}]
  <2>1. CASE stopped \/ enable' = {}
    BY <2>1 DEF do_service, Over, TypeOK
  <2>2. CASE ~ (stopped \/ enable' = {})
    BY <2>2 DEF do_service, TypeOK
  <2> QED
    BY <2>1, <2>2
<1> QED
  BY <1>1, <1>2, <1>3, <1>4, <1>5, <1>6 DEF TypeOK

LEMMA ServiceKeeps ==
  ASSUME IInv, NEW b \in Browser, do_service(b)
  PROVE  IInv'
<1> USE DEF IInv
<1>1. /\ srv = "up" /\ sess[b] = "send" /\ UNCHANGED <<request, line, shown>>
      /\ answer' = [answer EXCEPT ![b] = "console"]
  BY DEF do_service, net
<1>2. \/ /\ (stopped \/ enable' = {}) /\ sess' = [sess EXCEPT ![b] = "over"] /\ srv' = srv
      \/ /\ sess' = sess /\ srv' = "run" /\ cur' = b
         /\ client' = [i \in Slot |-> IF i \in enable' THEN "resolve" ELSE "off"]
  BY DEF do_service, Over
<1>3. Served(b)' /\ (\A c \in Browser : Served(c) => sess[c] = "over" /\ sess'[c] = "over" /\ c # b)
      /\ \A c \in Browser : /\ sess[c] = "over" => sess'[c] = "over"
                            /\ sess[c] = "send" => sess'[c] \in {"send", "over"}
  BY <1>1, <1>2 DEF Served, TypeOK
<1>4. Running'
  <2>1. \A i \in enable' : index'[i] \in DOMAIN page'[b] /\ page'[b][index'[i]].slot = i
    BY ServicePage
  <2> QED
    BY <1>1, <1>2, <2>1 DEF Running
<1>5. Handled'
  <2> SUFFICES ASSUME NEW c \in Browser
               PROVE  /\ answer'[c] = "console" \/ shown'[c] # {} => Served(c)'
                      /\ c \in cut' => Served(c)'
                      /\ \A d \in Browser : line'[c] = d /\ d # c => sess'[d] = "over"
                      /\ line'[c] # 0 => sess'[c] \in {"send", "over"}
    BY DEF Handled
  <2>1. answer'[c] = "console" \/ shown'[c] # {} => Served(c)'
    <3>1. CASE c = b
      BY <1>3, <3>1
    <3>2. CASE c # b
      BY <1>1, <1>3, <3>2 DEF Handled, Served, TypeOK
    <3> QED
      BY <3>1, <3>2
  <2>2. c \in cut' => Served(c)'
    <3>1. CASE c = b
      BY <1>3, <3>1
    <3>2. CASE c # b /\ c = line[b]
      BY <1>3, <3>2 DEF Handled, Served
    <3>3. CASE c \in cut
      BY <1>3, <3>3 DEF Handled, Served
    <3> QED
      BY ServiceTable, <3>1, <3>2, <3>3
  <2>3. \A d \in Browser : line'[c] = d /\ d # c => sess'[d] = "over"
    BY <1>1, <1>3 DEF Handled
  <2>4. line'[c] # 0 => sess'[c] \in {"send", "over"}
    BY <1>1, <1>3 DEF Handled
  <2> QED
    BY <2>1, <2>2, <2>3, <2>4
<1>6. PageExplained'
  <2>1. \A x : Full(x)' = Full(x)
    BY <1>1 DEF Full
  <2>2. page' = [page EXCEPT ![b] = page'[b]]
    BY ServicePage
  <2> SUFFICES ASSUME NEW x \in Browser
               PROVE  /\ answer'[x] = "console" /\ line'[x] = x =>
                           /\ Full(x) \subseteq Slots(x)'
                           /\ \A c \in DOMAIN page'[x] :
                                page'[x][c].slot \in Full(x)
                                  => page'[x][c].host = x /\ page'[x][c].port = x
                      /\ \A s \in shown'[x] :
                           s[1] \in DOMAIN page'[x] /\ page'[x][s[1]].slot = s[2]
    BY <2>1 DEF PageExplained
  <2>3. CASE x = b
    <3>1. shown'[b] = {}
      BY <1>1, <1>3 DEF Handled
    <3>2. line'[b] = b => /\ Full(b) \subseteq Slots(b)'
                          /\ \A c \in DOMAIN page'[b] : page'[b][c].slot \in Full(b)
                               => page'[b][c].host = b /\ page'[b][c].port = b
      BY <1>1, ServiceTable, ServicePage
    <3> QED
      BY <2>3, <3>1, <3>2
  <2>4. CASE x # b
    <3>1. page'[x] = page[x] /\ answer'[x] = answer[x] /\ shown'[x] = shown[x]
      BY <1>1, <2>2, <2>4 DEF TypeOK
    <3>2. Slots(x)' = Slots(x)
      BY <3>1 DEF Slots
    <3> QED
      BY <1>1, <3>1, <3>2 DEF PageExplained
  <2> QED
    BY <2>3, <2>4
<1> QED
  BY <1>4, <1>5, <1>6, ServiceTypes, ServiceTable

-----------------------------------------------------------------------------
(* The sessions of the inner loop.                                         *)

(* A step that only moves a session keeps everything.                      *)
LEMMA TurnKeeps ==
  ASSUME IInv, NEW i \in Slot, NEW from, NEW to \in {"connect", "read", "ended"},
         from \in {"resolve", "connect", "read"}, Turns(i, from, to), UNCHANGED shown
  PROVE  IInv'
<1> USE DEF IInv
<1>1. /\ UNCHANGED <<request, peer, srv, sess, line, cut, enable, host, port, index>>
      /\ UNCHANGED <<cur, stopped, page, shown, answer>>
      /\ client' = [client EXCEPT ![i] = to] /\ client[i] = from /\ srv = "run"
  BY DEF Turns, net, strings, table
<1>2. TypeOK'
  BY <1>1 DEF TypeOK
<1>3. Named' /\ Handled'
  BY <1>1 DEF Named, Handled, Served
<1>4. Running'
  <2>1. \A j \in Slot : client'[j] # "off" => client[j] # "off"
    BY <1>1 DEF TypeOK
  <2> QED
    BY <1>1, <2>1 DEF Running
<1>5. PageExplained'
  BY <1>1 DEF Full, Slots, PageExplained
<1> QED
  BY <1>2, <1>3, <1>4, <1>5

(* What a session shows is shown in its own column.                        *)
LEMMA ReadKeeps ==
  ASSUME IInv, NEW i \in Slot, do_read(i)
  PROVE  IInv'
<1> USE DEF IInv
<1>1. /\ UNCHANGED <<request, peer, srv, sess, line, cut, enable, host, port, index>>
      /\ UNCHANGED <<cur, stopped, page, answer>>
      /\ client' = [client EXCEPT ![i] = "read"] /\ client[i] = "read" /\ srv = "run"
      /\ shown' = [shown EXCEPT ![cur] = @ \cup {<<index[i], i>>}]
  BY DEF do_read, output_shell, Turns, net, strings, table
<1>2. client' = client
  BY <1>1 DEF TypeOK
<1>3. /\ cur \in Browser /\ i \in enable
      /\ index[i] \in DOMAIN page[cur] /\ page[cur][index[i]].slot = i
  BY <1>1 DEF Running
<1>4. index[i] \in 0 .. SERVER_SIZE
  BY DEF TypeOK
<1>5. shown' \in [Browser -> SUBSET ((0 .. SERVER_SIZE) \X Slot)]
  BY <1>1, <1>3, <1>4 DEF TypeOK
<1>6. TypeOK'
  BY <1>1, <1>2, <1>5 DEF TypeOK
<1>7. Named' /\ Running'
  BY <1>1, <1>2 DEF Named, Running
<1>8. \A x \in Browser : shown'[x] # {} => x = cur \/ shown[x] # {}
  BY <1>1 DEF TypeOK
<1>9. Handled'
  BY <1>1, <1>8 DEF Handled, Served
<1>10. \A x \in Browser : \A s \in shown'[x] :
         s \in shown[x] \/ (x = cur /\ s[1] = index[i] /\ s[2] = i)
  <2>1. shown'[cur] = shown[cur] \cup {<<index[i], i>>}
    BY <1>1, <1>3 DEF TypeOK
  <2>2. \A x \in Browser : x # cur => shown'[x] = shown[x]
    BY <1>1, <1>3 DEF TypeOK
  <2>3. ASSUME NEW x \in Browser, NEW s \in shown'[x], s \notin shown[x]
        PROVE  x = cur /\ s[1] = index[i] /\ s[2] = i
    <3>1. x = cur
      BY <2>2, <2>3
    <3>2. s = <<index[i], i>>
      BY <2>1, <2>3, <3>1
    <3> QED
      BY <3>1, <3>2
  <2> QED
    BY <2>3
<1>11. PageExplained'
  <2>1. \A x \in Browser : \A s \in shown'[x] :
          s[1] \in DOMAIN page[x] /\ page[x][s[1]].slot = s[2]
    BY <1>3, <1>10 DEF PageExplained
  <2> QED
    BY <1>1, <2>1 DEF Full, Slots, PageExplained
<1> QED
  BY <1>6, <1>7, <1>9, <1>11

LEMMA ReturnKeeps ==
  ASSUME IInv, RunReturns
  PROVE  IInv'
<1> USE DEF IInv
<1>1. /\ UNCHANGED <<request, peer, line, cut, enable, host, port, index, page, shown, answer>>
      /\ srv = "run" /\ srv' = "up" /\ sess' = [sess EXCEPT ![cur] = "over"]
      /\ cur' = 0 /\ client' = [i \in Slot |-> "off"] /\ stopped' = TRUE
  BY DEF RunReturns, Over, net, strings, table, pages
<1>2. TypeOK'
  BY <1>1 DEF TypeOK
<1>3. Named' /\ Running'
  BY <1>1 DEF Named, Running
<1>4. \A b \in Browser : /\ Served(b) => Served(b)'
                         /\ sess[b] = "over" => sess'[b] = "over"
                         /\ sess[b] = "send" => sess'[b] \in {"send", "over"}
  BY <1>1 DEF Served, TypeOK
<1>5. Handled'
  BY <1>1, <1>4 DEF Handled
<1>6. PageExplained'
  BY <1>1 DEF Full, Slots, PageExplained
<1> QED
  BY <1>2, <1>3, <1>5, <1>6

LEMMA NextKeeps == IInv /\ [Next]_vars => IInv'
<1> SUFFICES ASSUME IInv, [Next]_vars PROVE IInv'
  OBVIOUS
<1>1. CASE UNCHANGED vars
  <2>1. /\ UNCHANGED <<request, peer, srv, sess, line, cut, enable, host, port, index>>
        /\ UNCHANGED <<cur, client, stopped, page, shown, answer>>
    BY <1>1 DEF vars, net, strings, table, inner, pages
  <2>2. TypeOK'
    BY <2>1 DEF IInv, TypeOK
  <2> QED
    BY <2>1, <2>2, AsideKeeps DEF table, inner
<1>2. CASE RunReturns
  BY <1>2, ReturnKeeps
<1>3. ASSUME NEW b \in Browser, Connects(b) \/ Asks(b) \/ Leaves(b) \/ Outer(b)
      PROVE  IInv'
  BY <1>3, OutsideKeeps, ServiceKeeps DEF Outer
<1>4. ASSUME NEW i \in Slot, Inner(i) \/ do_read(i) \/ ReadEnds(i)
      PROVE  IInv'
  <2>1. CASE do_resolve(i)
    BY <2>1, TurnKeeps DEF do_resolve
  <2>2. CASE do_connect(i)
    BY <2>2, TurnKeeps DEF do_connect
  <2>3. CASE ReadEnds(i)
    BY <2>3, TurnKeeps DEF ReadEnds
  <2> QED
    BY <1>4, <2>1, <2>2, <2>3, ReadKeeps DEF Inner
<1> QED
  BY <1>1, <1>2, <1>3, <1>4 DEF Next

-----------------------------------------------------------------------------
(* Every variable keeps its type: a page has only columns that name a slot *)
(* of the form and a browser's server, so a column's index is always one   *)
(* of the form's places.                                                   *)
THEOREM CombinedTypeCorrect == Spec => []TypeOK
<1>1. IInv => TypeOK
  BY DEF IInv
<1> QED
  BY InitInv, NextKeeps, <1>1, PTL DEF Spec

(* The page of a form has a column for each slot it fills in, with its own *)
(* server in the heading, whatever forms were there before; and what a     *)
(* session shows is shown in the column of its slot.                       *)
THEOREM PagesExplained == Spec => []PageExplained
<1>1. IInv => PageExplained
  BY DEF IInv
<1> QED
  BY InitInv, NextKeeps, <1>1, PTL DEF Spec

=============================================================================
