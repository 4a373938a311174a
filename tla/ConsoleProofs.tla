---------------------------- MODULE ConsoleProofs ----------------------------
(* What a server is sent, and when a session and its server wait for each  *)
(* other, for any number of sessions, files and capacity of a connection.  *)
EXTENDS Console, FiniteSetTheorems, TLAPS

(* What may be taken for a prompt, in a stream.                            *)
Mark == {"%", "fake"}
Marked(s) == {k \in 1 .. Len(s) : s[k] \in Mark}
Marks(s) == Cardinality(Marked(s))

(* A server is connected to once, before anything comes from it.           *)
WiredAt(i) ==
  /\ proc = "start" => st[i] = "off"
  /\ shell[i] # "closed" => \/ st[i] \in {"read", "ended"}
                            \/ st[i] = "handshake" /\ reply[i] # "none"
  /\ reply[i] # "none" => st[i] \notin {"off", "resolve", "connect"}
  /\ shell[i] = "closed" => got[i] = 0
  /\ busy = i => st[i] = "handshake"

(* Every line sent has been asked for by a mark that is gone, so a         *)
(* connection that is full has been filled by output.                      *)
CountedAt(i) ==
  /\ Len(sent[i]) + owed[i] = pos[i] /\ pos[i] <= Len(req.file[i])
  /\ got[i] <= Len(sent[i])
  /\ pos[i] + Marks(net[i]) <= Prompts(i) + fakes[i]
  /\ owed[i] > 0 => fakes[i] >= CAP

Faithful(i) ==
  \A k \in 1 .. Len(sent[i]) :
    sent[i][k] = req.file[i][k] \/ (sent[i][k] = Garbage /\ fakes[i] >= CAP)

(* If the server waits for a line there is, its prompt is on the way.      *)
PromptedAt(i) ==
  shell[i] = "open" /\ ~ torn[i] /\ got[i] = pos[i] /\ pos[i] < Len(req.file[i]) =>
    LET n == Len(net[i]) IN n >= 2 /\ net[i][n - 1] = "%" /\ net[i][n] = " "

At(i) == WiredAt(i) /\ CountedAt(i) /\ Faithful(i) /\ PromptedAt(i)

IInv == TypeOK /\ \A i \in Slot : At(i)

-----------------------------------------------------------------------------
(* Marks are counted.                                                      *)
LEMMA MarkedFinite ==
  ASSUME NEW s \in Seq(Token)
  PROVE  IsFiniteSet(Marked(s)) /\ Marks(s) \in Nat
<1>1. Len(s) \in Nat
  OBVIOUS
<1>2. IsFiniteSet(1 .. Len(s))
  BY <1>1, FS_Interval
<1>3. Marked(s) \in SUBSET (1 .. Len(s))
  BY DEF Marked
<1>4. IsFiniteSet(Marked(s))
  BY <1>2, <1>3, FS_Subset
<1> QED
  BY <1>4, FS_CardinalityType DEF Marks

LEMMA MarksEmpty == Marks(<<>>) = 0
<1>1. Marked(<<>>) = {}
  BY DEF Marked
<1> QED
  BY <1>1, FS_EmptySet DEF Marks

LEMMA Concat ==
  ASSUME NEW s \in Seq(Token), NEW u \in Seq(Token)
  PROVE  /\ s \o u \in Seq(Token) /\ Len(s \o u) = Len(s) + Len(u)
         /\ \A k \in 1 .. Len(s) : (s \o u)[k] = s[k]
         /\ \A k \in 1 .. Len(u) : (s \o u)[Len(s) + k] = u[k]
  OBVIOUS

(* A piece with one mark adds one, a piece without any none.               *)
LEMMA MarksAdd ==
  ASSUME NEW s \in Seq(Token), NEW u \in Seq(Token), NEW p \in 1 .. Len(u),
         \A k \in 1 .. Len(u) : u[k] \in Mark => k = p
  PROVE  Marks(s \o u) = Marks(s) + (IF u[p] \in Mark THEN 1 ELSE 0)
<1> DEFINE t == s \o u
<1>1. /\ t \in Seq(Token) /\ Len(t) = Len(s) + Len(u)
      /\ \A k \in 1 .. Len(s) : t[k] = s[k]
      /\ \A k \in 1 .. Len(u) : t[Len(s) + k] = u[k]
  BY Concat
<1>2. Len(s) \in Nat /\ Len(u) \in Nat
  OBVIOUS
<1> HIDE DEF t
<1>3. \A k \in 1 .. Len(t) : k <= Len(s) \/ \E l \in 1 .. Len(u) : k = Len(s) + l
  <2>1. ASSUME NEW k \in 1 .. Len(t), ~ k <= Len(s)
        PROVE  k - Len(s) \in 1 .. Len(u) /\ k = Len(s) + (k - Len(s))
    BY <1>1, <1>2, <2>1
  <2> QED
    BY <2>1
<1>4. Len(s) + p \notin Marked(s) /\ IsFiniteSet(Marked(s)) /\ Marks(s) \in Nat
  <2>1. p \in Nat /\ p >= 1 /\ Len(s) + p \notin 1 .. Len(s)
    BY <1>2
  <2>2. Len(s) + p \notin Marked(s)
    BY <2>1 DEF Marked
  <2> QED
    BY <2>2, MarkedFinite
<1>5. CASE u[p] \in Mark
  <2>1. Marked(t) = Marked(s) \cup {Len(s) + p}
    <3>1. ASSUME NEW k, k \in Marked(t)
          PROVE  k \in Marked(s) \/ k = Len(s) + p
      <4>1. k \in 1 .. Len(t) /\ t[k] \in Mark
        BY <3>1 DEF Marked
      <4>2. CASE k <= Len(s)
        <5>1. k \in 1 .. Len(s)
          BY <1>1, <1>2, <4>1, <4>2
        <5> QED
          BY <1>1, <4>1, <5>1 DEF Marked
      <4>3. ASSUME NEW l \in 1 .. Len(u), k = Len(s) + l
            PROVE  k = Len(s) + p
        BY <1>1, <4>1, <4>3
      <4> QED
        BY <1>3, <4>1, <4>2, <4>3
    <3>2. ASSUME NEW k \in 1 .. Len(s)
          PROVE  k \in 1 .. Len(t) /\ t[k] = s[k]
      BY <1>1, <1>2
    <3>3. Len(s) + p \in 1 .. Len(t) /\ t[Len(s) + p] = u[p]
      BY <1>1, <1>2
    <3> QED
      BY <1>5, <3>1, <3>2, <3>3 DEF Marked
  <2>2. Marks(t) = Marks(s) + 1
    BY <1>4, <2>1, FS_AddElement DEF Marks
  <2> QED
    BY <1>5, <2>2 DEF t
<1>6. CASE u[p] \notin Mark
  <2>1. Marked(t) = Marked(s)
    <3>1. ASSUME NEW k, k \in Marked(t)
          PROVE  k \in Marked(s)
      <4>1. k \in 1 .. Len(t) /\ t[k] \in Mark
        BY <3>1 DEF Marked
      <4>2. CASE k <= Len(s)
        <5>1. k \in 1 .. Len(s)
          BY <1>1, <1>2, <4>1, <4>2
        <5> QED
          BY <1>1, <4>1, <5>1 DEF Marked
      <4>3. ASSUME NEW l \in 1 .. Len(u), k = Len(s) + l
            PROVE  FALSE
        BY <1>1, <1>6, <4>1, <4>3
      <4> QED
        BY <1>3, <4>1, <4>2, <4>3
    <3>2. ASSUME NEW k \in 1 .. Len(s)
          PROVE  k \in 1 .. Len(t) /\ t[k] = s[k]
      BY <1>1, <1>2
    <3> QED
      BY <3>1, <3>2 DEF Marked
  <2> QED
    BY <1>4, <1>6, <2>1 DEF Marks, t
<1> QED
  BY <1>5, <1>6

LEMMA PromptShape ==
  /\ Prompt \in Seq(Token) /\ Len(Prompt) = 2 /\ Prompt[1] = "%" /\ Prompt[2] = " "
  /\ \A k \in 1 .. Len(Prompt) : Prompt[k] \in Mark => k = 1
<1>1. Prompt \in Seq(Token) /\ Len(Prompt) = 2 /\ Prompt[1] = "%" /\ Prompt[2] = " "
  BY DEF Prompt, Token
<1>2. \A k \in 1 .. 2 : k = 1 \/ k = 2
  OBVIOUS
<1> QED
  BY <1>1, <1>2 DEF Mark

LEMMA MarksPrompt ==
  ASSUME NEW s \in Seq(Token)
  PROVE  /\ s \o Prompt \in Seq(Token)
         /\ Marks(s \o Prompt) = Marks(s) + 1
         /\ LET n == Len(s \o Prompt)
            IN  n >= 2 /\ (s \o Prompt)[n - 1] = "%" /\ (s \o Prompt)[n] = " "
<1> DEFINE t == s \o Prompt
<1>1. /\ t \in Seq(Token) /\ Len(t) = Len(s) + Len(Prompt)
      /\ \A k \in 1 .. Len(Prompt) : t[Len(s) + k] = Prompt[k]
  BY PromptShape, Concat
<1>2. 1 \in 1 .. Len(Prompt) /\ 2 \in 1 .. Len(Prompt)
  <2>1. Len(Prompt) = 2
    BY PromptShape
  <2> QED
    BY <2>1
<1>3. Marks(t) = Marks(s) + 1
  <2>1. Marks(t) = Marks(s) + (IF Prompt[1] \in Mark THEN 1 ELSE 0)
    BY <1>2, PromptShape, MarksAdd
  <2>2. "%" \in Mark
    BY DEF Mark
  <2> QED
    BY <2>1, <2>2, PromptShape
<1> HIDE DEF t
<1>4. t[Len(s) + 1] = "%" /\ t[Len(s) + 2] = " "
  BY <1>1, <1>2, PromptShape
<1>5. Len(s) \in Nat /\ Len(t) = Len(s) + 2
  <2>1. Len(Prompt) = 2
    BY PromptShape
  <2>2. Len(t) = Len(s) + Len(Prompt)
    BY <1>1
  <2> QED
    BY <2>1, <2>2
<1>6. Len(t) >= 2 /\ t[Len(t) - 1] = "%" /\ t[Len(t)] = " "
  <2>1. Len(t) >= 2 /\ Len(t) - 1 = Len(s) + 1
    BY <1>5
  <2> QED
    BY <1>4, <1>5, <2>1
<1> QED
  BY <1>1, <1>3, <1>6 DEF t

(* An answer adds its prompt, and the output that looks like one.          *)
LEMMA MarksAnswer ==
  ASSUME NEW s \in Seq(Token), NEW out \in {<<>>, <<"text">>, <<"fake">>}
  PROVE  LET t == s \o out \o Prompt
             n == Len(t)
         IN  /\ t \in Seq(Token)
             /\ Marks(t) = Marks(s) + (IF out = <<"fake">> THEN 2 ELSE 1)
             /\ n >= 2 /\ t[n - 1] = "%" /\ t[n] = " "
<1>1. out \in Seq(Token) /\ s \o out \in Seq(Token) /\ Marks(s) \in Nat
  <2>1. out \in Seq(Token)
    <3>1. "text" \in Token /\ "fake" \in Token
      BY DEF Token
    <3>2. <<>> \in Seq(Token) /\ <<"text">> \in Seq(Token) /\ <<"fake">> \in Seq(Token)
      BY <3>1
    <3> QED
      BY <3>2
  <2> QED
    BY <2>1, Concat, MarkedFinite
<1>2. Marks(s \o out) = Marks(s) + (IF out = <<"fake">> THEN 1 ELSE 0)
  <2>1. CASE out = <<>>
    <3>1. s \o <<>> = s /\ <<>> # <<"fake">>
      OBVIOUS
    <3> QED
      BY <1>1, <2>1, <3>1
  <2>2. CASE out # <<>>
    <3>1. Len(out) = 1 /\ out[1] \in {"text", "fake"}
      BY <2>2
    <3>2. 1 \in 1 .. Len(out) /\ \A k \in 1 .. Len(out) : k = 1
      BY <3>1
    <3>3. out[1] \in Mark <=> out = <<"fake">>
      BY <2>2 DEF Mark
    <3> QED
      BY <1>1, <3>2, <3>3, MarksAdd
  <2> QED
    BY <2>1, <2>2
<1> QED
  <2> DEFINE u == s \o out
             t == u \o Prompt
  <2>1. /\ t \in Seq(Token) /\ Marks(t) = Marks(u) + 1
        /\ Len(t) >= 2 /\ t[Len(t) - 1] = "%" /\ t[Len(t)] = " "
    BY <1>1, MarksPrompt
  <2>2. Marks(t) = Marks(s) + (IF out = <<"fake">> THEN 2 ELSE 1)
    <3>1. Marks(t) = Marks(u) + 1 /\ Marks(u) = Marks(s) + (IF out = <<"fake">> THEN 1 ELSE 0)
      BY <1>2, <2>1
    <3>2. Marks(s) \in Nat
      BY <1>1
    <3> HIDE DEF t, u
    <3> QED
      BY <3>1, <3>2
  <2> QED
    BY <2>1, <2>2

(* A chunk and what it leaves.                                             *)
LEMMA Pieces ==
  ASSUME NEW s \in Seq(Token), NEW k \in 1 .. Len(s)
  PROVE  /\ Len(s) \in Nat
         /\ Len(SubSeq(s, 1, k)) = k /\ \A j \in 1 .. k : SubSeq(s, 1, k)[j] = s[j]
         /\ Len(SubSeq(s, k + 1, Len(s))) = Len(s) - k
         /\ \A j \in 1 .. Len(s) - k : SubSeq(s, k + 1, Len(s))[j] = s[j + k]
  OBVIOUS

(* A chunk that contains a prompt takes a mark with it.                    *)
LEMMA MarksRest ==
  ASSUME NEW s \in Seq(Token), NEW k \in 1 .. Len(s)
  PROVE  /\ SubSeq(s, k + 1, Len(s)) \in Seq(Token)
         /\ Marks(SubSeq(s, k + 1, Len(s))) <= Marks(s)
         /\ contain_prompt(SubSeq(s, 1, k)) => Marks(SubSeq(s, k + 1, Len(s))) < Marks(s)
<1> DEFINE r == SubSeq(s, k + 1, Len(s))
           c == SubSeq(s, 1, k)
           f == [j \in Marked(r) |-> j + k]
<1>1. r \in Seq(Token) /\ Len(r) = Len(s) - k /\ \A j \in 1 .. Len(r) : r[j] = s[j + k]
  OBVIOUS
<1>2. c \in Seq(Token) /\ Len(c) = k /\ \A j \in 1 .. k : c[j] = s[j]
  OBVIOUS
<1>3. IsFiniteSet(Marked(s)) /\ Marks(s) \in Nat /\ Marks(r) \in Nat
  BY <1>1, MarkedFinite
<1>4. \A j \in Marked(r) : f[j] \in Marked(s) /\ f[j] > k
  BY <1>1 DEF Marked
<1>5. \A j, l \in Marked(r) : f[j] = f[l] => j = l
  BY <1>1 DEF Marked
<1>6. f \in Injection(Marked(r), Marked(s))
  BY <1>4, <1>5 DEF Injection, IsInjective
<1>7. Marks(r) <= Marks(s)
  BY <1>3, <1>6, FS_Injection DEF Marks
<1>8. ASSUME contain_prompt(c)
      PROVE  Marks(r) < Marks(s)
  <2>1. PICK m \in 1 .. k : c[m] \in Mark
    <3> HIDE DEF c
    <3>1. k \in Nat /\ k - 1 \in Int
      OBVIOUS
    <3>2. "%" \in Mark /\ "fake" \in Mark
      BY DEF Mark
    <3>3. CASE \E m \in 1 .. Len(c) : c[m] = "fake"
      BY <1>2, <3>2, <3>3
    <3>4. CASE \E m \in 1 .. Len(c) - 1 : c[m] = "%" /\ c[m + 1] = " "
      <4>1. PICK m \in 1 .. Len(c) - 1 : c[m] = "%"
        BY <3>4
      <4>2. m \in 1 .. k
        BY <1>2, <3>1, <4>1
      <4> QED
        BY <3>2, <4>1, <4>2
    <3> QED
      BY <1>8, <3>3, <3>4 DEF contain_prompt
  <2>2. m \in Marked(s)
    BY <1>2, <2>1 DEF Marked
  <2>3. /\ IsFiniteSet(Marked(s) \ {m})
        /\ Cardinality(Marked(s) \ {m}) = Marks(s) - 1
    BY <1>3, <2>2, FS_RemoveElement DEF Marks
  <2>4. f \in Injection(Marked(r), Marked(s) \ {m})
    BY <1>4, <1>5 DEF Injection, IsInjective
  <2>5. Marks(r) <= Marks(s) - 1
    BY <2>3, <2>4, FS_Injection DEF Marks
  <2> QED
    BY <1>3, <2>5
<1> QED
  BY <1>1, <1>7, <1>8

LEMMA MarksFirst ==
  /\ Prompt \in Seq(Token) /\ Marks(Prompt) = 1
  /\ LET n == Len(Prompt) IN n >= 2 /\ Prompt[n - 1] = "%" /\ Prompt[n] = " "
<1>1. <<>> \in Seq(Token)
  OBVIOUS
<1>2. <<>> \o Prompt = Prompt
  BY DEF Prompt
<1>3. /\ <<>> \o Prompt \in Seq(Token)
      /\ Marks(<<>> \o Prompt) = Marks(<<>>) + 1
      /\ LET n == Len(<<>> \o Prompt)
         IN  n >= 2 /\ (<<>> \o Prompt)[n - 1] = "%" /\ (<<>> \o Prompt)[n] = " "
  BY <1>1, MarksPrompt
<1>4. Marks(<<>>) + 1 = 1
  BY MarksEmpty
<1> QED
  BY <1>2, <1>3, <1>4

-----------------------------------------------------------------------------
LEMMA InitInv == Init => IInv
<1> SUFFICES ASSUME Init PROVE IInv
  OBVIOUS
<1>1. TypeOK
  BY ConsoleAssumption DEF Init, TypeOK
<1>2. ASSUME NEW i \in Slot
      PROVE  At(i)
  <2>1. /\ pos[i] = 0 /\ owed[i] = 0 /\ got[i] = 0 /\ fakes[i] = 0 /\ shell[i] = "closed"
        /\ sent[i] = <<>> /\ net[i] = <<>> /\ st[i] = "off" /\ reply[i] = "none" /\ busy = 0
    BY <1>2 DEF Init
  <2>2. Len(req.file[i]) \in Nat
    BY <1>1, ConsoleAssumption DEF TypeOK, RequestShape
  <2>3. Marks(net[i]) = 0 /\ Len(sent[i]) = 0
    BY <2>1, MarksEmpty
  <2>4. CountedAt(i)
    BY <2>1, <2>2, <2>3 DEF CountedAt, Prompts
  <2>5. WiredAt(i) /\ Faithful(i) /\ PromptedAt(i)
    BY <2>1, <2>3 DEF WiredAt, Faithful, PromptedAt, Slot
  <2> QED
    BY <2>4, <2>5 DEF At
<1> QED
  BY <1>1, <1>2 DEF IInv

(* A step of another session leaves a session as it is.                    *)
LEMMA Untouched ==
  ASSUME NEW j \in Slot, At(j), req' = req,
         st'[j] = st[j], reply'[j] = reply[j], shell'[j] = shell[j], got'[j] = got[j],
         pos'[j] = pos[j], sent'[j] = sent[j], owed'[j] = owed[j], torn'[j] = torn[j],
         net'[j] = net[j], fakes'[j] = fakes[j],
         busy' = j => busy = j, proc' = "start" => proc = "start"
  PROVE  At(j)'
<1>1. WiredAt(j)'
  BY DEF At, WiredAt
<1>2. CountedAt(j)' /\ Faithful(j)' /\ PromptedAt(j)'
  BY DEF At, CountedAt, Faithful, PromptedAt, Prompts, Marks, Marked
<1> QED
  BY <1>1, <1>2 DEF At

(* The types of what belongs to a session.                                 *)
LEMMA SlotTypes ==
  ASSUME TypeOK, NEW i \in Slot
  PROVE  /\ pos[i] \in Nat /\ owed[i] \in Nat /\ got[i] \in Nat /\ fakes[i] \in Nat
         /\ sent[i] \in Seq(Commands \cup {Garbage}) /\ Len(sent[i]) \in Nat
         /\ req.file[i] \in Seq(Commands) /\ Len(req.file[i]) \in Nat
         /\ net[i] \in Seq(Token) /\ Marks(net[i]) \in Nat
         /\ CAP \in Nat \ {0} /\ i # 0
<1>1. pos[i] \in Nat /\ owed[i] \in Nat /\ got[i] \in Nat /\ fakes[i] \in Nat
  BY ConsoleAssumption DEF TypeOK
<1>2. sent[i] \in Seq(Commands \cup {Garbage}) /\ net[i] \in Seq(Token)
  BY DEF TypeOK
<1>3. req.file[i] \in Seq(Commands)
  BY ConsoleAssumption DEF TypeOK, RequestShape
<1>4. CAP \in Nat \ {0} /\ i # 0
  BY ConsoleAssumption DEF Slot
<1> QED
  BY <1>1, <1>2, <1>3, <1>4, MarkedFinite

LEMMA MainKeeps ==
  ASSUME IInv, main
  PROVE  IInv'
<1> USE DEF IInv
<1>1. /\ proc = "start" /\ proc' = "run"
      /\ st' = [i \in Slot |-> IF enabled(i) THEN "resolve" ELSE "off"]
      /\ server_index' = [i \in Slot |-> column(i)]
      /\ UNCHANGED <<req, page, busy, reply, pos, sent, owed, torn, server, net>>
  BY DEF main
<1>2. ASSUME NEW i \in Slot
      PROVE  column(i) \in 0 .. SERVER_SIZE
  <2>1. i \in Nat /\ 1 <= i /\ i <= SERVER_SIZE /\ SERVER_SIZE \in Nat
    BY ConsoleAssumption DEF Slot
  <2>2. IsFiniteSet(1 .. i) /\ Cardinality(1 .. i) = i
    BY <2>1, FS_Interval
  <2>3. {j \in 1 .. i : enabled(j)} \in SUBSET (1 .. i)
    OBVIOUS
  <2>4. /\ Cardinality({j \in 1 .. i : enabled(j)}) <= i
        /\ Cardinality({j \in 1 .. i : enabled(j)}) \in Nat
    BY <2>2, <2>3, FS_Subset, FS_CardinalityType
  <2> QED
    BY <2>1, <2>4 DEF column
<1>3. TypeOK'
  BY <1>1, <1>2 DEF TypeOK, server
<1>4. ASSUME NEW i \in Slot
      PROVE  At(i)'
  <2>1. st[i] = "off" /\ shell[i] = "closed" /\ reply[i] = "none" /\ busy # i
    BY <1>1, <1>4 DEF At, WiredAt, TypeOK
  <2>2. WiredAt(i)'
    BY <1>1, <2>1 DEF WiredAt, At, server
  <2>3. CountedAt(i)' /\ Faithful(i)' /\ PromptedAt(i)'
    BY <1>1 DEF At, CountedAt, Faithful, PromptedAt, Prompts, Marks, Marked, server
  <2> QED
    BY <2>2, <2>3 DEF At
<1> QED
  BY <1>3, <1>4

LEMMA ResolveKeeps ==
  ASSUME IInv, NEW i \in Slot, do_resolve(i)
  PROVE  IInv'
<1> USE DEF IInv
<1>1. /\ proc = "run" /\ busy = 0 /\ st[i] = "resolve"
      /\ \E s \in {"connect", "ended"} : st' = [st EXCEPT ![i] = s]
      /\ UNCHANGED <<req, proc, console, busy, reply, pos, sent, owed, torn, server, net>>
  BY DEF do_resolve, Ready, Becomes
<1>2. TypeOK'
  BY <1>1 DEF TypeOK, console, server
<1>3. WiredAt(i)'
  BY <1>1, SlotTypes DEF At, WiredAt, TypeOK, server
<1>4. CountedAt(i)' /\ Faithful(i)' /\ PromptedAt(i)'
  BY <1>1 DEF At, CountedAt, Faithful, PromptedAt, Prompts, Marks, Marked, server
<1>5. \A j \in Slot \ {i} : At(j)'
  BY <1>1, Untouched DEF TypeOK, server
<1> QED
  BY <1>2, <1>3, <1>4, <1>5 DEF At

(* The server prints its prompt: the first mark.                           *)
LEMMA OpensKeeps ==
  ASSUME IInv, NEW i \in Slot, shell[i] = "closed", ServerOpens(i),
         UNCHANGED <<req, pos, sent, owed, torn, got, fakes>>
  PROVE  /\ CountedAt(i)' /\ Faithful(i)' /\ PromptedAt(i)'
         /\ net' \in [Slot -> Seq(Token)]
         /\ shell' \in [Slot -> {"closed", "open", "gone"}]
<1> USE DEF IInv
<1>1. shell' = [shell EXCEPT ![i] = "open"] /\ net' = [net EXCEPT ![i] = Prompt]
  BY DEF ServerOpens
<1>2. shell'[i] = "open" /\ net'[i] = Prompt
  BY <1>1 DEF TypeOK
<1>3. got[i] = 0 /\ Prompts(i) = 0
  BY DEF At, WiredAt, Prompts
<1>4. Prompts(i)' = 1
  BY <1>2, <1>3 DEF Prompts
<1>5. pos[i] + Marks(net[i]) <= fakes[i]
  BY <1>3, SlotTypes DEF At, CountedAt
<1>6. CountedAt(i)'
  <2>1. pos[i] + 1 <= 1 + fakes[i]
    BY <1>5, SlotTypes
  <2>2. Marks(net[i])' = 1
    BY <1>2, MarksFirst
  <2> QED
    BY <1>4, <2>1, <2>2 DEF At, CountedAt
<1>7. Faithful(i)'
  BY DEF At, Faithful
<1>8. PromptedAt(i)'
  BY <1>2, MarksFirst DEF PromptedAt
<1> QED
  BY <1>1, <1>6, <1>7, <1>8, MarksFirst DEF TypeOK

(* Connecting, directly or through the proxy.                              *)
LEMMA ConnectKeeps ==
  ASSUME IInv, NEW i \in Slot, do_connect(i) \/ do_connect_socks(i)
  PROVE  IInv'
<1> USE DEF IInv
<1>1. /\ proc = "run" /\ busy = 0 /\ st[i] = "connect" /\ UNCHANGED <<req, console>>
      /\ UNCHANGED <<pos, sent, owed, torn, reply, got, fakes>>
  BY DEF do_connect, do_connect_socks, Ready, server
<1>2. shell[i] = "closed" /\ reply[i] = "none"
  BY <1>1 DEF At, WiredAt, TypeOK
<1>3. CASE /\ st' = [st EXCEPT ![i] = "read"] /\ ServerOpens(i)
           /\ UNCHANGED <<proc, busy>>
  <2>1. CountedAt(i)' /\ Faithful(i)' /\ PromptedAt(i)'
    BY <1>1, <1>2, <1>3, OpensKeeps
  <2>2. TypeOK'
    BY <1>1, <1>2, <1>3, OpensKeeps DEF TypeOK, console
  <2>3. WiredAt(i)'
    BY <1>1, <1>3, SlotTypes DEF At, WiredAt, TypeOK, ServerOpens
  <2>4. \A j \in Slot \ {i} : At(j)'
    BY <1>1, <1>3, Untouched DEF TypeOK, ServerOpens
  <2> QED
    BY <2>1, <2>2, <2>3, <2>4 DEF At
<1>4. CASE /\ \/ st' = [st EXCEPT ![i] = "ended"] /\ UNCHANGED <<proc, busy>>
              \/ st' = [st EXCEPT ![i] = "handshake"] /\ busy' = i /\ UNCHANGED proc
              \/ proc' = "abort" /\ UNCHANGED <<st, busy>>
           /\ UNCHANGED <<shell, net>>
  <2>1. TypeOK'
    BY <1>1, <1>4 DEF TypeOK, console
  <2>2. WiredAt(i)'
    BY <1>1, <1>2, <1>4, SlotTypes DEF At, WiredAt, TypeOK
  <2>3. CountedAt(i)' /\ Faithful(i)' /\ PromptedAt(i)'
    BY <1>1, <1>4 DEF At, CountedAt, Faithful, PromptedAt, Prompts, Marks, Marked
  <2>4. \A j \in Slot \ {i} : At(j)'
    BY <1>1, <1>4, Untouched DEF TypeOK
  <2> QED
    BY <2>1, <2>2, <2>3, <2>4 DEF At
<1> QED
  BY <1>3, <1>4 DEF do_connect, do_connect_socks, Becomes, server

LEMMA ReplyKeeps ==
  ASSUME IInv, NEW i \in Slot, ReadReply(i)
  PROVE  IInv'
<1> USE DEF IInv
<1>1. /\ busy = i /\ reply[i] # "none" /\ UNCHANGED <<req, console, reply>>
      /\ UNCHANGED <<pos, sent, owed, torn, server, net>>
      /\ \/ \E s \in {"read", "ended"} : st' = [st EXCEPT ![i] = s] /\ busy' = 0 /\ UNCHANGED proc
         \/ proc' = "abort" /\ UNCHANGED <<st, busy>>
  BY DEF ReadReply, Becomes
<1>2. TypeOK'
  BY <1>1 DEF TypeOK, console, server
<1>3. WiredAt(i)'
  BY <1>1, SlotTypes DEF At, WiredAt, TypeOK, server
<1>4. CountedAt(i)' /\ Faithful(i)' /\ PromptedAt(i)'
  BY <1>1 DEF At, CountedAt, Faithful, PromptedAt, Prompts, Marks, Marked, server
<1>5. \A j \in Slot \ {i} : At(j)'
  <2>1. ASSUME NEW j \in Slot \ {i}
        PROVE  (busy' = j => busy = j) /\ (proc' = "start" => proc = "start")
    BY <1>1, SlotTypes
  <2> QED
    BY <1>1, <2>1, Untouched DEF TypeOK, server
<1> QED
  BY <1>2, <1>3, <1>4, <1>5 DEF At

LEMMA ProxyKeeps ==
  ASSUME IInv, NEW i \in Slot, ProxyReplies(i)
  PROVE  IInv'
<1> USE DEF IInv
<1>1. /\ busy = i /\ reply[i] = "none" /\ UNCHANGED <<req, proc, console, st, busy>>
      /\ UNCHANGED <<pos, sent, owed, torn, got, fakes>>
      /\ \E r \in {"granted", "rejected", "closed"} : reply' = [reply EXCEPT ![i] = r]
  BY DEF ProxyReplies
<1>2. st[i] = "handshake" /\ shell[i] = "closed"
  BY <1>1 DEF At, WiredAt, TypeOK
<1>3. WiredAt(i)'
  BY <1>1, <1>2 DEF At, WiredAt, TypeOK
<1>4. CASE ServerOpens(i)
  <2>1. CountedAt(i)' /\ Faithful(i)' /\ PromptedAt(i)'
    BY <1>1, <1>2, <1>4, OpensKeeps
  <2>2. TypeOK'
    BY <1>1, <1>2, <1>4, OpensKeeps DEF TypeOK, console
  <2>3. \A j \in Slot \ {i} : At(j)'
    BY <1>1, <1>4, Untouched DEF TypeOK, ServerOpens
  <2> QED
    BY <1>3, <2>1, <2>2, <2>3 DEF At
<1>5. CASE UNCHANGED <<shell, net>>
  <2>1. TypeOK'
    BY <1>1, <1>5 DEF TypeOK, console
  <2>2. CountedAt(i)' /\ Faithful(i)' /\ PromptedAt(i)'
    BY <1>1, <1>5 DEF At, CountedAt, Faithful, PromptedAt, Prompts, Marks, Marked
  <2>3. \A j \in Slot \ {i} : At(j)'
    BY <1>1, <1>5, Untouched DEF TypeOK
  <2> QED
    BY <1>3, <2>1, <2>2, <2>3 DEF At
<1> QED
  BY <1>4, <1>5 DEF ProxyReplies

(* Arithmetic: one more line for one mark less.                            *)
LEMMA OneMore ==
  ASSUME NEW a \in Nat, NEW b \in Nat, NEW c \in Nat, NEW d \in Nat, b < c, a + c <= d
  PROVE  (a + 1) + b <= d
  OBVIOUS

(* The next line of the file goes out behind those before it: there is     *)
(* room, unless output has asked for as many lines as the connection holds.*)
LEMMA SendKeeps ==
  ASSUME IInv, NEW i \in Slot, send_command(i), st[i] = "read",
         UNCHANGED <<req, shell, got, fakes>>,
         net'[i] \in Seq(Token), Marks(net[i])' < Marks(net[i])
  PROVE  /\ CountedAt(i)' /\ Faithful(i)'
         /\ pos' \in [Slot -> Nat] /\ owed' \in [Slot -> Nat]
         /\ sent' \in [Slot -> Seq(Commands \cup {Garbage})]
         /\ pos[i] < Len(req.file[i]) => pos'[i] = pos[i] + 1
         /\ pos'[i] >= pos[i]
         /\ \A j \in Slot \ {i} : pos'[j] = pos[j] /\ sent'[j] = sent[j] /\ owed'[j] = owed[j]
<1> USE DEF IInv
<1>1. Marks(net[i])' \in Nat
  BY MarkedFinite DEF Marks, Marked
<1>2. /\ Len(sent[i]) + owed[i] = pos[i] /\ pos[i] <= Len(req.file[i])
      /\ got[i] <= Len(sent[i])
      /\ pos[i] + Marks(net[i]) <= Prompts(i) + fakes[i]
      /\ owed[i] > 0 => fakes[i] >= CAP
  BY DEF At, CountedAt
<1>3. Prompts(i) \in Nat /\ Prompts(i) <= got[i] + 1
  BY SlotTypes DEF Prompts
<1>4. /\ pos \in [Slot -> Nat] /\ owed \in [Slot -> Nat]
      /\ sent \in [Slot -> Seq(Commands \cup {Garbage})]
  BY DEF TypeOK
<1>5. /\ pos[i] \in Nat /\ owed[i] \in Nat /\ got[i] \in Nat /\ fakes[i] \in Nat
      /\ Len(sent[i]) \in Nat /\ Len(req.file[i]) \in Nat /\ Marks(net[i]) \in Nat
      /\ CAP \in Nat
  BY SlotTypes
<1>6. CASE pos[i] >= Len(req.file[i])
  <2>1. UNCHANGED <<pos, sent, owed>>
    BY <1>6, <1>5 DEF send_command
  <2>2. Prompts(i)' = Prompts(i)
    BY <2>1 DEF Prompts
  <2>3. pos[i] + Marks(net[i])' <= Prompts(i) + fakes[i]
    BY <1>1, <1>2, <1>3, <1>5
  <2>4. CountedAt(i)'
    BY <1>2, <2>1, <2>2, <2>3 DEF CountedAt
  <2>5. Faithful(i)'
    BY <2>1 DEF At, Faithful
  <2> QED
    BY <1>6, <1>4, <1>5, <2>1, <2>4, <2>5
<1>7. CASE pos[i] < Len(req.file[i])
  <2> DEFINE line == req.file[i][pos[i] + 1]
  <2>1. pos' = [pos EXCEPT ![i] = @ + 1] /\ do_write(i, line)
    BY <1>7 DEF send_command
  <2>2. line \in Commands
    BY <1>7, SlotTypes
  <2>3. pos'[i] = pos[i] + 1 /\ pos' \in [Slot -> Nat] /\ \A j \in Slot \ {i} : pos'[j] = pos[j]
    BY <1>4, <1>5, <2>1
  <2>4. CASE sent' = [sent EXCEPT ![i] = Append(@, line)] /\ UNCHANGED owed /\ owed[i] = 0
    <3>1. sent'[i] = Append(sent[i], line) /\ \A j \in Slot \ {i} : sent'[j] = sent[j]
      BY <2>4 DEF TypeOK
    <3>2. /\ sent'[i] \in Seq(Commands \cup {Garbage}) /\ Len(sent'[i]) = Len(sent[i]) + 1
          /\ \A k \in 1 .. Len(sent[i]) : sent'[i][k] = sent[i][k]
          /\ sent'[i][Len(sent[i]) + 1] = line
      BY <2>2, <3>1, SlotTypes
    <3>3. sent' \in [Slot -> Seq(Commands \cup {Garbage})]
      BY <2>4, <3>1, <3>2 DEF TypeOK
    <3>4. Prompts(i)' = Prompts(i)
      <4>1. got[i] > 0 => got[i] \in 1 .. Len(sent[i])
        BY <1>2, SlotTypes
      <4> QED
        BY <3>2, <4>1 DEF Prompts
    <3>5. CountedAt(i)'
      <4>1. Len(sent'[i]) + owed'[i] = pos'[i] /\ pos'[i] <= Len(req'.file[i])
        BY <1>2, <1>7, <2>3, <2>4, <3>2, SlotTypes
      <4>2. got'[i] <= Len(sent'[i])
        BY <1>2, <3>2, SlotTypes
      <4>3. pos'[i] + Marks(net[i])' <= Prompts(i)' + fakes'[i]
        BY <1>1, <1>2, <1>3, <2>3, <3>4, SlotTypes
      <4> QED
        BY <2>4, <4>1, <4>2, <4>3, SlotTypes DEF CountedAt
    <3>6. Faithful(i)'
      <4>1. line = req'.file[i][Len(sent[i]) + 1]
        BY <1>2, <2>4, SlotTypes
      <4>2. \A k \in 1 .. Len(sent'[i]) : k \in 1 .. Len(sent[i]) \/ k = Len(sent[i]) + 1
        BY <3>2, SlotTypes
      <4> QED
        BY <3>2, <4>1, <4>2 DEF Faithful, At
    <3> QED
      BY <1>7, <1>4, <1>5, <2>3, <2>4, <3>1, <3>3, <3>5, <3>6
  <2>5. CASE /\ owed' = [owed EXCEPT ![i] = @ + 1] /\ UNCHANGED sent
             /\ owed[i] > 0 \/ Len(sent[i]) - got[i] >= CAP
    <3>1. /\ owed'[i] = owed[i] + 1 /\ \A j \in Slot \ {i} : owed'[j] = owed[j]
          /\ owed' \in [Slot -> Nat]
      BY <2>5, SlotTypes DEF TypeOK
    <3>2. fakes[i] >= CAP
      BY <1>1, <1>2, <1>3, <2>5, SlotTypes
    <3>3. Prompts(i)' = Prompts(i)
      BY <2>5 DEF Prompts
    <3>4. CountedAt(i)'
      <4>1. /\ Len(sent[i]) + (owed[i] + 1) = pos[i] + 1 /\ pos[i] + 1 <= Len(req.file[i])
            /\ (pos[i] + 1) + Marks(net[i])' <= Prompts(i) + fakes[i]
        <5>1. Len(sent[i]) + (owed[i] + 1) = pos[i] + 1 /\ pos[i] + 1 <= Len(req.file[i])
          <6>1. Len(sent[i]) + owed[i] = pos[i]
            BY <1>2
          <6>2. Len(sent[i]) + (owed[i] + 1) = pos[i] + 1
            BY <1>5, <6>1
          <6>3. pos[i] + 1 <= Len(req.file[i])
            BY <1>5, <1>7
          <6> QED
            BY <6>2, <6>3
        <5>2. (pos[i] + 1) + Marks(net[i])' <= Prompts(i) + fakes[i]
          <6>1. Prompts(i) + fakes[i] \in Nat
            BY <1>3, <1>5
          <6>2. Marks(net[i])' < Marks(net[i]) /\ pos[i] + Marks(net[i]) <= Prompts(i) + fakes[i]
            BY <1>2
          <6> QED
            BY <1>1, <1>5, <6>1, <6>2, OneMore
        <5> QED
          BY <5>1, <5>2
      <4> QED
        BY <1>2, <2>3, <2>5, <3>1, <3>2, <3>3, <4>1 DEF CountedAt
    <3>5. Faithful(i)'
      BY <2>5 DEF Faithful, At
    <3> QED
      BY <1>7, <1>4, <1>5, <2>3, <2>5, <3>1, <3>4, <3>5
  <2>6. \/ sent' = [sent EXCEPT ![i] = Append(@, line)] /\ UNCHANGED owed /\ owed[i] = 0
        \/ /\ owed' = [owed EXCEPT ![i] = @ + 1] /\ UNCHANGED sent
           /\ owed[i] > 0 \/ Len(sent[i]) - got[i] >= CAP
    BY <2>1, SlotTypes DEF do_write
  <2> QED
    BY <2>4, <2>5, <2>6
<1> QED
  BY <1>6, <1>7, SlotTypes

(* A chunk is read: a prompt that is not torn is seen whole or left whole. *)
LEMMA ReadKeeps ==
  ASSUME IInv, NEW i \in Slot, do_read(i)
  PROVE  IInv'
<1> USE DEF IInv
<1>1. PICK k \in 1 .. Len(net[i]) :
        LET chunk == SubSeq(net[i], 1, k) IN
        /\ net' = [net EXCEPT ![i] = SubSeq(@, k + 1, Len(@))]
        /\ IF contain_prompt(chunk) THEN send_command(i) ELSE UNCHANGED <<pos, sent, owed>>
        /\ torn' = [torn EXCEPT ![i] = @ \/ chunk[k] = "%"]
  BY DEF do_read
<1> DEFINE s == net[i]
           rest == SubSeq(s, k + 1, Len(s))
           chunk == SubSeq(s, 1, k)
<1>2. /\ proc = "run" /\ busy = 0 /\ st[i] = "read"
      /\ page' = page \cup {<<server_index[i], i>>}
      /\ UNCHANGED <<req, proc, header, server_index, session, server>>
  BY DEF do_read, Ready, output_shell
<1>3. /\ net'[i] = rest /\ rest \in Seq(Token)
      /\ Marks(rest) <= Marks(s) /\ (contain_prompt(chunk) => Marks(rest) < Marks(s))
  BY <1>1, SlotTypes, MarksRest DEF TypeOK
<1>4. /\ net' \in [Slot -> Seq(Token)]
      /\ \A j \in Slot \ {i} : net'[j] = net[j] /\ torn'[j] = torn[j]
  BY <1>1, <1>3 DEF TypeOK
<1>5. torn'[i] = (torn[i] \/ chunk[k] = "%") /\ torn' \in [Slot -> BOOLEAN]
  BY <1>1 DEF TypeOK
<1>6. Marks(net[i])' = Marks(rest)
  BY <1>3 DEF Marks, Marked
<1>7. /\ CountedAt(i)' /\ Faithful(i)'
      /\ pos' \in [Slot -> Nat] /\ owed' \in [Slot -> Nat]
      /\ sent' \in [Slot -> Seq(Commands \cup {Garbage})]
      /\ contain_prompt(chunk) /\ pos[i] < Len(req.file[i]) => pos'[i] = pos[i] + 1
      /\ pos'[i] >= pos[i]
      /\ \A j \in Slot \ {i} : pos'[j] = pos[j] /\ sent'[j] = sent[j] /\ owed'[j] = owed[j]
  <2>1. CASE contain_prompt(chunk)
    <3>1. send_command(i)
      BY <1>1, <2>1
    <3>2. UNCHANGED <<req, shell, got, fakes>>
      BY <1>2 DEF server
    <3>3. net'[i] \in Seq(Token) /\ Marks(net[i])' < Marks(net[i])
      BY <1>3, <1>6, <2>1
    <3> HIDE DEF chunk
    <3> QED
      BY <1>2, <2>1, <3>1, <3>2, <3>3, SendKeeps
  <2>2. CASE ~ contain_prompt(chunk)
    <3>1. UNCHANGED <<pos, sent, owed>>
      BY <1>1, <2>2
    <3>2. Prompts(i)' = Prompts(i) /\ Prompts(i) \in Nat
      BY <1>2, <3>1, SlotTypes DEF Prompts, server
    <3>3. Marks(rest) \in Nat
      BY <1>3, MarkedFinite
    <3>4. pos[i] + Marks(rest) <= Prompts(i) + fakes[i]
      <4>1. pos[i] + Marks(net[i]) <= Prompts(i) + fakes[i]
        BY DEF At, CountedAt
      <4> HIDE DEF rest
      <4> QED
        BY <1>3, <3>2, <3>3, <4>1, SlotTypes
    <3>5. CountedAt(i)'
      BY <1>2, <1>6, <3>1, <3>2, <3>4 DEF CountedAt, At, server
    <3>6. Faithful(i)'
      BY <1>2, <3>1 DEF Faithful, At, server
    <3>7. pos[i] \in Nat /\ pos \in [Slot -> Nat] /\ owed \in [Slot -> Nat]
          /\ sent \in [Slot -> Seq(Commands \cup {Garbage})]
      BY DEF TypeOK
    <3> HIDE DEF chunk
    <3> QED
      BY <2>2, <3>1, <3>5, <3>6, <3>7
  <2> QED
    BY <2>1, <2>2
<1>8. TypeOK'
  <2>1. page' \in SUBSET ((0 .. SERVER_SIZE) \X Slot)
    BY <1>2 DEF TypeOK
  <2> HIDE DEF rest, chunk
  <2> QED
    BY <1>2, <1>4, <1>5, <1>7, <2>1 DEF TypeOK, session, server
<1>9. WiredAt(i)'
  BY <1>2 DEF At, WiredAt, session, server
<1>10. PromptedAt(i)'
  <2> SUFFICES ASSUME shell'[i] = "open", ~ torn'[i], got'[i] = pos'[i],
                      pos'[i] < Len(req'.file[i])
               PROVE  LET n == Len(net'[i])
                      IN  n >= 2 /\ net'[i][n - 1] = "%" /\ net'[i][n] = " "
    BY DEF PromptedAt
  <2>1. /\ shell[i] = "open" /\ ~ torn[i] /\ chunk[k] # "%" /\ got'[i] = got[i] /\ req' = req
    BY <1>2, <1>5 DEF server
  <2>2. /\ got[i] <= pos[i] /\ pos[i] \in Nat /\ got[i] \in Nat /\ Len(req.file[i]) \in Nat
    <3>1. /\ pos[i] \in Nat /\ got[i] \in Nat /\ owed[i] \in Nat
          /\ Len(sent[i]) \in Nat /\ Len(req.file[i]) \in Nat
      BY SlotTypes
    <3>2. Len(sent[i]) + owed[i] = pos[i] /\ got[i] <= Len(sent[i])
      BY DEF At, CountedAt
    <3> QED
      BY <3>1, <3>2
  <2>3. got[i] = pos[i] /\ pos[i] < Len(req.file[i]) /\ ~ contain_prompt(chunk)
    <3> HIDE DEF chunk
    <3>1. pos'[i] >= pos[i] /\ pos'[i] \in Nat
      BY <1>7
    <3>2. got[i] = pos[i] /\ pos'[i] = pos[i]
      BY <2>1, <2>2, <3>1
    <3>3. pos[i] < Len(req.file[i])
      BY <2>1, <3>2
    <3> QED
      BY <1>7, <2>2, <3>2, <3>3
  <2>4. Len(s) >= 2 /\ s[Len(s) - 1] = "%" /\ s[Len(s)] = " " /\ s \in Seq(Token)
    BY <2>1, <2>3, SlotTypes DEF At, PromptedAt
  <2>5. Len(s) \in Nat /\ k \in 1 .. Len(s) /\ Len(chunk) = k /\ \A j \in 1 .. k : chunk[j] = s[j]
    <3>1. s \in Seq(Token)
      BY <2>4
    <3> QED
      BY <3>1, Pieces
  <2>6. k # Len(s)
    <3>1. ASSUME k = Len(s)
          PROVE  contain_prompt(chunk)
      <4>1. k - 1 \in 1 .. Len(chunk) - 1 /\ (k - 1) + 1 = k /\ k \in 1 .. k /\ k - 1 \in 1 .. k
        <5>1. Len(s) >= 2 /\ Len(s) \in Nat /\ Len(chunk) = k
          BY <2>4, <2>5
        <5> HIDE DEF chunk, s
        <5> QED
          BY <5>1, <3>1
      <4>2. chunk[k - 1] = "%" /\ chunk[k] = " "
        BY <2>4, <2>5, <3>1, <4>1
      <4> HIDE DEF chunk
      <4> QED
        BY <4>1, <4>2 DEF contain_prompt
    <3> QED
      BY <2>3, <3>1
  <2>7. k # Len(s) - 1
    <3>1. chunk[k] = s[k]
      BY <2>5
    <3> QED
      BY <2>1, <2>4, <3>1
  <2>8. k <= Len(s) - 2
    BY <2>5, <2>6, <2>7
  <2>9. /\ Len(rest) = Len(s) - k /\ rest[Len(s) - k - 1] = s[Len(s) - 1]
        /\ rest[Len(s) - k] = s[Len(s)]
    <3>1. Len(rest) = Len(s) - k /\ \A j \in 1 .. Len(s) - k : rest[j] = s[j + k]
      <4>1. s \in Seq(Token)
        BY <2>4
      <4> QED
        BY <4>1, Pieces
    <3>2. /\ Len(s) - k - 1 \in 1 .. Len(s) - k /\ Len(s) - k \in 1 .. Len(s) - k
          /\ (Len(s) - k - 1) + k = Len(s) - 1 /\ (Len(s) - k) + k = Len(s)
      BY <2>5, <2>8
    <3> HIDE DEF rest
    <3> QED
      BY <3>1, <3>2
  <2>10. Len(rest) >= 2 /\ Len(rest) - 1 = Len(s) - k - 1
    <3> HIDE DEF rest
    <3> QED
      BY <2>5, <2>8, <2>9
  <2> HIDE DEF rest
  <2> QED
    BY <1>3, <2>4, <2>9, <2>10
<1>11. \A j \in Slot \ {i} : At(j)'
  <2> HIDE DEF rest, chunk
  <2> QED
    BY <1>2, <1>4, <1>7, Untouched DEF session, server
<1> QED
  BY <1>7, <1>8, <1>9, <1>10, <1>11 DEF At

(* The connection has ended, fails, or the program ends.                   *)
LEMMA EndKeeps ==
  ASSUME IInv, NEW i \in Slot, ReadEnds(i) \/ Hangup(i) \/ RunReturns
  PROVE  IInv'
<1> USE DEF IInv
<1>1. CASE ReadEnds(i)
  <2>1. /\ st[i] = "read" /\ busy = 0 /\ proc = "run" /\ shell[i] = "gone"
        /\ st' = [st EXCEPT ![i] = "ended"] /\ net' = [net EXCEPT ![i] = <<>>]
        /\ UNCHANGED <<req, proc, console, busy, reply, pos, sent, owed, torn, server>>
    BY <1>1 DEF ReadEnds, Ready, Becomes
  <2>2. net'[i] = <<>> /\ net' \in [Slot -> Seq(Token)]
    BY <2>1 DEF TypeOK
  <2>3. Marks(net[i])' = 0
    BY <2>2, MarksEmpty DEF Marks, Marked
  <2>4. TypeOK'
    BY <2>1, <2>2 DEF TypeOK, console, server
  <2>5. Prompts(i)' = Prompts(i) /\ Prompts(i) \in Nat
    BY <2>1, SlotTypes DEF Prompts, server
  <2>6. CountedAt(i)'
    <3>1. pos[i] + 0 <= Prompts(i) + fakes[i]
      BY <2>5, SlotTypes DEF At, CountedAt
    <3> QED
      BY <2>1, <2>3, <2>5, <3>1 DEF At, CountedAt, server
  <2>7. WiredAt(i)' /\ Faithful(i)' /\ PromptedAt(i)'
    <3>1. WiredAt(i)'
      BY <2>1, SlotTypes DEF At, WiredAt, TypeOK, server
    <3>2. Faithful(i)'
      BY <2>1 DEF At, Faithful, server
    <3>3. PromptedAt(i)'
      BY <2>1 DEF PromptedAt, server
    <3> QED
      BY <3>1, <3>2, <3>3
  <2>8. \A j \in Slot \ {i} : At(j)'
    BY <2>1, Untouched DEF TypeOK, server
  <2> QED
    BY <2>4, <2>6, <2>7, <2>8 DEF At
<1>2. CASE Hangup(i)
  <2>1. /\ shell[i] = "open" /\ shell' = [shell EXCEPT ![i] = "gone"]
        /\ UNCHANGED <<req, proc, console, session, pos, sent, owed, torn, got, fakes, net>>
    BY <1>2 DEF Hangup
  <2>2. TypeOK'
    BY <2>1 DEF TypeOK, console, session
  <2>3. WiredAt(i)' /\ Faithful(i)' /\ PromptedAt(i)'
    <3>1. WiredAt(i)'
      BY <2>1 DEF At, WiredAt, TypeOK, session
    <3>2. Faithful(i)'
      BY <2>1 DEF At, Faithful
    <3>3. PromptedAt(i)'
      BY <2>1 DEF PromptedAt, TypeOK
    <3> QED
      BY <3>1, <3>2, <3>3
  <2>4. Prompts(i)' = Prompts(i)
    BY <2>1 DEF Prompts, TypeOK
  <2>5. CountedAt(i)'
    BY <2>1, <2>4 DEF At, CountedAt, Marks, Marked
  <2>6. \A j \in Slot \ {i} : At(j)'
    BY <2>1, Untouched DEF TypeOK, session
  <2> QED
    BY <2>2, <2>3, <2>5, <2>6 DEF At
<1>3. CASE RunReturns
  <2>1. /\ proc' = "exit"
        /\ UNCHANGED <<req, console, session, pos, sent, owed, torn, server, net>>
    BY <1>3 DEF RunReturns
  <2>2. TypeOK'
    BY <2>1 DEF TypeOK, console, session, server
  <2>3. \A j \in Slot : At(j)'
    BY <2>1, Untouched DEF session, server
  <2> QED
    BY <2>2, <2>3
<1> QED
  BY <1>1, <1>2, <1>3

(* A write that waited: the line may be spoilt, and waited because output  *)
(* had filled the connection.                                              *)
LEMMA LaterKeeps ==
  ASSUME IInv, NEW i \in Slot, WriteLater(i)
  PROVE  IInv'
<1> USE DEF IInv
<1>1. PICK line \in {Garbage, req.file[i][Len(sent[i]) + 1]} :
        sent' = [sent EXCEPT ![i] = Append(@, line)]
  BY DEF WriteLater
<1>2. /\ owed[i] > 0 /\ owed' = [owed EXCEPT ![i] = @ - 1]
      /\ UNCHANGED <<req, proc, console, session, pos, torn, server, net>>
  BY DEF WriteLater
<1>3. /\ Len(sent[i]) + owed[i] = pos[i] /\ pos[i] <= Len(req.file[i])
      /\ got[i] <= Len(sent[i]) /\ fakes[i] >= CAP
  BY <1>2 DEF At, CountedAt
<1>4. /\ pos[i] \in Nat /\ owed[i] \in Nat /\ got[i] \in Nat
      /\ Len(sent[i]) \in Nat /\ Len(req.file[i]) \in Nat
  BY SlotTypes
<1>5. Len(sent[i]) + 1 \in 1 .. Len(req.file[i])
  BY <1>2, <1>3, <1>4
<1>6. line \in Commands \cup {Garbage}
  BY <1>5, SlotTypes
<1>7. sent'[i] = Append(sent[i], line) /\ \A j \in Slot \ {i} : sent'[j] = sent[j]
  BY <1>1 DEF TypeOK
<1>8. /\ sent'[i] \in Seq(Commands \cup {Garbage}) /\ Len(sent'[i]) = Len(sent[i]) + 1
      /\ \A k \in 1 .. Len(sent[i]) : sent'[i][k] = sent[i][k]
      /\ sent'[i][Len(sent[i]) + 1] = line
  BY <1>6, <1>7, SlotTypes
<1>9. owed'[i] = owed[i] - 1 /\ owed' \in [Slot -> Nat] /\ \A j \in Slot \ {i} : owed'[j] = owed[j]
  <2>1. owed \in [Slot -> Nat] /\ owed[i] - 1 \in Nat
    BY <1>2, <1>4 DEF TypeOK
  <2> QED
    BY <1>2, <2>1
<1>10. TypeOK'
  <2>1. sent' \in [Slot -> Seq(Commands \cup {Garbage})]
    BY <1>1, <1>7, <1>8 DEF TypeOK
  <2> QED
    BY <1>2, <1>9, <2>1 DEF TypeOK, console, session, server
<1>11. Prompts(i)' = Prompts(i)
  <2>1. got[i] > 0 => got[i] \in 1 .. Len(sent[i])
    BY <1>3, <1>4
  <2> QED
    BY <1>2, <1>8, <2>1 DEF Prompts, server
<1>12. CountedAt(i)'
  <2>1. Len(sent'[i]) + owed'[i] = pos[i] /\ got[i] <= Len(sent'[i])
    <3>1. Len(sent[i]) + owed[i] = pos[i] /\ got[i] <= Len(sent[i])
      BY <1>3
    <3>2. Len(sent'[i]) = Len(sent[i]) + 1 /\ owed'[i] = owed[i] - 1
      BY <1>8, <1>9
    <3> QED
      BY <1>4, <3>1, <3>2
  <2>2. pos[i] + Marks(net[i]) <= Prompts(i) + fakes[i]
    BY DEF At, CountedAt
  <2>3. Marks(net[i])' = Marks(net[i])
    BY <1>2 DEF Marks, Marked
  <2> QED
    BY <1>2, <1>3, <1>11, <2>1, <2>2, <2>3 DEF CountedAt, server
<1>13. Faithful(i)'
  <2>1. \A k \in 1 .. Len(sent'[i]) : k \in 1 .. Len(sent[i]) \/ k = Len(sent[i]) + 1
    BY <1>4, <1>8
  <2> QED
    BY <1>1, <1>2, <1>3, <1>8, <2>1 DEF At, Faithful, server
<1>14. WiredAt(i)' /\ PromptedAt(i)'
  BY <1>2 DEF At, WiredAt, PromptedAt, session, server
<1>15. \A j \in Slot \ {i} : At(j)'
  BY <1>2, <1>7, <1>9, Untouched DEF session, server
<1> QED
  BY <1>10, <1>12, <1>13, <1>14, <1>15 DEF At

(* A command is answered: the prompt is behind everything else.            *)
LEMMA AnswerKeeps ==
  ASSUME IInv, NEW i \in Slot, Answer(i)
  PROVE  IInv'
<1> USE DEF IInv
<1>1. /\ shell[i] = "open" /\ got[i] < Len(sent[i]) /\ got' = [got EXCEPT ![i] = @ + 1]
      /\ UNCHANGED <<req, proc, console, session, pos, sent, owed, torn>>
  BY DEF Answer
<1>2. /\ pos[i] \in Nat /\ owed[i] \in Nat /\ got[i] \in Nat /\ fakes[i] \in Nat
      /\ Len(sent[i]) \in Nat /\ Marks(net[i]) \in Nat /\ net[i] \in Seq(Token)
      /\ CAP \in Nat
  BY SlotTypes
<1>3. /\ got'[i] = got[i] + 1 /\ got' \in [Slot -> Nat]
      /\ got'[i] <= Len(sent[i]) /\ \A j \in Slot \ {i} : got'[j] = got[j]
  <2>1. got \in [Slot -> Nat]
    BY DEF TypeOK
  <2>2. got'[i] = got[i] + 1 /\ got' \in [Slot -> Nat] /\ \A j \in Slot \ {i} : got'[j] = got[j]
    BY <1>1, <2>1
  <2>3. got[i] + 1 <= Len(sent[i])
    BY <1>1, <1>2
  <2> QED
    BY <2>2, <2>3
<1>4. /\ Len(sent[i]) + owed[i] = pos[i] /\ pos[i] <= Len(req.file[i])
      /\ pos[i] + Marks(net[i]) <= Prompts(i) + fakes[i]
      /\ owed[i] > 0 => fakes[i] >= CAP
  BY DEF At, CountedAt
<1>5. Prompts(i) <= got[i] + 1 /\ Prompts(i) \in Nat
  BY <1>2 DEF Prompts
<1>6. st[i] \in {"read", "ended"} \/ (st[i] = "handshake" /\ reply[i] # "none")
  BY <1>1 DEF At, WiredAt
<1>7. CASE /\ sent[i][got[i] + 1] = "exit"
           /\ shell' = [shell EXCEPT ![i] = "gone"] /\ UNCHANGED <<net, fakes>>
  <2>1. TypeOK'
    BY <1>1, <1>3, <1>7 DEF TypeOK, console, session
  <2>2. WiredAt(i)' /\ Faithful(i)' /\ PromptedAt(i)'
    <3>1. WiredAt(i)'
      BY <1>1, <1>6, <1>7 DEF At, WiredAt, TypeOK, session
    <3>2. Faithful(i)'
      BY <1>1, <1>7 DEF At, Faithful
    <3>3. PromptedAt(i)'
      BY <1>7 DEF PromptedAt, TypeOK
    <3> QED
      BY <3>1, <3>2, <3>3
  <2>3. Prompts(i)' = got[i] + 1
    <3>1. shell'[i] = "gone" /\ got'[i] > 0 /\ sent'[i][got'[i]] = "exit"
      BY <1>1, <1>2, <1>3, <1>7 DEF TypeOK
    <3> QED
      BY <1>3, <3>1 DEF Prompts
  <2>4. Marks(net[i])' = Marks(net[i])
    BY <1>7 DEF Marks, Marked
  <2>5. pos[i] + Marks(net[i]) <= (got[i] + 1) + fakes[i]
    BY <1>2, <1>4, <1>5
  <2>6. CountedAt(i)'
    BY <1>1, <1>3, <1>4, <1>7, <2>3, <2>4, <2>5 DEF CountedAt
  <2>7. \A j \in Slot \ {i} : At(j)'
    BY <1>1, <1>3, <1>7, Untouched DEF TypeOK, session
  <2> QED
    BY <2>1, <2>2, <2>6, <2>7 DEF At
<1>8. ASSUME sent[i][got[i] + 1] # "exit", UNCHANGED shell,
             NEW out \in {<<>>, <<"text">>, <<"fake">>},
             net' = [net EXCEPT ![i] = @ \o out \o Prompt],
             IF out = <<"fake">> THEN fakes[i] < MaxFakes /\ fakes' = [fakes EXCEPT ![i] = @ + 1]
                                 ELSE UNCHANGED fakes
      PROVE  IInv'
  <2> DEFINE t == net[i] \o out \o Prompt
             more == IF out = <<"fake">> THEN 1 ELSE 0
  <2>1. net'[i] = t /\ \A j \in Slot \ {i} : net'[j] = net[j]
    BY <1>8 DEF TypeOK
  <2>2. /\ t \in Seq(Token) /\ Marks(t) = Marks(net[i]) + (IF out = <<"fake">> THEN 2 ELSE 1)
        /\ Len(t) >= 2 /\ t[Len(t) - 1] = "%" /\ t[Len(t)] = " "
    BY <1>2, MarksAnswer
  <2>3. net' \in [Slot -> Seq(Token)]
    <3> HIDE DEF t
    <3> QED
      BY <1>8, <2>1, <2>2 DEF TypeOK
  <2>4. /\ fakes'[i] = fakes[i] + more /\ fakes' \in [Slot -> 0 .. MaxFakes]
        /\ \A j \in Slot \ {i} : fakes'[j] = fakes[j]
    <3>1. fakes \in [Slot -> 0 .. MaxFakes] /\ MaxFakes \in Nat
      BY ConsoleAssumption DEF TypeOK
    <3>2. CASE out = <<"fake">>
      <4>1. fakes[i] < MaxFakes /\ fakes' = [fakes EXCEPT ![i] = @ + 1]
        BY <1>8, <3>2
      <4>2. fakes[i] + 1 \in 0 .. MaxFakes
        BY <1>2, <3>1, <4>1
      <4> QED
        BY <3>1, <3>2, <4>1, <4>2
    <3>3. CASE out # <<"fake">>
      BY <1>2, <1>8, <3>1, <3>3
    <3> QED
      BY <3>2, <3>3
  <2>5. TypeOK'
    BY <1>1, <1>3, <1>8, <2>3, <2>4 DEF TypeOK, console, session
  <2>6. WiredAt(i)'
    BY <1>1, <1>6, <1>8 DEF At, WiredAt, session
  <2>7. Faithful(i)'
    BY <1>1, <1>2, <2>4, ConsoleAssumption DEF At, Faithful
  <2>8. PromptedAt(i)'
    <3> HIDE DEF t
    <3> QED
      BY <2>1, <2>2 DEF PromptedAt
  <2>9. Prompts(i)' = got[i] + 2
    BY <1>1, <1>2, <1>3, <1>8 DEF Prompts
  <2>10. CountedAt(i)'
    <3>1. Marks(net[i])' = Marks(net[i]) + more + 1
      <4>1. Marks(net[i])' = Marks(t)
        BY <2>1 DEF Marks, Marked
      <4>2. Marks(t) = Marks(net[i]) + more + 1
        <5>1. Marks(net[i]) \in Nat
          BY <1>2
        <5>2. Marks(t) = Marks(net[i]) + (IF out = <<"fake">> THEN 2 ELSE 1)
          BY <2>2
        <5> HIDE DEF t
        <5>3. CASE out = <<"fake">>
          BY <5>1, <5>2, <5>3
        <5>4. CASE out # <<"fake">>
          BY <5>1, <5>2, <5>4
        <5> QED
          BY <5>3, <5>4
      <4> HIDE DEF t, more
      <4> QED
        BY <1>2, <4>1, <4>2
    <3>2. pos[i] + (Marks(net[i]) + more + 1) <= (got[i] + 2) + (fakes[i] + more)
      <4>1. more \in Nat
        OBVIOUS
      <4>2. pos[i] + Marks(net[i]) <= Prompts(i) + fakes[i]
        BY <1>4
      <4>3. pos[i] + Marks(net[i]) <= (got[i] + 1) + fakes[i]
        BY <1>2, <1>5, <4>2
      <4>4. pos[i] \in Nat /\ got[i] \in Nat /\ fakes[i] \in Nat /\ Marks(net[i]) \in Nat
        BY <1>2
      <4>5. \A p, m, g, f, x \in Nat :
              p + m <= (g + 1) + f => p + (m + x + 1) <= (g + 2) + (f + x)
        OBVIOUS
      <4> HIDE DEF more
      <4> QED
        BY <4>1, <4>3, <4>4, <4>5
    <3>3. owed[i] > 0 => fakes[i] + more >= CAP
      BY <1>2, <1>4
    <3> HIDE DEF more
    <3> QED
      BY <1>1, <1>3, <1>4, <2>4, <2>9, <3>1, <3>2, <3>3 DEF CountedAt
  <2>11. \A j \in Slot \ {i} : At(j)'
    BY <1>1, <1>3, <1>8, <2>1, <2>4, Untouched DEF session
  <2> QED
    BY <2>5, <2>6, <2>7, <2>8, <2>10, <2>11 DEF At
<1>9. CASE /\ sent[i][got[i] + 1] # "exit" /\ UNCHANGED shell
           /\ \/ /\ \E out \in {<<>>, <<"text">>} :
                      net' = [net EXCEPT ![i] = @ \o out \o Prompt]
                 /\ UNCHANGED fakes
              \/ /\ fakes[i] < MaxFakes /\ fakes' = [fakes EXCEPT ![i] = @ + 1]
                 /\ net' = [net EXCEPT ![i] = @ \o <<"fake">> \o Prompt]
  <2>1. CASE /\ \E out \in {<<>>, <<"text">>} :
                  net' = [net EXCEPT ![i] = @ \o out \o Prompt]
             /\ UNCHANGED fakes
    <3>1. PICK out \in {<<>>, <<"text">>} : net' = [net EXCEPT ![i] = @ \o out \o Prompt]
      BY <2>1
    <3>2. out # <<"fake">>
      BY <3>1
    <3> QED
      BY <1>8, <1>9, <2>1, <3>1, <3>2
  <2>2. CASE /\ fakes[i] < MaxFakes /\ fakes' = [fakes EXCEPT ![i] = @ + 1]
             /\ net' = [net EXCEPT ![i] = @ \o <<"fake">> \o Prompt]
    BY <1>8, <1>9, <2>2
  <2> QED
    BY <1>9, <2>1, <2>2
<1> QED
  BY <1>7, <1>9 DEF Answer

LEMMA NextKeeps == IInv /\ [Next]_vars => IInv'
<1> SUFFICES ASSUME IInv, [Next]_vars PROVE IInv'
  OBVIOUS
<1>1. CASE main \/ RunReturns
  <2>1. 1 \in Slot
    BY ConsoleAssumption DEF Slot
  <2> QED
    BY <1>1, <2>1, MainKeeps, EndKeeps
<1>2. ASSUME NEW i \in Slot, Handler(i) \/ ProxyReplies(i) \/ Answer(i) \/ Hangup(i)
      PROVE  IInv'
  BY <1>2, ResolveKeeps, ConnectKeeps, ReplyKeeps, ReadKeeps, EndKeeps, LaterKeeps,
     ProxyKeeps, AnswerKeeps DEF Handler
<1>3. CASE UNCHANGED vars
  <2>1. TypeOK'
    BY <1>3 DEF IInv, TypeOK, vars, console, session, server
  <2>2. \A j \in Slot : At(j)'
    BY <1>3, Untouched DEF IInv, vars, session, server
  <2> QED
    BY <2>1, <2>2 DEF IInv
<1> QED
  BY <1>1, <1>2, <1>3 DEF Next

-----------------------------------------------------------------------------
(* The inductive invariant holds for any sessions, files and capacity.     *)
THEOREM ConsoleInvariance == Spec => []IInv
  BY InitInv, NextKeeps, PTL DEF Spec

(* Types: a column number fits the form, a command sent is one of a file   *)
(* or what a buffer held after its function had returned.                  *)
THEOREM ConsoleTypeCorrect == Spec => []TypeOK
  BY ConsoleInvariance, PTL DEF IInv

(* The lines of the file are sent in order, each once, never more than the *)
(* server has prompted for; they are spoilt only behind a full connection. *)
THEOREM AlwaysInOrder == Spec => []InOrder
<1>1. ASSUME IInv PROVE InOrder
  <2>1. ASSUME NEW i \in Slot
        PROVE  pos[i] <= Prompts(i) + fakes[i]
    <3>1. Prompts(i) \in Nat
      BY <1>1, SlotTypes DEF IInv, Prompts
    <3>2. pos[i] + Marks(net[i]) <= Prompts(i) + fakes[i]
      BY <1>1 DEF IInv, At, CountedAt
    <3> QED
      BY <1>1, <3>1, <3>2, SlotTypes DEF IInv
  <2> QED
    BY <1>1, <2>1 DEF IInv, At, CountedAt, Faithful, InOrder
<1> QED
  BY <1>1, ConsoleInvariance, PTL

(* A server that is there has not read an exit.                            *)
NoExitRead == \A i \in Slot : shell[i] = "open" =>
                \A k \in 1 .. got[i] : sent[i][k] # "exit"

(* Lines are only added behind those sent.                                 *)
LEMMA Extended ==
  ASSUME IInv, NEW i \in Slot, NEW line \in Commands \cup {Garbage},
         sent' = [sent EXCEPT ![i] = Append(@, line)]
  PROVE  \A j \in Slot : \A k \in 1 .. Len(sent[j]) : sent'[j][k] = sent[j][k]
<1>1. /\ sent[i] \in Seq(Commands \cup {Garbage})
      /\ sent'[i] = Append(sent[i], line) /\ \A j \in Slot \ {i} : sent'[j] = sent[j]
  BY DEF IInv, TypeOK
<1> QED
  BY <1>1

LEMMA SentKept ==
  ASSUME IInv, NEW i \in Slot, do_read(i) \/ WriteLater(i)
  PROVE  \A j \in Slot : \A k \in 1 .. Len(sent[j]) : sent'[j][k] = sent[j][k]
<1>1. /\ Len(sent[i]) + owed[i] = pos[i] /\ pos[i] <= Len(req.file[i])
      /\ pos[i] \in Nat /\ owed[i] \in Nat /\ Len(sent[i]) \in Nat
      /\ req.file[i] \in Seq(Commands) /\ Len(req.file[i]) \in Nat
  BY SlotTypes DEF IInv, At, CountedAt
<1>2. CASE WriteLater(i)
  <2>1. Len(sent[i]) + 1 \in 1 .. Len(req.file[i])
    BY <1>1, <1>2 DEF WriteLater
  <2>2. req.file[i][Len(sent[i]) + 1] \in Commands
    BY <1>1, <2>1
  <2> QED
    BY <1>2, <2>2, Extended DEF WriteLater
<1>3. CASE do_read(i)
  <2>1. UNCHANGED sent \/ send_command(i)
    BY <1>3 DEF do_read
  <2>2. CASE UNCHANGED sent
    BY <2>2
  <2>3. CASE send_command(i) /\ ~ UNCHANGED sent
    <3>1. pos[i] < Len(req.file[i]) /\ do_write(i, req.file[i][pos[i] + 1])
      BY <2>3 DEF send_command
    <3>2. req.file[i][pos[i] + 1] \in Commands
      BY <1>1, <3>1
    <3> QED
      BY <2>3, <3>1, <3>2, Extended DEF do_write
  <2> QED
    BY <2>1, <2>2, <2>3
<1> QED
  BY <1>2, <1>3

LEMMA NoExitKept == IInv /\ NoExitRead /\ [Next]_vars => NoExitRead'
<1> SUFFICES ASSUME IInv, NoExitRead, [Next]_vars PROVE NoExitRead'
  OBVIOUS
<1>1. \A j \in Slot : got[j] \in Nat /\ Len(sent[j]) \in Nat /\ got[j] <= Len(sent[j])
                     /\ (shell[j] = "closed" => got[j] = 0)
  BY SlotTypes DEF IInv, At, CountedAt, WiredAt
<1>2. ASSUME NEW i \in Slot, Answer(i)
      PROVE  NoExitRead'
  <2> SUFFICES ASSUME NEW j \in Slot, shell'[j] = "open", NEW k \in 1 .. got'[j]
               PROVE  sent'[j][k] # "exit"
    BY DEF NoExitRead
  <2>1. sent' = sent /\ got' = [got EXCEPT ![i] = @ + 1] /\ shell[i] = "open"
    BY <1>2 DEF Answer
  <2>2. shell[j] = "open"
    BY <1>2 DEF Answer, IInv, TypeOK
  <2>3. CASE j = i /\ k = got[i] + 1
    BY <1>2, <2>1, <2>3 DEF Answer, IInv, TypeOK
  <2>4. CASE k \in 1 .. got[j]
    BY <2>1, <2>2, <2>4 DEF NoExitRead
  <2> QED
    BY <1>1, <2>1, <2>3, <2>4 DEF IInv, TypeOK
<1>3. ASSUME \A j \in Slot : shell'[j] = "open" => shell[j] \in {"open", "closed"},
             UNCHANGED got,
             \A j \in Slot : \A k \in 1 .. Len(sent[j]) : sent'[j][k] = sent[j][k]
      PROVE  NoExitRead'
  BY <1>1, <1>3 DEF NoExitRead
<1>4. \A j \in Slot : \A k \in 1 .. Len(sent[j]) :
        UNCHANGED sent => sent'[j][k] = sent[j][k]
  OBVIOUS
<1>5. ASSUME NEW i \in Slot, do_connect(i) \/ ProxyReplies(i)
      PROVE  NoExitRead'
  <2>1. shell[i] = "closed"
    BY <1>5 DEF do_connect, Ready, ProxyReplies, IInv, At, WiredAt, TypeOK
  <2>2. /\ \A j \in Slot : shell'[j] = "open" => shell[j] \in {"open", "closed"}
        /\ UNCHANGED <<got, sent>>
    BY <1>5, <2>1 DEF do_connect, ProxyReplies, ServerOpens, IInv, TypeOK
  <2> QED
    BY <1>3, <1>4, <2>2
<1>6. ASSUME NEW i \in Slot, do_read(i) \/ WriteLater(i)
      PROVE  NoExitRead'
  <2>1. UNCHANGED <<shell, got>>
    BY <1>6 DEF do_read, WriteLater, server
  <2> QED
    BY <1>3, <1>6, <2>1, SentKept
<1>7. ASSUME NEW i \in Slot, Hangup(i)
      PROVE  NoExitRead'
  <2>1. UNCHANGED <<got, sent>> /\ \A j \in Slot : shell'[j] = "open" => shell[j] = "open"
    BY <1>7 DEF Hangup, IInv, TypeOK
  <2> QED
    BY <1>3, <1>4, <2>1
<1>8. ASSUME UNCHANGED <<shell, got, sent>>
      PROVE  NoExitRead'
  BY <1>8 DEF NoExitRead
<1>9. CASE main \/ RunReturns \/ UNCHANGED vars
  BY <1>8, <1>9 DEF main, RunReturns, vars, server
<1>10. ASSUME NEW i \in Slot,
              do_resolve(i) \/ do_connect_socks(i) \/ ReadReply(i) \/ ReadEnds(i)
       PROVE  NoExitRead'
  BY <1>8, <1>10 DEF do_resolve, do_connect_socks, ReadReply, ReadEnds, server
<1> QED
  BY <1>2, <1>5, <1>6, <1>7, <1>9, <1>10 DEF Next, Handler

(* A session and its server wait for each other only behind a torn prompt, *)
(* or when the file is used up and every exit in it has been spoilt.       *)
THEOREM AlwaysStuckExplained == Spec => []StuckExplained
<1>1. ASSUME IInv, NoExitRead PROVE StuckExplained
  <2> SUFFICES ASSUME NEW i \in Slot, Stuck(i), ~ torn[i]
               PROVE  /\ pos[i] = Len(req.file[i])
                      /\ \A k \in 1 .. pos[i] : req.file[i][k] = "exit" => sent[i][k] = Garbage
    BY DEF StuckExplained
  <2>1. /\ Len(sent[i]) + owed[i] = pos[i] /\ pos[i] <= Len(req.file[i])
        /\ owed[i] = 0 /\ got[i] = Len(sent[i]) /\ shell[i] = "open"
    BY <1>1 DEF IInv, At, CountedAt, Stuck
  <2>2. got[i] = pos[i] /\ Len(sent[i]) = pos[i]
    BY <1>1, <2>1, SlotTypes DEF IInv
  <2>3. ASSUME pos[i] # Len(req.file[i]) PROVE FALSE
    <3>1. pos[i] < Len(req.file[i])
      BY <1>1, <2>1, <2>3, SlotTypes DEF IInv
    <3>2. Len(net[i]) >= 2
      BY <1>1, <2>1, <2>2, <3>1 DEF IInv, At, PromptedAt
    <3>3. Len(net[i]) = 0
      BY DEF Stuck
    <3> QED
      BY <3>2, <3>3
  <2>4. ASSUME NEW k \in 1 .. pos[i], req.file[i][k] = "exit"
        PROVE  sent[i][k] = Garbage
    <3>1. sent[i][k] # "exit"
      BY <1>1, <2>1, <2>2 DEF NoExitRead
    <3> QED
      BY <1>1, <2>2, <2>4, <3>1 DEF IInv, At, Faithful
  <2> QED
    BY <2>3, <2>4
<1>2. Init => NoExitRead
  BY DEF Init, NoExitRead
<1> QED
  BY <1>1, <1>2, NoExitKept, ConsoleInvariance, PTL DEF Spec

-----------------------------------------------------------------------------
(* Columns.  The rank of a slot among those that are enabled.              *)
Rank(on, i) == Cardinality({j \in on : j <= i})

LEMMA SlotsFinite ==
  ASSUME NEW on \in SUBSET Slot
  PROVE  /\ IsFiniteSet(on) /\ Cardinality(on) \in Nat /\ on \subseteq Nat
         /\ \A T \in SUBSET on : IsFiniteSet(T) /\ Cardinality(T) <= Cardinality(on)
<1>1. IsFiniteSet(Slot)
  BY FS_Interval, ConsoleAssumption DEF Slot
<1>2. IsFiniteSet(on)
  BY <1>1, FS_Subset
<1>3. \A T \in SUBSET on : IsFiniteSet(T) /\ Cardinality(T) <= Cardinality(on)
  BY <1>2, FS_Subset
<1>4. Cardinality(on) \in Nat
  BY <1>2, FS_CardinalityType
<1> QED
  BY <1>2, <1>3, <1>4, ConsoleAssumption DEF Slot

(* Ranks count from 1 and grow with the slots.                             *)
LEMMA RankGrows ==
  ASSUME NEW on \in SUBSET Slot
  PROVE  /\ \A i \in on : Rank(on, i) \in 1 .. Cardinality(on)
         /\ \A i, k \in on : i < k => Rank(on, i) < Rank(on, k)
<1> DEFINE U(i) == {j \in on : j <= i}
<1>1. \A i \in on : /\ IsFiniteSet(U(i)) /\ Cardinality(U(i)) <= Cardinality(on)
                    /\ Cardinality(U(i)) \in Nat
  BY SlotsFinite, FS_CardinalityType
<1>2. ASSUME NEW i \in on
      PROVE  Rank(on, i) \in 1 .. Cardinality(on)
  <2>1. i \in U(i)
    BY SlotsFinite
  <2>2. Cardinality(U(i)) # 0
    <3> DEFINE T == U(i)
    <3>1. IsFiniteSet(T) /\ T # {}
      BY <1>1, <2>1
    <3> HIDE DEF T
    <3>2. Cardinality(T) # 0
      BY <3>1, FS_EmptySet
    <3> QED
      BY <3>2 DEF T
  <2>3. Rank(on, i) = Cardinality(U(i))
    BY DEF Rank
  <2>4. Cardinality(on) \in Nat
    BY SlotsFinite
  <2> HIDE DEF U
  <2> QED
    BY <1>1, <2>2, <2>3, <2>4
<1>3. ASSUME NEW i \in on, NEW k \in on, i < k
      PROVE  Rank(on, i) < Rank(on, k)
  <2> DEFINE T == U(i)
             V == U(k)
  <2>1. k \notin T /\ T \cup {k} \in SUBSET V
    BY <1>3, SlotsFinite
  <2>2. IsFiniteSet(T) /\ IsFiniteSet(V) /\ Cardinality(T) \in Nat /\ Cardinality(V) \in Nat
    BY <1>1
  <2>3. Rank(on, i) = Cardinality(T) /\ Rank(on, k) = Cardinality(V)
    BY DEF Rank
  <2> HIDE DEF T, V, U
  <2>4. Cardinality(T \cup {k}) = Cardinality(T) + 1
    BY <2>1, <2>2, FS_AddElement
  <2>5. Cardinality(T \cup {k}) <= Cardinality(V)
    BY <2>1, <2>2, FS_Subset
  <2> QED
    BY <2>2, <2>3, <2>4, <2>5
<1> QED
  BY <1>2, <1>3

(* The slots can be listed in their order.                                 *)
LEMMA Listed ==
  ASSUME NEW on \in SUBSET Slot
  PROVE  \E s \in [1 .. Cardinality(on) -> on] : Ascending(s)
<1> DEFINE n == Cardinality(on)
           rank == [i \in on |-> Rank(on, i)]
<1>1. n \in Nat /\ IsFiniteSet(on) /\ on \subseteq Nat
  BY SlotsFinite
<1>2. /\ \A i \in on : Rank(on, i) \in 1 .. n
      /\ \A i, k \in on : i < k => Rank(on, i) < Rank(on, k)
  BY RankGrows
<1>3. rank \in Injection(on, 1 .. n)
  <2>1. rank \in [on -> 1 .. n]
    BY <1>2
  <2>2. \A i, k \in on : rank[i] = rank[k] => i = k
    <3> SUFFICES ASSUME NEW i \in on, NEW k \in on, Rank(on, i) = Rank(on, k)
                 PROVE  i = k
      OBVIOUS
    <3>1. i \in Nat /\ k \in Nat /\ Rank(on, i) \in Nat
      BY <1>1, <1>2
    <3> QED
      BY <1>2, <3>1
  <2> QED
    BY <2>1, <2>2 DEF Injection, IsInjective
<1>4. IsFiniteSet(1 .. n) /\ Cardinality(1 .. n) = n
  <2> HIDE DEF n
  <2>1. 1 \in Int /\ n \in Int /\ (1 > n => n = 0) /\ n - 1 + 1 = n
    BY <1>1
  <2> QED
    BY <2>1, FS_Interval
<1>5. rank \in Surjection(on, 1 .. n)
  <2> HIDE DEF rank
  <2> QED
    BY <1>3, <1>4, FS_Injection
<1>6. \A k \in 1 .. n : \E i \in on : Rank(on, i) = k
  BY <1>5 DEF Surjection
<1> DEFINE s == [k \in 1 .. n |-> CHOOSE i \in on : Rank(on, i) = k]
<1> HIDE DEF n
<1>7. \A k \in 1 .. n : s[k] \in on /\ Rank(on, s[k]) = k
  BY <1>6
<1>8. \A j, k \in 1 .. n : j < k => s[j] < s[k]
  <2> SUFFICES ASSUME NEW j \in 1 .. n, NEW k \in 1 .. n, j < k, ~ s[j] < s[k]
               PROVE  FALSE
    OBVIOUS
  <2> DEFINE a == s[j]
             b == s[k]
  <2>1. a \in on /\ b \in on /\ Rank(on, a) = j /\ Rank(on, b) = k /\ ~ a < b
    BY <1>7
  <2>2. j \in Nat /\ k \in Nat /\ j < k
    BY <1>1
  <2> HIDE DEF s, a, b
  <2>3. a \in Nat /\ b \in Nat
    BY <1>1, <2>1
  <2>4. b < a \/ b = a
    BY <2>1, <2>3
  <2> QED
    BY <1>2, <2>1, <2>2, <2>4
<1>9. s \in [1 .. n -> on] /\ DOMAIN s = 1 .. n
  BY <1>7
<1> HIDE DEF s
<1>10. s \in [1 .. n -> on] /\ Ascending(s)
  BY <1>8, <1>9 DEF Ascending
<1> QED
  BY <1>10 DEF n

(* In such a list every slot stands at the place of its rank.              *)
LEMMA ListedByRank ==
  ASSUME NEW on \in SUBSET Slot,
         NEW s \in [1 .. Cardinality(on) -> on], Ascending(s)
  PROVE  /\ {s[k] : k \in 1 .. Cardinality(on)} = on
         /\ \A i \in on : Rank(on, i) \in 1 .. Cardinality(on) /\ s[Rank(on, i)] = i
<1> DEFINE n == Cardinality(on)
<1>1. n \in Nat /\ IsFiniteSet(on) /\ on \subseteq Nat
  BY SlotsFinite
<1>2. \A m \in Nat : IsFiniteSet(1 .. m) /\ Cardinality(1 .. m) = m
  <2> SUFFICES ASSUME NEW m \in Nat
               PROVE  IsFiniteSet(1 .. m) /\ Cardinality(1 .. m) = m
    OBVIOUS
  <2>1. 1 \in Int /\ m \in Int /\ (1 > m => m = 0) /\ m - 1 + 1 = m
    OBVIOUS
  <2> QED
    BY <2>1, FS_Interval
<1>3. s \in [1 .. n -> on] /\ DOMAIN s = 1 .. n /\ \A j, k \in 1 .. n : j < k => s[j] < s[k]
  BY DEF Ascending
<1> HIDE DEF n
<1>4. \A j, k \in 1 .. n : (s[j] = s[k] => j = k) /\ (s[j] <= s[k] <=> j <= k)
  <2> SUFFICES ASSUME NEW j \in 1 .. n, NEW k \in 1 .. n
               PROVE  (s[j] = s[k] => j = k) /\ (s[j] <= s[k] <=> j <= k)
    OBVIOUS
  <2> DEFINE a == s[j]
             b == s[k]
  <2>1. a \in on /\ b \in on
    BY <1>3
  <2>2. (j < k => a < b) /\ (k < j => b < a) /\ (j = k => a = b)
    BY <1>3
  <2>3. j \in Nat /\ k \in Nat
    BY <1>1
  <2> HIDE DEF a, b
  <2>4. a \in Nat /\ b \in Nat
    BY <1>1, <2>1
  <2>5. (a = b => j = k) /\ (a <= b <=> j <= k)
    BY <2>2, <2>3, <2>4
  <2> QED
    BY <2>5 DEF a, b
<1>5. s \in Injection(1 .. n, on)
  BY <1>3, <1>4 DEF Injection, IsInjective
<1>6. s \in Surjection(1 .. n, on)
  <2>1. Cardinality(1 .. n) = Cardinality(on)
    BY <1>1, <1>2 DEF n
  <2> QED
    BY <1>1, <1>5, <2>1, FS_Injection
<1>7. {s[k] : k \in 1 .. n} = on
  BY <1>3, <1>6 DEF Surjection
<1>8. ASSUME NEW k \in 1 .. n
      PROVE  Rank(on, s[k]) = k
  <2> DEFINE T == {j \in on : j <= s[k]}
             f == [j \in 1 .. k |-> s[j]]
  <2>1. k \in Nat /\ \A j \in 1 .. k : j \in 1 .. n
    BY <1>1
  <2>2. f \in [1 .. k -> T]
    <3> SUFFICES ASSUME NEW j \in 1 .. k PROVE s[j] \in T
      OBVIOUS
    <3>1. j \in 1 .. n /\ j <= k
      BY <2>1
    <3> QED
      BY <1>3, <1>4, <3>1
  <2>3. \A i \in T : \E j \in 1 .. k : f[j] = i
    <3> SUFFICES ASSUME NEW i \in T PROVE \E j \in 1 .. k : f[j] = i
      OBVIOUS
    <3>1. PICK j \in 1 .. n : s[j] = i
      BY <1>7
    <3>2. j \in 1 .. k
      BY <1>4, <3>1, <2>1
    <3> QED
      BY <3>1, <3>2
  <2>4. f \in Injection(1 .. k, T)
    <3>1. \A a, b \in 1 .. k : f[a] = f[b] => a = b
      BY <1>4, <2>1
    <3> QED
      BY <2>2, <3>1 DEF Injection, IsInjective
  <2>5. f \in Surjection(1 .. k, T)
    BY <2>2, <2>3 DEF Surjection
  <2>6. Rank(on, s[k]) = Cardinality(T)
    BY DEF Rank
  <2> HIDE DEF T, f
  <2>7. Cardinality(T) = Cardinality(1 .. k)
    BY <1>2, <2>1, <2>4, <2>5, FS_Surjection
  <2> QED
    BY <1>2, <2>1, <2>6, <2>7
<1>9. \A i \in on : Rank(on, i) \in 1 .. n /\ s[Rank(on, i)] = i
  <2> SUFFICES ASSUME NEW i \in on
               PROVE  Rank(on, i) \in 1 .. n /\ s[Rank(on, i)] = i
    OBVIOUS
  <2>1. PICK k \in 1 .. n : s[k] = i
    BY <1>7
  <2> QED
    BY <1>8, <2>1
<1> QED
  BY <1>7, <1>9 DEF n

(* Whichever way the form is scanned, the slots filled in are enabled.     *)
On == {i \in Slot : enabled(i)}

LEMMA EnabledFilled ==
  ASSUME NEW i \in Slot
  PROVE  enabled(i) <=> \A k \in 1 .. 3 : req.slot[i][k]
<1> DEFINE K == {k \in 1 .. 3 : \A j \in 1 .. k : req.slot[i][j]}
<1>1. IsFiniteSet(1 .. 3) /\ Cardinality(1 .. 3) = 3
  <2>1. 1 \in Int /\ 3 \in Int /\ ~ 1 > 3 /\ 3 - 1 + 1 = 3
    OBVIOUS
  <2> QED
    BY <2>1, FS_Interval
<1>2. K \in SUBSET (1 .. 3)
  OBVIOUS
<1>3. (\A k \in 1 .. 3 : req.slot[i][k]) <=> K = 1 .. 3
  <2>1. ASSUME \A k \in 1 .. 3 : req.slot[i][k] PROVE K = 1 .. 3
    BY <2>1
  <2>2. ASSUME K = 1 .. 3 PROVE \A k \in 1 .. 3 : req.slot[i][k]
    <3> SUFFICES ASSUME NEW k \in 1 .. 3 PROVE req.slot[i][k]
      OBVIOUS
    <3>1. k \in K /\ k \in 1 .. k
      BY <2>2
    <3> QED
      BY <3>1
  <2> QED
    BY <2>1, <2>2
<1>4. items(i) = Cardinality(K)
  BY DEF items
<1> HIDE DEF K
<1>5. Cardinality(K) = 3 <=> K = 1 .. 3
  BY <1>1, <1>2, FS_Subset
<1>6. items(i) = 3 <=> \A k \in 1 .. 3 : req.slot[i][k]
  BY <1>3, <1>4, <1>5
<1> QED
  BY <1>6 DEF enabled, enabled_direct, enabled_socks

LEMMA ColumnRank ==
  ASSUME NEW i \in On
  PROVE  column(i) = Rank(On, i)
<1>1. i \in Slot /\ enabled(i)
  BY DEF On
<1>2. {j \in 1 .. i : enabled(j)} = {j \in On : j <= i}
  BY <1>1, ConsoleAssumption DEF On, Slot
<1> QED
  BY <1>1, <1>2 DEF column, Rank

(* The three loops of main agree, and output goes where they say.          *)
Columns ==
  /\ proc = "start" => header = <<>> /\ page = {}
  /\ proc # "start" =>
       /\ header \in [1 .. Cardinality(On) -> On] /\ Ascending(header)
       /\ \A i \in Slot : server_index[i] = column(i) /\ (st[i] # "off" => i \in On)
  /\ \A x \in page : x[2] \in On /\ x[1] = column(x[2])

LEMMA ColumnsInit == Init => Columns
  BY DEF Init, Columns

LEMMA ColumnsMain ==
  ASSUME main, Columns
  PROVE  Columns'
<1>1. /\ proc = "start" /\ proc' = "run" /\ req' = req /\ page' = {}
      /\ \A i \in Slot : server_index'[i] = column(i)
      /\ \A i \in Slot : st'[i] # "off" => enabled(i)
  BY DEF main, Columns
<1>2. header' \in [1 .. Cardinality(On) -> On] /\ Ascending(header')
  <2>1. header' = CHOOSE s \in [1 .. Cardinality(On) -> On] : Ascending(s)
    BY DEF main, print_html_web, On
  <2>2. On \in SUBSET Slot
    BY DEF On
  <2> QED
    BY <2>1, <2>2, Listed
<1>3. On' = On /\ \A i \in Slot : column(i)' = column(i)
  <2>1. \A i \in Slot : enabled(i)' <=> enabled(i)
    BY <1>1 DEF enabled, enabled_direct, enabled_socks, items
  <2>2. \A i \in Slot : 1 .. i \subseteq Slot
    BY ConsoleAssumption DEF Slot
  <2>3. ASSUME NEW i \in Slot PROVE column(i)' = column(i)
    <3>1. {j \in 1 .. i : enabled(j)}' = {j \in 1 .. i : enabled(j)}
      BY <2>1, <2>2
    <3> QED
      BY <2>1, <3>1 DEF column
  <2> QED
    BY <2>1, <2>3 DEF On
<1> QED
  BY <1>1, <1>2, <1>3 DEF Columns, On

(* Afterwards the columns stay, and a session that runs is enabled.        *)
LEMMA ColumnsStay ==
  ASSUME TypeOK, Columns, proc' # "start", proc # "start",
         UNCHANGED <<req, header, server_index>>,
         \A j \in Slot : st[j] = "off" => st'[j] = "off",
         page' = page \/ \E i \in Slot : st[i] = "read" /\ output_shell(i)
  PROVE  Columns'
<1>1. On' = On /\ \A i \in Slot : column(i)' = column(i)
  <2>1. \A i \in Slot : enabled(i)' <=> enabled(i)
    BY DEF enabled, enabled_direct, enabled_socks, items
  <2>2. \A i \in Slot : 1 .. i \subseteq Slot
    BY ConsoleAssumption DEF Slot
  <2>3. ASSUME NEW i \in Slot PROVE column(i)' = column(i)
    <3>1. {j \in 1 .. i : enabled(j)}' = {j \in 1 .. i : enabled(j)}
      BY <2>1, <2>2
    <3> QED
      BY <2>1, <3>1 DEF column
  <2> QED
    BY <2>1, <2>3 DEF On
<1>2. \A x \in page' : x[2] \in On /\ x[1] = column(x[2])
  <2>1. CASE page' = page
    BY <2>1 DEF Columns
  <2>2. ASSUME NEW i \in Slot, st[i] = "read", output_shell(i)
        PROVE  \A x \in page' : x[2] \in On /\ x[1] = column(x[2])
    <3>1. i \in On /\ server_index[i] = column(i)
      BY <2>2 DEF Columns
    <3> QED
      BY <2>2, <3>1 DEF Columns, output_shell
  <2> QED
    BY <2>1, <2>2
<1>3. On \subseteq Slot
  BY DEF On
<1> QED
  BY <1>1, <1>2, <1>3 DEF Columns

LEMMA ColumnsSame ==
  ASSUME Columns, UNCHANGED <<req, proc, console, st>>
  PROVE  Columns'
<1>1. UNCHANGED <<header, server_index, page>>
  BY DEF console
<1>2. \A i : enabled(i)' <=> enabled(i)
  BY DEF enabled, enabled_direct, enabled_socks, items
<1>3. On' = On /\ \A i \in Slot : column(i)' = column(i)
  BY <1>2 DEF On, column
<1>4. On \subseteq Slot
  BY DEF On
<1> QED
  BY <1>1, <1>3, <1>4 DEF Columns

LEMMA ColumnsStep ==
  ASSUME IInv, Columns, [Next]_vars
  PROVE  Columns'
<1> USE DEF IInv
<1>1. CASE main
  BY <1>1, ColumnsMain
<1>2. CASE ~ main
  <2>1. CASE RunReturns
    BY <2>1, ColumnsStay DEF RunReturns, console, session
  <2>2. ASSUME NEW i \in Slot, Handler(i)
        PROVE  Columns'
    <3>1. st \in [Slot -> {"off", "resolve", "connect", "handshake", "read", "ended"}]
      BY DEF TypeOK
    <3>2. ASSUME NEW s, Becomes(i, s), st[i] # "off"
          PROVE  \A j \in Slot : st[j] = "off" => st'[j] = "off"
      BY <3>1, <3>2 DEF Becomes
    <3>3. proc = "run" /\ proc' \in {"run", "abort"} /\ UNCHANGED <<req, header, server_index>>
      BY <2>2 DEF Handler, do_resolve, do_connect, do_connect_socks, ReadReply, do_read, ReadEnds,
                  WriteLater, Ready, console
    <3>4. \A j \in Slot : st[j] = "off" => st'[j] = "off"
      <4>1. CASE do_resolve(i)
        BY <3>2, <4>1 DEF do_resolve, Ready
      <4>2. CASE do_connect(i)
        BY <3>2, <4>2 DEF do_connect, Ready
      <4>3. CASE do_connect_socks(i)
        BY <3>2, <4>3 DEF do_connect_socks, Ready
      <4>4. CASE ReadReply(i)
        BY <3>2, <4>4 DEF ReadReply, At, WiredAt
      <4>5. CASE do_read(i) \/ WriteLater(i)
        BY <4>5 DEF do_read, WriteLater, session
      <4>6. CASE ReadEnds(i)
        BY <3>2, <4>6 DEF ReadEnds, Ready
      <4> QED
        BY <2>2, <4>1, <4>2, <4>3, <4>4, <4>5, <4>6 DEF Handler
    <3>5. page' = page \/ (st[i] = "read" /\ output_shell(i))
      BY <2>2 DEF Handler, do_resolve, do_connect, do_connect_socks, ReadReply, do_read, ReadEnds,
                  WriteLater, Ready, console
    <3> QED
      BY <3>3, <3>4, <3>5, ColumnsStay
  <2>3. ASSUME NEW i \in Slot, ProxyReplies(i) \/ Answer(i) \/ Hangup(i)
        PROVE  Columns'
    <3>1. UNCHANGED <<req, proc, console, st>>
      BY <2>3 DEF ProxyReplies, Answer, Hangup, session
    <3> QED
      BY <3>1, ColumnsSame
  <2>4. CASE UNCHANGED vars
    <3>1. UNCHANGED <<req, proc, console, st>>
      BY <2>4 DEF vars, session
    <3> QED
      BY <3>1, ColumnsSame
  <2> QED
    BY <1>2, <2>1, <2>2, <2>3, <2>4 DEF Next
<1> QED
  BY <1>1, <1>2

(* The page has a column for each slot the form fills in, in the form's    *)
(* order, and a column shows nothing but its own server, whatever form,    *)
(* proxy, servers and chunks, and however many slots the form has.         *)
THEOREM AlwaysOwnColumn == Spec => []OwnColumn
<1>1. Columns => OwnColumn
  <2> SUFFICES ASSUME Columns PROVE OwnColumn
    OBVIOUS
  <2>1. On \in SUBSET Slot /\ On = {i \in Slot : \A k \in 1 .. 3 : req.slot[i][k]}
    BY EnabledFilled DEF On
  <2>2. CASE proc = "start"
    BY <2>2 DEF Columns, OwnColumn, Ascending
  <2>3. CASE proc # "start"
    <3>1. header \in [1 .. Cardinality(On) -> On] /\ Ascending(header)
      BY <2>3 DEF Columns
    <3>2. /\ {header[k] : k \in 1 .. Cardinality(On)} = On
          /\ \A i \in On : Rank(On, i) \in 1 .. Cardinality(On) /\ header[Rank(On, i)] = i
      BY <2>1, <3>1, ListedByRank
    <3>3. DOMAIN header = 1 .. Cardinality(On)
      BY <3>1
    <3>4. {header[k] : k \in DOMAIN header} = {i \in Slot : \A k \in 1 .. 3 : req.slot[i][k]}
      BY <2>1, <3>2, <3>3
    <3>5. \A x \in page : x[1] \in DOMAIN header /\ header[x[1]] = x[2]
      <4> SUFFICES ASSUME NEW x \in page PROVE x[1] \in DOMAIN header /\ header[x[1]] = x[2]
        OBVIOUS
      <4>1. x[2] \in On /\ x[1] = Rank(On, x[2])
        BY ColumnRank DEF Columns
      <4> QED
        BY <3>2, <3>3, <4>1
    <3> QED
      BY <3>1, <3>4, <3>5 DEF OwnColumn
  <2> QED
    BY <2>2, <2>3
<1>2. IInv /\ Columns /\ [Next]_vars => Columns'
  BY ColumnsStep
<1> QED
  BY InitInv, NextKeeps, ColumnsInit, <1>1, <1>2, PTL DEF Spec

=============================================================================
