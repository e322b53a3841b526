------------------------- MODULE NcpDeliveryProofs -------------------------
(***************************************************************************)
(* The delivery of indications by NcpTransport: each of them exactly once  *)
(* for any number of callback threads, and in order when there is one, for *)
(* any sets of threads, any bounds and any faults.                         *)
(***************************************************************************)
EXTENDS NcpTransportProofs, FiniteSetTheorems

(***************************************************************************)
(* Frames that move between sites.  F gives every site of S what it holds; a frame x is held     *)
(* exactly once when one entry of one site is x.                           *)
(***************************************************************************)
At(S, F, x, s, i) ==
  /\ s \in S /\ i \in DOMAIN F[s] /\ F[s][i] = x
  /\ \A r \in S : \A j \in DOMAIN F[r] : F[r][j] = x => r = s /\ j = i

Exactly(S, F, x) == \E s \in S : \E i \in DOMAIN F[s] : At(S, F, x, s, i)

(* What a site holds after the first entry of a moved to the end of b.     *)
Moved(S, F, G, a, b) ==
  /\ F[a] # <<>> /\ G[a] = Tail(F[a]) /\ G[b] = Append(F[b], Head(F[a]))
  /\ \A s \in S \ {a, b} : G[s] = F[s]

(* ... after everything a holds went to b, which held nothing.             *)
MovedAll(S, F, G, a, b) ==
  /\ G[a] = <<>> /\ F[b] = <<>> /\ G[b] = F[a]
  /\ \A s \in S \ {a, b} : G[s] = F[s]

(* ... after y was added to the end of a.                                  *)
Added(S, F, G, a, y) ==
  /\ G[a] = Append(F[a], y)
  /\ \A s \in S \ {a} : G[s] = F[s]

(* ... after the first entry of a was taken away.                          *)
Dropped(S, F, G, a) ==
  /\ F[a] # <<>> /\ G[a] = Tail(F[a])
  /\ \A s \in S \ {a} : G[s] = F[s]

(* A frame that is not the first one of a site is found one place further  *)
(* up when the first one has been taken.                                   *)
LEMMA MovedUp ==
  ASSUME NEW T, NEW q \in Seq(T), q # <<>>, NEW i \in DOMAIN q, i # 1
  PROVE  i - 1 \in DOMAIN Tail(q) /\ Tail(q)[i - 1] = q[i]
OBVIOUS

(* Appending to a FIFO adds its last entry and leaves the others alone.    *)
LEMMA Appended ==
  ASSUME NEW T, NEW q \in Seq(T), NEW y \in T
  PROVE  /\ Len(q) \in Nat
         /\ DOMAIN Append(q, y) = 1..(Len(q) + 1)
         /\ Len(q) + 1 \in DOMAIN Append(q, y) /\ Append(q, y)[Len(q) + 1] = y
         /\ \A i \in DOMAIN q : i \in DOMAIN Append(q, y) /\ Append(q, y)[i] = q[i]
         /\ \A i \in DOMAIN Append(q, y) : \/ i \in DOMAIN q /\ Append(q, y)[i] = q[i]
                                           \/ i = Len(q) + 1
OBVIOUS

(* A frame stays at exactly one place when the first entry of a site moves *)
(* to the end of another one.                                              *)
LEMMA MoveKeeps ==
  ASSUME NEW S, NEW T, NEW F \in [S -> Seq(T)], NEW G \in [S -> Seq(T)],
         NEW a \in S, NEW b \in S, a # b, Moved(S, F, G, a, b),
         NEW x \in T, Exactly(S, F, x)
  PROVE  Exactly(S, G, x)
<1>0. /\ F[a] \in Seq(T) /\ F[a] # <<>> /\ F[b] \in Seq(T)
      /\ G[a] = Tail(F[a]) /\ G[b] = Append(F[b], Head(F[a]))
      /\ \A s \in S \ {a, b} : G[s] = F[s]
  BY DEF Moved
<1>1. /\ Head(F[a]) \in T /\ Head(F[a]) = F[a][1] /\ 1 \in DOMAIN F[a]
      /\ \A i \in DOMAIN G[a] : i + 1 \in DOMAIN F[a] /\ G[a][i] = F[a][i + 1] /\ i \in Nat /\ i >= 1
  <2>1. \A i \in DOMAIN Tail(F[a]) : i \in Nat /\ i >= 1
    BY <1>0
  <2> QED BY <1>0, <2>1, Shifted
<1>2. \A i \in DOMAIN F[a] : i # 1 => i - 1 \in DOMAIN G[a] /\ G[a][i - 1] = F[a][i] /\ i \in Nat
  <2>1. \A i \in DOMAIN F[a] : i \in Nat
    BY <1>0
  <2> QED BY <1>0, <2>1, MovedUp
<1>3. /\ Len(F[b]) \in Nat /\ DOMAIN F[b] = 1..Len(F[b])
      /\ Len(F[b]) + 1 \in DOMAIN G[b] /\ G[b][Len(F[b]) + 1] = F[a][1]
      /\ \A i \in DOMAIN F[b] : i \in DOMAIN G[b] /\ G[b][i] = F[b][i]
      /\ \A i \in DOMAIN G[b] : \/ i \in DOMAIN F[b] /\ G[b][i] = F[b][i]
                                \/ i = Len(F[b]) + 1 /\ G[b][i] = F[a][1]
  <2>1. Len(F[b]) \in Nat /\ DOMAIN F[b] = 1..Len(F[b])
    BY <1>0
  <2>2. \A i \in DOMAIN G[b] : (i \in DOMAIN F[b] /\ G[b][i] = F[b][i]) \/ i = Len(F[b]) + 1
    BY <1>0, <1>1, Appended, SMTT(40)
  <2>3. /\ Len(F[b]) + 1 \in DOMAIN G[b] /\ G[b][Len(F[b]) + 1] = F[a][1]
        /\ \A i \in DOMAIN F[b] : i \in DOMAIN G[b] /\ G[b][i] = F[b][i]
    BY <1>0, <1>1, Appended
  <2> QED BY <2>1, <2>2, <2>3
<1>4. PICK s \in S : \E i \in DOMAIN F[s] : At(S, F, x, s, i)
  BY DEF Exactly
<1>4a. PICK i \in DOMAIN F[s] : At(S, F, x, s, i)
  BY <1>4
<1>5. /\ F[s][i] = x
      /\ \A r \in S : \A j \in DOMAIN F[r] : F[r][j] = x => r = s /\ j = i
  BY <1>4a DEF At
<1>6. CASE F[a][1] = x
  <2>1. s = a /\ i = 1
    BY <1>1, <1>5, <1>6
  <2>2. ASSUME NEW r \in S, NEW j \in DOMAIN G[r], G[r][j] = x PROVE r = b /\ j = Len(F[b]) + 1
    <3>1. CASE r = a
      BY <1>1, <1>5, <2>1, <2>2, <3>1
    <3>2. CASE r = b
      BY <1>3, <1>5, <2>1, <2>2, <3>2
    <3>3. CASE r \in S \ {a, b}
      BY <1>0, <1>5, <2>1, <2>2, <3>3
    <3> QED BY <3>1, <3>2, <3>3
  <2>3. At(S, G, x, b, Len(F[b]) + 1)
    BY <1>3, <1>6, <2>2 DEF At
  <2> QED BY <1>3, <2>3 DEF Exactly
<1>7. CASE F[a][1] # x
  <2> DEFINE k == IF s = a THEN i - 1 ELSE i
  <2>1. k \in DOMAIN G[s] /\ G[s][k] = x
    <3>1. CASE s = a
      BY <1>2, <1>5, <1>7, <3>1
    <3>2. CASE s = b
      BY <1>3, <1>5, <3>2
    <3>3. CASE s \in S \ {a, b}
      BY <1>0, <1>5, <3>3
    <3> QED BY <3>1, <3>2, <3>3
  <2>2. ASSUME NEW r \in S, NEW j \in DOMAIN G[r], G[r][j] = x PROVE r = s /\ j = k
    <3>1. CASE r = a
      BY <1>1, <1>5, <2>2, <3>1
    <3>2. CASE r = b
      BY <1>3, <1>5, <1>7, <2>2, <3>2
    <3>3. CASE r \in S \ {a, b}
      BY <1>0, <1>5, <2>2, <3>3
    <3> QED BY <3>1, <3>2, <3>3
  <2> HIDE DEF k
  <2>3. At(S, G, x, s, k)
    BY <2>1, <2>2 DEF At
  <2> QED BY <2>1, <2>3 DEF Exactly
<1> QED BY <1>6, <1>7

(* ... when everything a site holds moves to an empty one.                 *)
LEMMA MoveAllKeeps ==
  ASSUME NEW S, NEW T, NEW F \in [S -> Seq(T)], NEW G \in [S -> Seq(T)],
         NEW a \in S, NEW b \in S, a # b, MovedAll(S, F, G, a, b),
         NEW x \in T, Exactly(S, F, x)
  PROVE  Exactly(S, G, x)
<1>0. /\ DOMAIN G[a] = {} /\ DOMAIN F[b] = {} /\ G[b] = F[a]
      /\ \A s \in S \ {a, b} : G[s] = F[s]
  BY DEF MovedAll
<1>1. PICK s \in S : \E i \in DOMAIN F[s] : At(S, F, x, s, i)
  BY DEF Exactly
<1>1a. PICK i \in DOMAIN F[s] : At(S, F, x, s, i)
  BY <1>1
<1>2. /\ F[s][i] = x /\ s # b
      /\ \A r \in S : \A j \in DOMAIN F[r] : F[r][j] = x => r = s /\ j = i
  BY <1>0, <1>1a DEF At
<1> DEFINE q == IF s = a THEN b ELSE s
<1>3. q \in S /\ i \in DOMAIN G[q] /\ G[q][i] = x
  BY <1>0, <1>2
<1>4. ASSUME NEW r \in S, NEW j \in DOMAIN G[r], G[r][j] = x PROVE r = q /\ j = i
  <2>1. CASE r = a
    BY <1>0, <2>1
  <2>2. CASE r = b
    BY <1>0, <1>2, <1>4, <2>2
  <2>3. CASE r \in S \ {a, b}
    BY <1>0, <1>2, <1>4, <2>3
  <2> QED BY <2>1, <2>2, <2>3
<1> HIDE DEF q
<1>5. At(S, G, x, q, i)
  BY <1>3, <1>4 DEF At
<1> QED BY <1>3, <1>5 DEF Exactly

(* ... when another frame is added.                                        *)
LEMMA AddKeeps ==
  ASSUME NEW S, NEW T, NEW F \in [S -> Seq(T)], NEW G \in [S -> Seq(T)],
         NEW a \in S, NEW y \in T, Added(S, F, G, a, y),
         NEW x \in T, x # y, Exactly(S, F, x)
  PROVE  Exactly(S, G, x)
<1>0. /\ F[a] \in Seq(T) /\ G[a] = Append(F[a], y)
      /\ \A s \in S \ {a} : G[s] = F[s]
  BY DEF Added
<1>1. /\ \A i \in DOMAIN F[a] : i \in DOMAIN G[a] /\ G[a][i] = F[a][i]
      /\ \A i \in DOMAIN G[a] : (i \in DOMAIN F[a] /\ G[a][i] = F[a][i]) \/ G[a][i] = y
  BY <1>0, Appended
<1>2. PICK s \in S : \E i \in DOMAIN F[s] : At(S, F, x, s, i)
  BY DEF Exactly
<1>2a. PICK i \in DOMAIN F[s] : At(S, F, x, s, i)
  BY <1>2
<1>3. /\ F[s][i] = x
      /\ \A r \in S : \A j \in DOMAIN F[r] : F[r][j] = x => r = s /\ j = i
  BY <1>2a DEF At
<1>4. i \in DOMAIN G[s] /\ G[s][i] = x
  BY <1>0, <1>1, <1>3
<1>5. ASSUME NEW r \in S, NEW j \in DOMAIN G[r], G[r][j] = x PROVE r = s /\ j = i
  <2>1. CASE r = a
    BY <1>1, <1>3, <1>5, <2>1
  <2>2. CASE r # a
    BY <1>0, <1>3, <1>5, <2>2
  <2> QED BY <2>1, <2>2
<1>6. At(S, G, x, s, i)
  BY <1>4, <1>5 DEF At
<1> QED BY <1>4, <1>6 DEF Exactly

(* A frame that nobody held is at exactly one place when it is added.      *)
LEMMA AddNew ==
  ASSUME NEW S, NEW T, NEW F \in [S -> Seq(T)], NEW G \in [S -> Seq(T)],
         NEW a \in S, NEW y \in T, Added(S, F, G, a, y),
         \A s \in S : \A i \in DOMAIN F[s] : F[s][i] # y
  PROVE  Exactly(S, G, y)
<1>0. /\ F[a] \in Seq(T) /\ G[a] = Append(F[a], y)
      /\ \A s \in S \ {a} : G[s] = F[s]
  BY DEF Added
<1>1. /\ Len(F[a]) + 1 \in DOMAIN G[a] /\ G[a][Len(F[a]) + 1] = y
  BY <1>0, Appended
<1>2. \A i \in DOMAIN G[a] : (i \in DOMAIN F[a] /\ G[a][i] = F[a][i]) \/ i = Len(F[a]) + 1
  BY <1>0, Appended
<1>3. ASSUME NEW r \in S, NEW j \in DOMAIN G[r], G[r][j] = y PROVE r = a /\ j = Len(F[a]) + 1
  BY <1>0, <1>2, <1>3
<1>4. At(S, G, y, a, Len(F[a]) + 1)
  BY <1>1, <1>3 DEF At
<1> QED BY <1>1, <1>4 DEF Exactly

(* A frame stays at exactly one place when another one is taken away.      *)
LEMMA DropKeeps ==
  ASSUME NEW S, NEW T, NEW F \in [S -> Seq(T)], NEW G \in [S -> Seq(T)],
         NEW a \in S, Dropped(S, F, G, a),
         NEW x \in T, x # Head(F[a]), Exactly(S, F, x)
  PROVE  Exactly(S, G, x)
<1>0. /\ F[a] \in Seq(T) /\ F[a] # <<>> /\ G[a] = Tail(F[a])
      /\ \A s \in S \ {a} : G[s] = F[s]
  BY DEF Dropped
<1>1. /\ Head(F[a]) = F[a][1]
      /\ \A i \in DOMAIN G[a] : i + 1 \in DOMAIN F[a] /\ G[a][i] = F[a][i + 1] /\ i \in Nat
  <2>1. \A i \in DOMAIN Tail(F[a]) : i \in Nat
    BY <1>0
  <2> QED BY <1>0, <2>1, Shifted
<1>2. \A i \in DOMAIN F[a] : i # 1 => i - 1 \in DOMAIN G[a] /\ G[a][i - 1] = F[a][i]
  BY <1>0, MovedUp
<1>3. PICK s \in S : \E i \in DOMAIN F[s] : At(S, F, x, s, i)
  BY DEF Exactly
<1>3a. PICK i \in DOMAIN F[s] : At(S, F, x, s, i)
  BY <1>3
<1>4. /\ F[s][i] = x
      /\ \A r \in S : \A j \in DOMAIN F[r] : F[r][j] = x => r = s /\ j = i
  BY <1>3a DEF At
<1> DEFINE k == IF s = a THEN i - 1 ELSE i
<1>5. k \in DOMAIN G[s] /\ G[s][k] = x
  <2>1. CASE s = a
    BY <1>1, <1>2, <1>4, <2>1
  <2>2. CASE s # a
    BY <1>0, <1>4, <2>2
  <2> QED BY <2>1, <2>2
<1>6. ASSUME NEW r \in S, NEW j \in DOMAIN G[r], G[r][j] = x PROVE r = s /\ j = k
  <2>1. CASE r = a
    BY <1>1, <1>4, <1>6, <2>1
  <2>2. CASE r # a
    BY <1>0, <1>4, <1>6, <2>2
  <2> QED BY <2>1, <2>2
<1> HIDE DEF k
<1>7. At(S, G, x, s, k)
  BY <1>5, <1>6 DEF At
<1> QED BY <1>5, <1>7 DEF Exactly

-----------------------------------------------------------------------------
(* What the sites of the transport hold.                                   *)
Link    == <<"link", NoThread>>
Hand    == <<"hand", NoThread>>
Pipe    == <<"pipe", NoThread>>
Done    == <<"handled", NoThread>>
Batch(t) == <<"batch", t>>

(* The sites are different, and there are no others.                       *)
LEMMA SiteNames ==
  /\ Link \in Sites /\ Hand \in Sites /\ Pipe \in Sites /\ Done \in Sites
  /\ Link # Hand /\ Link # Pipe /\ Link # Done /\ Hand # Pipe /\ Hand # Done /\ Pipe # Done
  /\ \A t \in CbThreads : Batch(t) \in Sites /\ Batch(t) \notin {Link, Hand, Pipe, Done}
  /\ \A t, u \in CbThreads : Batch(t) = Batch(u) => t = u
  /\ \A s \in Sites : s \in {Link, Hand, Pipe, Done} \/ \E t \in CbThreads : s = Batch(t)
BY DEF Sites, Link, Hand, Pipe, Done, Batch

(* Where the variables are among the sites.                                *)
HeldHere ==
  /\ Held[Link] = fromNcp /\ Held[Hand] = InHand /\ Held[Pipe] = callbackPipe
  /\ Held[Done] = handled
  /\ \A t \in CbThreads : Held[Batch(t)] = batch[t]

LEMMA HeldAt == HeldHere
<1>1. /\ Link[1] = "link" /\ Hand[1] = "hand" /\ Pipe[1] = "pipe" /\ Done[1] = "handled"
      /\ \A t \in CbThreads : Batch(t)[1] = "batch" /\ Batch(t)[2] = t
  BY DEF Link, Hand, Pipe, Done, Batch
<1> QED BY <1>1, SiteNames DEF Held, HeldHere

HeldTyped == Held \in [Sites -> Seq(Frames)]

(* What a site holds is a sequence of frames.                              *)
LEMMA HeldType == TypeOK => HeldTyped
<1> SUFFICES ASSUME TypeOK PROVE Held \in [Sites -> Seq(Frames)]
  BY DEF HeldTyped
<1>1. InHand \in Seq(Frames)
  <2>1. responseBuffer \in Frames
    BY DEF TypeOK
  <2> QED BY <2>1 DEF InHand
<1>2. /\ fromNcp \in Seq(Frames) /\ callbackPipe \in Seq(Frames) /\ handled \in Seq(Frames)
      /\ \A t \in CbThreads : batch[t] \in Seq(Frames)
  BY DEF TypeOK
<1>3. \A s \in Sites : Held[s] \in Seq(Frames)
  BY <1>1, <1>2, HeldAt, SiteNames, Zenon DEF HeldHere
<1>4. Held = [s \in Sites |-> Held[s]]
  BY DEF Held
<1> QED BY <1>3, <1>4

(* The count of ExactlyOnce is one when the frame is at exactly one place. *)
LEMMA OnePlace ==
  ASSUME NEW x
  PROVE  Exactly(Sites, Held, x) => Cardinality(Places(x)) = 1
<1> SUFFICES ASSUME Exactly(Sites, Held, x) PROVE Cardinality(Places(x)) = 1
  OBVIOUS
<1>1. PICK s \in Sites : \E i \in DOMAIN Held[s] : At(Sites, Held, x, s, i)
  BY DEF Exactly
<1>2. PICK i \in DOMAIN Held[s] : At(Sites, Held, x, s, i)
  BY <1>1
<1>3. Places(x) = {<<s, i>>}
  <2>1. <<s, i>> \in Places(x)
    BY <1>2 DEF At, Places
  <2>2. ASSUME NEW p \in Places(x) PROVE p = <<s, i>>
    <3>1. PICK r \in Sites : p \in {<<r, j>> : j \in {j \in DOMAIN Held[r] : Held[r][j] = x}}
      BY DEF Places
    <3> QED BY <1>2, <3>1 DEF At
  <2> QED BY <2>1, <2>2
<1> QED BY <1>3, FS_Singleton

-----------------------------------------------------------------------------
(* Of k indications given out, every one is at exactly one place, and      *)
(* nothing else that the sites hold is an indication.                      *)
Numbered(F, k) ==
  \A s \in Sites : \A i \in DOMAIN F[s] : F[s][i].kind = "indication" => F[s][i].id \in 1..k

Delivered(F, k) ==
  /\ F \in [Sites -> Seq(Frames)]
  /\ Numbered(F, k)
  /\ \A n \in 1..k : Exactly(Sites, F, Indication(n))

(* What the frame of an indication carries.                                *)
LEMMA IndicationFields ==
  \A n \in Nat : Indication(n).kind = "indication" /\ Indication(n).id = n
BY DEF Indication, Frame

(* The delivery invariant is kept when a frame moves on,                   *)
LEMMA DeliveredMove ==
  ASSUME NEW F, NEW k \in Nat, Delivered(F, k), NEW G \in [Sites -> Seq(Frames)],
         NEW a \in Sites, NEW b \in Sites, a # b, Moved(Sites, F, G, a, b)
  PROVE  Delivered(G, k)
<1>0. /\ F \in [Sites -> Seq(Frames)] /\ F[a] \in Seq(Frames) /\ F[b] \in Seq(Frames)
      /\ F[a] # <<>> /\ G[a] = Tail(F[a]) /\ G[b] = Append(F[b], Head(F[a]))
      /\ \A s \in Sites \ {a, b} : G[s] = F[s]
  BY DEF Delivered, Moved
<1>1. /\ Head(F[a]) \in Frames /\ Head(F[a]) = F[a][1] /\ 1 \in DOMAIN F[a]
      /\ \A i \in DOMAIN G[a] : i + 1 \in DOMAIN F[a] /\ G[a][i] = F[a][i + 1]
  BY <1>0, Shifted
<1>2. \A i \in DOMAIN G[b] : \/ i \in DOMAIN F[b] /\ G[b][i] = F[b][i]
                             \/ G[b][i] = F[a][1]
  BY <1>0, <1>1, Appended, SMTT(40)
<1>3. Numbered(G, k)
  <2> SUFFICES ASSUME NEW s \in Sites, NEW i \in DOMAIN G[s], G[s][i].kind = "indication"
               PROVE  G[s][i].id \in 1..k
    BY DEF Numbered
  <2>0. Numbered(F, k)
    BY DEF Delivered
  <2>1. CASE s = a
    BY <1>1, <2>0, <2>1 DEF Numbered
  <2>2. CASE s = b
    BY <1>1, <1>2, <2>0, <2>2 DEF Numbered
  <2>3. CASE s \in Sites \ {a, b}
    BY <1>0, <2>0, <2>3 DEF Numbered
  <2> QED BY <2>1, <2>2, <2>3
<1>4. \A n \in 1..k : Exactly(Sites, G, Indication(n))
  <2>1. \A n \in 1..k : Indication(n) \in Frames /\ Exactly(Sites, F, Indication(n))
    BY FrameTypes DEF Delivered
  <2> QED BY <1>0, <2>1, MoveKeeps
<1> QED BY <1>3, <1>4 DEF Delivered

(* when a callback thread takes over the pipe,                             *)
LEMMA DeliveredMoveAll ==
  ASSUME NEW F, NEW k \in Nat, Delivered(F, k), NEW G \in [Sites -> Seq(Frames)],
         NEW a \in Sites, NEW b \in Sites, a # b, MovedAll(Sites, F, G, a, b)
  PROVE  Delivered(G, k)
<1>0. /\ F \in [Sites -> Seq(Frames)]
      /\ DOMAIN G[a] = {} /\ G[b] = F[a]
      /\ \A s \in Sites \ {a, b} : G[s] = F[s]
  BY DEF Delivered, MovedAll
<1>3. Numbered(G, k)
  BY <1>0 DEF Delivered, Numbered
<1>4. \A n \in 1..k : Exactly(Sites, G, Indication(n))
  <2>1. \A n \in 1..k : Indication(n) \in Frames /\ Exactly(Sites, F, Indication(n))
    BY FrameTypes DEF Delivered
  <2> QED BY <1>0, <2>1, MoveAllKeeps
<1> QED BY <1>3, <1>4 DEF Delivered

(* when the NCP sends anything but an indication,                          *)
LEMMA DeliveredAdd ==
  ASSUME NEW F, NEW k \in Nat, Delivered(F, k), NEW G \in [Sites -> Seq(Frames)],
         NEW a \in Sites, NEW y \in Frames, y.kind # "indication", Added(Sites, F, G, a, y)
  PROVE  Delivered(G, k)
<1>0. /\ F \in [Sites -> Seq(Frames)] /\ F[a] \in Seq(Frames) /\ G[a] = Append(F[a], y)
      /\ \A s \in Sites \ {a} : G[s] = F[s]
  BY DEF Delivered, Added
<1>1. \A i \in DOMAIN G[a] : (i \in DOMAIN F[a] /\ G[a][i] = F[a][i]) \/ G[a][i] = y
  BY <1>0, Appended
<1>2. Numbered(G, k)
  BY <1>0, <1>1 DEF Delivered, Numbered
<1>3. \A n \in 1..k : Exactly(Sites, G, Indication(n))
  <2>1. \A n \in 1..k : /\ Indication(n) \in Frames /\ Indication(n) # y
                        /\ Exactly(Sites, F, Indication(n))
    BY FrameTypes, IndicationFields DEF Delivered
  <2> QED BY <1>0, <2>1, AddKeeps
<1> QED BY <1>2, <1>3 DEF Delivered

(* when it emits the next indication,                                      *)
LEMMA DeliveredNew ==
  ASSUME NEW F, NEW k \in Nat, Delivered(F, k), NEW G \in [Sites -> Seq(Frames)],
         NEW a \in Sites, Added(Sites, F, G, a, Indication(k + 1))
  PROVE  Delivered(G, k + 1)
<1> DEFINE y == Indication(k + 1)
<1>y. y \in Frames /\ y.kind = "indication" /\ y.id = k + 1
  BY FrameTypes, IndicationFields
<1>0. /\ F \in [Sites -> Seq(Frames)] /\ F[a] \in Seq(Frames) /\ G[a] = Append(F[a], y)
      /\ \A s \in Sites \ {a} : G[s] = F[s]
  BY DEF Delivered, Added
<1> HIDE DEF y
<1>1. \A i \in DOMAIN G[a] : (i \in DOMAIN F[a] /\ G[a][i] = F[a][i]) \/ G[a][i] = y
  <2>1. \A i \in DOMAIN G[a] : (i \in DOMAIN F[a] /\ G[a][i] = F[a][i]) \/ i = Len(F[a]) + 1
    BY <1>y, <1>0, Appended
  <2>2. G[a][Len(F[a]) + 1] = y
    BY <1>y, <1>0, Appended
  <2> QED BY <2>1, <2>2
<1>2. Numbered(G, k + 1)
  <2> SUFFICES ASSUME NEW s \in Sites, NEW i \in DOMAIN G[s], G[s][i].kind = "indication"
               PROVE  G[s][i].id \in 1..(k + 1)
    BY DEF Numbered
  <2>1. ASSUME G[s][i] # y PROVE i \in DOMAIN F[s] /\ G[s][i] = F[s][i]
    BY <1>0, <1>1, <2>1
  <2>2. CASE G[s][i] # y
    <3>1. G[s][i].id \in 1..k
      BY <2>1, <2>2 DEF Delivered, Numbered
    <3> QED BY <3>1
  <2>3. CASE G[s][i] = y
    BY <1>y, <2>3
  <2> QED BY <2>2, <2>3
<1>3. \A s \in Sites : \A i \in DOMAIN F[s] : F[s][i] # y
  BY <1>y DEF Delivered, Numbered
<1>4. ASSUME NEW n \in 1..(k + 1) PROVE Exactly(Sites, G, Indication(n))
  <2>1. CASE n = k + 1
    <3>1. Added(Sites, F, G, a, y)
      BY DEF y
    <3>2. Exactly(Sites, G, y)
      BY <1>y, <1>0, <1>3, <3>1, AddNew
    <3> QED BY <2>1, <3>2 DEF y
  <2>2. CASE n \in 1..k
    <3>1. Indication(n) \in Frames /\ Indication(n).id = n
      BY FrameTypes, IndicationFields
    <3>2. Indication(n) # y
      BY <1>y, <2>2, <3>1
    <3>3. Exactly(Sites, F, Indication(n))
      BY <2>2 DEF Delivered
    <3>4. Added(Sites, F, G, a, y)
      BY DEF y
    <3> QED BY <1>y, <1>0, <3>1, <3>2, <3>3, <3>4, AddKeeps
  <2> QED BY <2>1, <2>2
<1> QED BY <1>2, <1>4 DEF Delivered

(* and when the poll thread takes anything but an indication.              *)
LEMMA DeliveredDrop ==
  ASSUME NEW F, NEW k \in Nat, Delivered(F, k), NEW G \in [Sites -> Seq(Frames)],
         NEW a \in Sites, Dropped(Sites, F, G, a), Head(F[a]).kind # "indication"
  PROVE  Delivered(G, k)
<1>0. /\ F \in [Sites -> Seq(Frames)] /\ F[a] \in Seq(Frames) /\ F[a] # <<>>
      /\ G[a] = Tail(F[a]) /\ \A s \in Sites \ {a} : G[s] = F[s]
  BY DEF Delivered, Dropped
<1>1. \A i \in DOMAIN G[a] : i + 1 \in DOMAIN F[a] /\ G[a][i] = F[a][i + 1]
  BY <1>0, Shifted
<1>2. Numbered(G, k)
  <2> SUFFICES ASSUME NEW s \in Sites, NEW i \in DOMAIN G[s], G[s][i].kind = "indication"
               PROVE  G[s][i].id \in 1..k
    BY DEF Numbered
  <2>1. CASE s = a
    BY <1>1, <2>1 DEF Delivered, Numbered
  <2>2. CASE s # a
    BY <1>0, <2>2 DEF Delivered, Numbered
  <2> QED BY <2>1, <2>2
<1>3. \A n \in 1..k : Exactly(Sites, G, Indication(n))
  <2>1. \A n \in 1..k : /\ Indication(n) \in Frames /\ Indication(n) # Head(F[a])
                        /\ Exactly(Sites, F, Indication(n))
    BY FrameTypes, IndicationFields DEF Delivered
  <2> QED BY <1>0, <2>1, DropKeeps
<1> QED BY <1>2, <1>3 DEF Delivered

(* A batch is taken over only by a thread that has none left.              *)
BatchesUsedUp == \A t \in CbThreads : pc[t] \in {"idle", "read"} => batch[t] = <<>>

(* The inductive invariant of ExactlyOnce.                                 *)
OnceInv == TypeOK /\ BatchesUsedUp /\ Delivered(Held, indications)

(* Before a step and after it.                                             *)
LEMMA HeldStep ==
  ASSUME TypeOK, TypeOK'
  PROVE  /\ Held \in [Sites -> Seq(Frames)] /\ HeldHere
         /\ Held' \in [Sites -> Seq(Frames)] /\ HeldHere'
<1>1. HeldTyped /\ HeldHere
  BY HeldType, HeldAt
<1>2. TypeOK' => HeldTyped'
  BY HeldType, PTL
<1>3. HeldHere'
  BY HeldAt, PTL
<1> QED BY <1>1, <1>2, <1>3 DEF HeldTyped

(* What the threads do to the queues: all but two of their steps leave     *)
(* them alone.                                                             *)
LEMMA ThreadQueues ==
  ASSUME NEW t \in Threads, StartCall(t) \/ ThreadStep(t)
  PROVE  UNCHANGED queueVars \/ ReadPipe(t) \/ HandleIndication(t)
BY DEF StartCall, ThreadStep, AcquireCommandMutex, FormatCommand, CpcTx,
      WaitForResponse, WaitTimeout, LateRead, CopyResponse, FetchApiParams,
      ReleaseCommandMutex, PollCallbackCommand, BatchDone

(* Such a step moves no indication.                                        *)
LEMMA QuietThreadStep ==
  ASSUME NEW t \in Threads, StartCall(t) \/ ThreadStep(t), UNCHANGED queueVars
  PROVE  UNCHANGED <<fromNcp, InHand, callbackPipe, handled, batch, indications>>
BY DEF StartCall, ThreadStep, AcquireCommandMutex, FormatCommand, CpcTx,
      WaitForResponse, WaitTimeout, LateRead, CopyResponse, FetchApiParams,
      ReleaseCommandMutex, PollCallbackCommand, ReadPipe, HandleIndication, BatchDone,
      queueVars, linkVars, pollerVars, InHand, Dispatching

(* A batch is used up before the callback thread looks at the pipe again.  *)
LEMMA UsedUpStep ==
  ASSUME TypeOK, BatchesUsedUp, [Next]_vars
  PROVE  BatchesUsedUp'
<1>1. ASSUME NEW t \in Threads, StartCall(t) \/ ThreadStep(t), UNCHANGED queueVars
      PROVE  BatchesUsedUp'
  BY <1>1, TransportAssumption
  DEF StartCall, ThreadStep, AcquireCommandMutex, FormatCommand, CpcTx,
    WaitForResponse, WaitTimeout, LateRead, CopyResponse, FetchApiParams,
    ReleaseCommandMutex, PollCallbackCommand, ReadPipe, HandleIndication, BatchDone,
    queueVars, threadVars, Step, Goto, EnterCall, BatchesUsedUp, TypeOK, Threads
<1>2. ASSUME NEW t \in Threads, ReadPipe(t) PROVE BatchesUsedUp'
  BY <1>2 DEF ReadPipe, Step, Goto, BatchesUsedUp, TypeOK, Threads
<1>3. ASSUME NEW t \in Threads, HandleIndication(t) PROVE BatchesUsedUp'
  BY <1>3 DEF HandleIndication, EnterCall, Goto, BatchesUsedUp, TypeOK, Threads
<1>4. ASSUME PollerStep \/ Environment \/ UNCHANGED vars PROVE BatchesUsedUp'
  BY <1>4 DEF PollerStep, PollNcpMsg, CpcRx, HandleResponse, AppendCallbackCommand,
              UnknownFrame, Environment, NcpAnswer, NcpIndicate, NcpStray, ResetCrash,
              vars, threadVars, queueVars, BatchesUsedUp
<1> QED BY <1>1, <1>2, <1>3, <1>4, ThreadQueues DEF Next, Stopped

(* Nothing is held initially.                                              *)
LEMMA OnceInit == Init => OnceInv
<1> SUFFICES ASSUME Init PROVE OnceInv
  OBVIOUS
<1>1. TypeOK /\ indications = 0 /\ BatchesUsedUp
  BY TypeInit DEF Init, BatchesUsedUp
<1>2. Held \in [Sites -> Seq(Frames)] /\ HeldHere
  BY <1>1, HeldType, HeldAt DEF HeldTyped
<1>3. /\ fromNcp = <<>> /\ InHand = <<>> /\ callbackPipe = <<>> /\ handled = <<>>
      /\ \A t \in CbThreads : batch[t] = <<>>
  BY DEF Init, InHand, Dispatching
<1>4. \A s \in Sites : Held[s] = <<>>
  BY <1>2, <1>3, SiteNames, Zenon DEF HeldHere
<1>5. Numbered(Held, 0)
  BY <1>4 DEF Numbered
<1>6. 1..0 = {}
  OBVIOUS
<1>7. Delivered(Held, 0)
  BY <1>2, <1>5, <1>6 DEF Delivered
<1> QED BY <1>1, <1>7 DEF OnceInv

(* Every step moves at most one frame, or a whole pipe, to another site.   *)
LEMMA OnceStep == OnceInv /\ [Next]_vars => OnceInv'
<1> SUFFICES ASSUME OnceInv, [Next]_vars PROVE OnceInv'
  OBVIOUS
<1>0. /\ TypeOK /\ TypeOK' /\ BatchesUsedUp /\ Delivered(Held, indications)
      /\ Held \in [Sites -> Seq(Frames)] /\ HeldHere
      /\ Held' \in [Sites -> Seq(Frames)] /\ HeldHere'
      /\ indications \in Nat
  <2>1. TypeOK /\ TypeOK' /\ BatchesUsedUp /\ Delivered(Held, indications)
    BY TypeStep DEF OnceInv
  <2> QED BY <2>1, HeldStep DEF TypeOK
<1>u. BatchesUsedUp'
  BY <1>0, UsedUpStep
(* A step that moves nothing.                                              *)
<1>a. ASSUME UNCHANGED <<fromNcp, InHand, callbackPipe, handled, batch, indications>>
      PROVE  Delivered(Held', indications')
  <2>1. Held' = Held
    BY <1>a DEF Held
  <2> QED BY <1>0, <1>a, <2>1
<1>b. ASSUME NEW t \in Threads, StartCall(t) \/ ThreadStep(t), UNCHANGED queueVars
      PROVE  Delivered(Held', indications')
  BY <1>a, <1>b, QuietThreadStep
<1>1. ASSUME NEW t \in Threads, ReadPipe(t) PROVE Delivered(Held', indications')
  <2>1. /\ t \in CbThreads /\ pc[t] = "read" /\ pc' = [pc EXCEPT ![t] = "handle"]
        /\ batch' = [batch EXCEPT ![t] = callbackPipe] /\ callbackPipe' = <<>>
        /\ UNCHANGED <<fromNcp, InHand, handled, indications>>
    BY <1>1 DEF ReadPipe, Step, Goto, linkVars, pollerVars, InHand, Dispatching
  <2>2. batch \in [CbThreads -> Seq(Frames)] /\ pc \in [Threads -> Labels] /\ batch[t] = <<>>
    BY <1>0, <2>1 DEF TypeOK, BatchesUsedUp
  <2>4. Pipe \in Sites /\ Batch(t) \in Sites /\ Pipe # Batch(t)
    BY <2>1, SiteNames
  <2>5. \A s \in Sites \ {Pipe, Batch(t)} : Held'[s] = Held[s]
    <3>1. Held'[Link] = Held[Link] /\ Held'[Hand] = Held[Hand] /\ Held'[Done] = Held[Done]
      BY <1>0, <2>1 DEF HeldHere
    <3>2. \A u \in CbThreads : u # t => Held'[Batch(u)] = Held[Batch(u)]
      BY <1>0, <2>1, <2>2 DEF HeldHere
    <3> QED BY <3>1, <3>2, SiteNames, Zenon
  <2>6. MovedAll(Sites, Held, Held', Pipe, Batch(t))
    BY <1>0, <2>1, <2>2, <2>5 DEF HeldHere, MovedAll
  <2>7. Delivered(Held', indications)
    BY <1>0, <2>4, <2>6, DeliveredMoveAll
  <2> QED BY <2>1, <2>7
<1>2. ASSUME NEW t \in Threads, HandleIndication(t) PROVE Delivered(Held', indications')
  <2>1. /\ t \in CbThreads /\ pc[t] = "handle" /\ batch[t] # <<>>
        /\ \/ pc' = pc
           \/ pc' = [pc EXCEPT ![t] = "acquire"]
        /\ batch' = [batch EXCEPT ![t] = Tail(batch[t])]
        /\ handled' = Append(handled, Head(batch[t]))
        /\ UNCHANGED <<fromNcp, InHand, callbackPipe, indications>>
    BY <1>2 DEF HandleIndication, EnterCall, Goto, linkVars, pollerVars, InHand, Dispatching
  <2>2. batch \in [CbThreads -> Seq(Frames)] /\ pc \in [Threads -> Labels]
    BY <1>0, <2>1 DEF TypeOK
  <2>4. Done \in Sites /\ Batch(t) \in Sites /\ Done # Batch(t)
    BY <2>1, SiteNames
  <2>5. \A s \in Sites \ {Batch(t), Done} : Held'[s] = Held[s]
    <3>1. Held'[Link] = Held[Link] /\ Held'[Hand] = Held[Hand] /\ Held'[Pipe] = Held[Pipe]
      BY <1>0, <2>1 DEF HeldHere
    <3>2. \A u \in CbThreads : u # t => Held'[Batch(u)] = Held[Batch(u)]
      BY <1>0, <2>1, <2>2 DEF HeldHere
    <3> QED BY <3>1, <3>2, SiteNames, Zenon
  <2>6. Moved(Sites, Held, Held', Batch(t), Done)
    BY <1>0, <2>1, <2>2, <2>5 DEF HeldHere, Moved
  <2>7. Delivered(Held', indications)
    BY <1>0, <2>4, <2>6, DeliveredMove
  <2> QED BY <2>1, <2>7
<1>c. ASSUME NEW t \in Threads, StartCall(t) \/ ThreadStep(t) PROVE Delivered(Held', indications')
  <2>1. UNCHANGED queueVars \/ ReadPipe(t) \/ HandleIndication(t)
    BY <1>c, ThreadQueues
  <2> QED BY <1>b, <1>c, <1>1, <1>2, <2>1
(* The steps of the poll thread and of the outside leave the callback      *)
(* threads and their batches alone.                                        *)
<1>d. ASSUME PollerStep \/ Environment \/ UNCHANGED vars
      PROVE  /\ \A t \in CbThreads : Held'[Batch(t)] = Held[Batch(t)]
             /\ Held'[Done] = Held[Done]
  <2>1. UNCHANGED <<batch, handled>>
    BY <1>d DEF PollerStep, PollNcpMsg, CpcRx, HandleResponse, AppendCallbackCommand,
                UnknownFrame, Environment, NcpAnswer, NcpIndicate, NcpStray, ResetCrash,
                vars, queueVars
  <2> QED BY <1>0, <2>1 DEF HeldHere
<1>3. ASSUME CpcRx PROVE Delivered(Held', indications')
  <2> DEFINE f == Head(fromNcp)
  <2>1. /\ fromNcp # <<>> /\ fromNcp' = Tail(fromNcp)
        /\ poller = "rx" /\ poller' = "dispatch" /\ responseBuffer' = f
        /\ UNCHANGED <<callbackPipe, indications>>
    BY <1>3 DEF CpcRx, queueVars
  <2>2. InHand = <<>> /\ InHand' = IF f.kind = "indication" THEN <<f>> ELSE <<>>
    BY <2>1 DEF InHand, Dispatching
  <2>3. \A s \in Sites \ {Link, Hand} : Held'[s] = Held[s]
    <3>1. Held'[Pipe] = Held[Pipe]
      BY <1>0, <2>1 DEF HeldHere
    <3> QED BY <1>3, <1>d, <3>1, SiteNames, Zenon DEF PollerStep
  <2>4. CASE f.kind = "indication"
    <3>1. Held'[Hand] = Append(Held[Hand], Head(Held[Link]))
      BY <1>0, <2>2, <2>4 DEF HeldHere
    <3>2. Moved(Sites, Held, Held', Link, Hand)
      BY <1>0, <2>1, <2>3, <3>1 DEF HeldHere, Moved
    <3> QED BY <1>0, <2>1, <3>2, SiteNames, DeliveredMove
  <2>5. CASE f.kind # "indication"
    <3>1. Held'[Hand] = Held[Hand]
      BY <1>0, <2>2, <2>5 DEF HeldHere
    <3>2. Dropped(Sites, Held, Held', Link) /\ Head(Held[Link]).kind # "indication"
      BY <1>0, <2>1, <2>3, <2>5, <3>1 DEF HeldHere, Dropped
    <3> QED BY <1>0, <2>1, <3>2, SiteNames, DeliveredDrop
  <2> QED BY <2>4, <2>5
<1>4. ASSUME AppendCallbackCommand PROVE Delivered(Held', indications')
  <2>1. /\ InHand = <<responseBuffer>> /\ InHand' = <<>>
        /\ callbackPipe' = Append(callbackPipe, responseBuffer)
        /\ UNCHANGED <<fromNcp, indications>>
    BY <1>4 DEF AppendCallbackCommand, linkVars, InHand, Dispatching
  <2>2. \A s \in Sites \ {Hand, Pipe} : Held'[s] = Held[s]
    <3>1. Held'[Link] = Held[Link]
      BY <1>0, <2>1 DEF HeldHere
    <3> QED BY <1>4, <1>d, <3>1, SiteNames, Zenon DEF PollerStep
  <2>3. /\ Held[Hand] # <<>> /\ Held'[Hand] = Tail(Held[Hand])
        /\ Head(Held[Hand]) = responseBuffer
    BY <1>0, <2>1 DEF HeldHere
  <2>4. Moved(Sites, Held, Held', Hand, Pipe)
    BY <1>0, <2>1, <2>2, <2>3 DEF HeldHere, Moved
  <2> QED BY <1>0, <2>1, <2>4, SiteNames, DeliveredMove
<1>5. ASSUME NEW y \in Frames, fromNcp' = Append(fromNcp, y),
             UNCHANGED <<poller, responseBuffer, callbackPipe>>,
             Environment
      PROVE  Added(Sites, Held, Held', Link, y)
  <2>1. UNCHANGED <<InHand, callbackPipe>>
    BY <1>5 DEF InHand, Dispatching
  <2>2. Held'[Hand] = Held[Hand] /\ Held'[Pipe] = Held[Pipe]
    BY <1>0, <2>1 DEF HeldHere
  <2>3. \A s \in Sites \ {Link} : Held'[s] = Held[s]
    BY <1>5, <1>d, <2>2, SiteNames, Zenon
  <2>4. Held'[Link] = Append(Held[Link], y)
    BY <1>0, <1>5 DEF HeldHere
  <2> QED BY <2>3, <2>4 DEF Added
<1>6. ASSUME NcpAnswer PROVE Delivered(Held', indications')
  <2> DEFINE y == Response(Head(toNcp).id)
  <2>1. y \in Frames /\ y.kind # "indication"
    BY <1>0, <1>6, FrameTypes, Pop DEF NcpAnswer, Response, Frame, TypeOK
  <2>2. /\ fromNcp' = Append(fromNcp, y)
        /\ UNCHANGED <<poller, responseBuffer, callbackPipe, indications>>
    BY <1>6 DEF NcpAnswer, queueVars, pollerVars
  <2> HIDE DEF y
  <2>3. Added(Sites, Held, Held', Link, y)
    BY <1>5, <1>6, <2>1, <2>2 DEF Environment
  <2> QED BY <1>0, <2>1, <2>2, <2>3, SiteNames, DeliveredAdd
<1>7. ASSUME NcpStray PROVE Delivered(Held', indications')
  <2>1. Stray \in Frames /\ Stray.kind # "indication"
    BY FrameTypes DEF Stray, Frame
  <2>2. /\ fromNcp' = Append(fromNcp, Stray)
        /\ UNCHANGED <<poller, responseBuffer, callbackPipe, indications>>
    BY <1>7 DEF NcpStray, queueVars, pollerVars
  <2>3. Added(Sites, Held, Held', Link, Stray)
    BY <1>5, <1>7, <2>1, <2>2 DEF Environment
  <2> QED BY <1>0, <2>1, <2>2, <2>3, SiteNames, DeliveredAdd
<1>8. ASSUME NcpIndicate PROVE Delivered(Held', indications')
  <2> DEFINE y == Indication(indications + 1)
  <2>1. y \in Frames
    BY <1>0, FrameTypes
  <2>2. /\ fromNcp' = Append(fromNcp, y) /\ indications' = indications + 1
        /\ UNCHANGED <<poller, responseBuffer, callbackPipe>>
    BY <1>8 DEF NcpIndicate, queueVars, pollerVars
  <2> HIDE DEF y
  <2>3. Added(Sites, Held, Held', Link, y)
    BY <1>5, <1>8, <2>1, <2>2 DEF Environment
  <2>4. Delivered(Held', indications + 1)
    BY <1>0, <2>3, SiteNames, DeliveredNew DEF y
  <2> QED BY <2>2, <2>4
<1>9. ASSUME PollNcpMsg \/ HandleResponse \/ UnknownFrame \/ ResetCrash \/ UNCHANGED vars
      PROVE  Delivered(Held', indications')
  <2>1. UNCHANGED <<fromNcp, InHand, callbackPipe, handled, batch, indications>>
    BY <1>9 DEF PollNcpMsg, HandleResponse, UnknownFrame, ResetCrash, vars, queueVars,
                linkVars, pollerVars, InHand, Dispatching
  <2> QED BY <1>a, <2>1
<1>10. ASSUME PollerStep \/ Environment \/ UNCHANGED vars PROVE Delivered(Held', indications')
  BY <1>d, <1>3, <1>4, <1>6, <1>7, <1>8, <1>9, <1>10 DEF PollerStep, Environment
<1>11. Delivered(Held', indications')
  BY <1>c, <1>10 DEF Next, Stopped
<1> QED BY <1>0, <1>u, <1>11 DEF OnceInv

(* No indication is lost or delivered twice, whatever the number of        *)
(* callback threads, the size of the pipe, and the faults.                 *)
THEOREM ExactlyOnceHolds == Spec => []ExactlyOnce
<1>1. OnceInv => ExactlyOnce
  BY OnePlace DEF OnceInv, Delivered, ExactlyOnce
<1> QED BY <1>1, OnceInit, OnceStep, PTL DEF Spec

-----------------------------------------------------------------------------
(* Order.  R is what has left the link L, of k indications given out.      *)
OnLine(L) == {i \in DOMAIN L : L[i].kind = "indication"}

InOrder(R, L, k) ==
  /\ R \in Seq(Frames) /\ L \in Seq(Frames) /\ k \in Nat /\ Len(R) <= k
  /\ \A i \in DOMAIN R : R[i] = Indication(i)
  /\ {L[i].id : i \in OnLine(L)} = (Len(R) + 1)..k
  /\ \A i, j \in OnLine(L) : i < j => L[i].id < L[j].id

(* Taking the first frame of the link.                                     *)
LEMMA OnLineTail ==
  ASSUME NEW L \in Seq(Frames), L # <<>>
  PROVE  /\ \A i \in OnLine(Tail(L)) : i \in Nat /\ i + 1 \in OnLine(L) /\ Tail(L)[i] = L[i + 1]
         /\ \A i \in OnLine(L) : i # 1 => /\ i - 1 \in OnLine(Tail(L))
                                          /\ Tail(L)[i - 1] = L[i]
<1>1. /\ \A i \in DOMAIN Tail(L) : i \in Nat /\ i + 1 \in DOMAIN L /\ Tail(L)[i] = L[i + 1]
      /\ \A i \in DOMAIN L : i # 1 => i - 1 \in DOMAIN Tail(L) /\ Tail(L)[i - 1] = L[i]
  <2>1. \A i \in DOMAIN Tail(L) : i \in Nat
    OBVIOUS
  <2> QED BY <2>1, Shifted, MovedUp
<1> QED BY <1>1 DEF OnLine

(* What is left of the link is in order.                                   *)
LEMMA TailInOrder ==
  ASSUME NEW L \in Seq(Frames), L # <<>>,
         \A i, j \in OnLine(L) : i < j => L[i].id < L[j].id
  PROVE  \A i, j \in OnLine(Tail(L)) : i < j => Tail(L)[i].id < Tail(L)[j].id
<1> SUFFICES ASSUME NEW i \in OnLine(Tail(L)), NEW j \in OnLine(Tail(L)), i < j
             PROVE  Tail(L)[i].id < Tail(L)[j].id
  OBVIOUS
<1>1. /\ i \in Nat /\ i + 1 \in OnLine(L) /\ Tail(L)[i] = L[i + 1]
      /\ j \in Nat /\ j + 1 \in OnLine(L) /\ Tail(L)[j] = L[j + 1]
  BY OnLineTail
<1>2. i + 1 < j + 1
  BY <1>1
<1> QED BY <1>1, <1>2

(* The indication taken from the link is the next one: its number is the   *)
(* least of those on the link.                                             *)
LEMMA OrderTake ==
  ASSUME NEW R, NEW L, NEW k, InOrder(R, L, k), L # <<>>, Head(L).kind = "indication"
  PROVE  InOrder(Append(R, Head(L)), Tail(L), k)
<1> DEFINE f == Head(L)
           n == Len(R) + 1
<1>0. /\ R \in Seq(Frames) /\ L \in Seq(Frames) /\ k \in Nat /\ Len(R) \in Nat /\ Len(R) <= k
      /\ \A i \in DOMAIN R : R[i] = Indication(i)
      /\ {L[i].id : i \in OnLine(L)} = n..k
      /\ \A i, j \in OnLine(L) : i < j => L[i].id < L[j].id
  BY DEF InOrder
<1>1. f \in Frames /\ f = L[1] /\ 1 \in OnLine(L) /\ Tail(L) \in Seq(Frames)
  BY <1>0, Shifted, Pop DEF OnLine
<1> HIDE DEF f
<1>2. f.id \in n..k
  BY <1>0, <1>1
<1>n. n \in Nat /\ k \in Nat
  BY <1>0
<1> HIDE DEF n
<1>3. f.id = n
  <2>0. n \in n..k
    BY <1>n, <1>2
  <2>1. PICK i \in OnLine(L) : L[i].id = n
    BY <1>0, <2>0
  <2>2. i \in Nat /\ i >= 1
    BY <1>0 DEF OnLine
  <2>3. CASE i = 1
    BY <1>1, <2>1, <2>3
  <2>4. CASE 1 < i
    <3>1. f.id < n
      BY <1>0, <1>1, <2>1, <2>4
    <3> QED BY <1>n, <1>2, <3>1
  <2> QED BY <2>2, <2>3, <2>4
<1>4. f = Indication(n)
  BY <1>0, <1>1, <1>3 DEF Frames, Indication, Frame
<1>5. /\ Append(R, f) \in Seq(Frames) /\ Len(Append(R, f)) = n
      /\ \A i \in DOMAIN Append(R, f) : Append(R, f)[i] = Indication(i)
  <2>1. Append(R, f) \in Seq(Frames) /\ Len(Append(R, f)) = n
    BY <1>0, <1>1 DEF n
  <2>2. \A i \in DOMAIN Append(R, f) : (i \in DOMAIN R /\ Append(R, f)[i] = R[i]) \/ i = n
    BY <1>0, <1>1, Appended DEF n
  <2>3. Append(R, f)[n] = f
    BY <1>0, <1>1, Appended DEF n
  <2> QED BY <1>0, <1>4, <2>1, <2>2, <2>3
<1>6. n + 1 \in Nat /\ n <= k
  BY <1>n, <1>2
<1>7. {Tail(L)[i].id : i \in OnLine(Tail(L))} = (n + 1)..k
  <2>1. ASSUME NEW i \in OnLine(Tail(L)) PROVE Tail(L)[i].id \in (n + 1)..k
    <3>1. i \in Nat /\ i + 1 \in OnLine(L) /\ Tail(L)[i] = L[i + 1]
      BY <1>0, OnLineTail
    <3>2. 1 < i + 1
      BY <1>1, <3>1 DEF OnLine
    <3>3. L[i + 1].id \in n..k
      BY <1>0, <3>1
    <3>4. n < L[i + 1].id
      BY <1>0, <1>1, <1>3, <3>1, <3>2
    <3>5. L[i + 1].id \in (n + 1)..k
      BY <1>n, <3>3, <3>4
    <3> QED BY <3>1, <3>5
  <2>2. ASSUME NEW m \in (n + 1)..k PROVE \E i \in OnLine(Tail(L)) : Tail(L)[i].id = m
    <3>1. m \in n..k /\ m # n
      BY <1>n
    <3>2. PICK i \in OnLine(L) : L[i].id = m
      BY <1>0, <3>1
    <3>3. i # 1
      BY <1>1, <1>3, <3>1, <3>2
    <3> QED BY <1>0, <3>2, <3>3, OnLineTail
  <2> QED BY <2>1, <2>2
<1>8. \A i, j \in OnLine(Tail(L)) : i < j => Tail(L)[i].id < Tail(L)[j].id
  BY <1>0, TailInOrder
<1>9. InOrder(Append(R, f), Tail(L), k)
  BY <1>0, <1>1, <1>5, <1>6, <1>7, <1>8 DEF InOrder
<1> QED BY <1>9 DEF f

(* Taking anything else from the link changes nothing,                     *)
LEMMA OrderSkip ==
  ASSUME NEW R, NEW L, NEW k, InOrder(R, L, k), L # <<>>, Head(L).kind # "indication"
  PROVE  InOrder(R, Tail(L), k)
<1>0. /\ L \in Seq(Frames) /\ Tail(L) \in Seq(Frames)
      /\ {L[i].id : i \in OnLine(L)} = (Len(R) + 1)..k
      /\ \A i, j \in OnLine(L) : i < j => L[i].id < L[j].id
  BY Pop DEF InOrder
<1>1. 1 \notin OnLine(L)
  BY <1>0, Shifted DEF OnLine
<1>2. {Tail(L)[i].id : i \in OnLine(Tail(L))} = {L[i].id : i \in OnLine(L)}
  <2>1. ASSUME NEW i \in OnLine(Tail(L)) PROVE Tail(L)[i].id \in {L[j].id : j \in OnLine(L)}
    <3>1. i + 1 \in OnLine(L) /\ Tail(L)[i] = L[i + 1]
      BY <1>0, OnLineTail
    <3> QED BY <3>1
  <2>2. ASSUME NEW i \in OnLine(L) PROVE L[i].id \in {Tail(L)[j].id : j \in OnLine(Tail(L))}
    <3>1. i - 1 \in OnLine(Tail(L)) /\ Tail(L)[i - 1] = L[i]
      BY <1>0, <1>1, OnLineTail
    <3> QED BY <3>1
  <2> QED BY <2>1, <2>2
<1>3. \A i, j \in OnLine(Tail(L)) : i < j => Tail(L)[i].id < Tail(L)[j].id
  BY <1>0, TailInOrder
<1> QED BY <1>0, <1>2, <1>3 DEF InOrder

(* nor does adding anything else.                                          *)
LEMMA OrderAdd ==
  ASSUME NEW R, NEW L, NEW k, InOrder(R, L, k), NEW y \in Frames, y.kind # "indication"
  PROVE  InOrder(R, Append(L, y), k)
<1> DEFINE M == Append(L, y)
<1>0. L \in Seq(Frames) /\ M \in Seq(Frames)
  BY DEF InOrder
<1>1. /\ \A i \in DOMAIN L : i \in DOMAIN M /\ M[i] = L[i]
      /\ \A i \in DOMAIN M : i \in DOMAIN L \/ M[i] = y
  BY <1>0, Appended
<1> HIDE DEF M
<1>2. OnLine(M) = OnLine(L) /\ \A i \in OnLine(L) : M[i] = L[i]
  BY <1>1 DEF OnLine
<1>3. {M[i].id : i \in OnLine(M)} = {L[i].id : i \in OnLine(L)}
  BY <1>2
<1>4. InOrder(R, M, k)
  BY <1>0, <1>2, <1>3 DEF InOrder
<1> QED BY <1>4 DEF M

(* An indication emitted is the last one on the link.                      *)
LEMMA OrderNew ==
  ASSUME NEW R, NEW L, NEW k, InOrder(R, L, k)
  PROVE  InOrder(R, Append(L, Indication(k + 1)), k + 1)
<1> DEFINE y == Indication(k + 1)
           M == Append(L, y)
           n == Len(L) + 1
<1>0. /\ L \in Seq(Frames) /\ k \in Nat /\ Len(R) \in Nat /\ Len(R) <= k
      /\ {L[i].id : i \in OnLine(L)} = (Len(R) + 1)..k
      /\ \A i, j \in OnLine(L) : i < j => L[i].id < L[j].id
  BY DEF InOrder
<1>1. y \in Frames /\ y.kind = "indication" /\ y.id = k + 1
  BY <1>0, FrameTypes, IndicationFields
<1> HIDE DEF y
<1>2. /\ M \in Seq(Frames) /\ n \in Nat /\ n \in DOMAIN M /\ M[n] = y
      /\ \A i \in DOMAIN L : i \in DOMAIN M /\ M[i] = L[i] /\ i \in Nat /\ i < n
      /\ \A i \in DOMAIN M : i \in DOMAIN L \/ i = n
  <2>1. \A i \in DOMAIN L : i \in Nat /\ i < n
    BY <1>0
  <2> QED BY <1>0, <1>1, <2>1, Appended
<1> HIDE DEF M, n
<1>3. /\ \A i \in OnLine(M) : i \in OnLine(L) \/ i = n
      /\ n \in OnLine(M)
      /\ \A i \in OnLine(L) : i \in OnLine(M) /\ M[i] = L[i] /\ i \in Nat /\ i < n
                              /\ M[i].id \in (Len(R) + 1)..k
  BY <1>0, <1>1, <1>2 DEF OnLine
<1>4. {M[i].id : i \in OnLine(M)} = (Len(R) + 1)..(k + 1)
  <2>1. ASSUME NEW i \in OnLine(M) PROVE M[i].id \in (Len(R) + 1)..(k + 1)
    <3>1. CASE i = n
      BY <1>0, <1>1, <1>2, <3>1
    <3>2. CASE i \in OnLine(L)
      <4>1. M[i].id \in (Len(R) + 1)..k
        BY <1>3, <3>2
      <4> QED BY <1>0, <4>1
    <3> QED BY <1>3, <3>1, <3>2
  <2>2. ASSUME NEW m \in (Len(R) + 1)..(k + 1) PROVE \E i \in OnLine(M) : M[i].id = m
    <3>1. CASE m = k + 1
      BY <1>1, <1>2, <1>3, <3>1
    <3>2. CASE m \in (Len(R) + 1)..k
      <4>1. PICK i \in OnLine(L) : L[i].id = m
        BY <1>0, <3>2
      <4> QED BY <1>3, <4>1
    <3> QED BY <1>0, <3>1, <3>2
  <2> QED BY <2>1, <2>2
<1>5. ASSUME NEW i \in OnLine(M), NEW j \in OnLine(M), i < j PROVE M[i].id < M[j].id
  <2>1. CASE i = n
    <3>1. \A m \in OnLine(L) : m \in Nat /\ m < n
      BY <1>3
    <3> QED BY <1>2, <1>3, <1>5, <2>1, <3>1
  <2>2. CASE i \in OnLine(L) /\ j = n
    <3>1. M[i].id \in (Len(R) + 1)..k /\ M[j].id = k + 1
      BY <1>1, <1>2, <1>3, <2>2
    <3> QED BY <1>0, <3>1
  <2>3. CASE i \in OnLine(L) /\ j \in OnLine(L)
    BY <1>0, <1>3, <1>5, <2>3
  <2> QED BY <1>3, <2>1, <2>2, <2>3
<1>6. InOrder(R, M, k + 1)
  BY <1>0, <1>2, <1>4, <1>5 DEF InOrder
<1> QED BY <1>6 DEF M, y

(* The parts of Received when an indication is handed on.                  *)
LEMMA HeadFirst ==
  ASSUME NEW T, NEW h \in Seq(T), NEW b \in Seq(T), b # <<>>
  PROVE  Append(h, Head(b)) \o Tail(b) = h \o b
<1>1. /\ Head(b) \in T /\ Tail(b) \in Seq(T) /\ <<Head(b)>> \in Seq(T)
      /\ Append(h, Head(b)) = h \o <<Head(b)>>
      /\ b = <<Head(b)>> \o Tail(b)
  <2>1. Head(b) \in T /\ Tail(b) \in Seq(T)
    BY Pop
  <2>2. Append(h, Head(b)) = h \o <<Head(b)>>
    BY <2>1
  <2>3. b = <<Head(b)>> \o Tail(b)
    BY <2>1
  <2> QED BY <2>1, <2>2, <2>3
<1> QED BY <1>1, ConcatAssociative

(* Adding at the end.                                                      *)
LEMMA LastAdded ==
  ASSUME NEW T, NEW p \in Seq(T), NEW q \in Seq(T), NEW x \in T
  PROVE  /\ p \o Append(q, x) = Append(p \o q, x)
         /\ p \o <<x>> = Append(p, x)
         /\ p \o <<>> = p
<1>1. \A s \in Seq(T) : s \o <<x>> = Append(s, x)
  OBVIOUS
<1>2. /\ <<x>> \in Seq(T) /\ p \o q \in Seq(T) /\ p \o <<>> = p
      /\ Append(p \o q, x) = (p \o q) \o <<x>> /\ Append(q, x) = q \o <<x>>
      /\ p \o <<x>> = Append(p, x)
  BY <1>1, ConcatProperties, ConcatEmptySeq
<1> QED BY <1>2, ConcatAssociative

(* The inductive invariant of CallbackFifo.                                *)
FifoInv ==
  /\ TypeOK /\ BatchesUsedUp
  /\ \A t \in CbThreads : CbThreads = {t} => InOrder(Received(t), fromNcp, indications)

(* What has left the link is a sequence of frames.                         *)
LEMMA ReceivedType ==
  ASSUME TypeOK, NEW t \in CbThreads
  PROVE  /\ handled \in Seq(Frames) /\ batch[t] \in Seq(Frames)
         /\ callbackPipe \in Seq(Frames) /\ InHand \in Seq(Frames)
         /\ handled \o batch[t] \in Seq(Frames)
         /\ handled \o batch[t] \o callbackPipe \in Seq(Frames)
         /\ Received(t) \in Seq(Frames)
<1>1. /\ handled \in Seq(Frames) /\ batch[t] \in Seq(Frames)
      /\ callbackPipe \in Seq(Frames)
  BY DEF TypeOK
<1>2. InHand \in Seq(Frames)
  <2>1. responseBuffer \in Frames
    BY DEF TypeOK
  <2> QED BY <2>1 DEF InHand
<1> QED BY <1>1, <1>2, ConcatProperties DEF Received

(* Nothing has left the link initially.                                    *)
LEMMA FifoInit == Init => FifoInv
<1> SUFFICES ASSUME Init PROVE FifoInv
  OBVIOUS
<1>1. TypeOK /\ BatchesUsedUp /\ indications = 0 /\ fromNcp = <<>>
  BY TypeInit DEF Init, BatchesUsedUp
<1>2. ASSUME NEW t \in CbThreads PROVE InOrder(Received(t), fromNcp, indications)
  <2>1. /\ handled = <<>> /\ InHand = <<>> /\ callbackPipe = <<>> /\ batch[t] = <<>>
    BY DEF Init, InHand, Dispatching
  <2>2. Received(t) = <<>>
    BY <2>1 DEF Received
  <2>3. OnLine(<<>>) = {} /\ 1..0 = {} /\ <<>> \in Seq(Frames) /\ Len(<<>>) = 0
    BY DEF OnLine
  <2> QED BY <1>1, <2>2, <2>3 DEF InOrder
<1> QED BY <1>1, <1>2 DEF FifoInv

(* Every step keeps the order: what has left the link changes only when    *)
(* the poll thread takes an indication.                                    *)
LEMMA FifoStep == FifoInv /\ [Next]_vars => FifoInv'
<1> SUFFICES ASSUME FifoInv, [Next]_vars PROVE FifoInv'
  OBVIOUS
<1>0. TypeOK /\ TypeOK' /\ BatchesUsedUp
  BY TypeStep DEF FifoInv
<1>u. BatchesUsedUp'
  BY <1>0, UsedUpStep
<1> SUFFICES ASSUME NEW t \in CbThreads, CbThreads = {t}
             PROVE  InOrder(Received(t)', fromNcp', indications')
  BY <1>0, <1>u DEF FifoInv
<1> DEFINE R == Received(t)
           Kept == InOrder(Received(t)', fromNcp', indications')
<1>t. /\ handled \in Seq(Frames) /\ batch[t] \in Seq(Frames)
      /\ callbackPipe \in Seq(Frames) /\ InHand \in Seq(Frames)
      /\ handled \o batch[t] \in Seq(Frames)
      /\ handled \o batch[t] \o callbackPipe \in Seq(Frames)
      /\ R \in Seq(Frames) /\ responseBuffer \in Frames /\ fromNcp \in Seq(Frames)
  BY <1>0, ReceivedType DEF TypeOK
<1>r. InOrder(R, fromNcp, indications)
  BY DEF FifoInv
(* A step that takes nothing from the link and hands nothing on.           *)
<1>a. ASSUME UNCHANGED <<fromNcp, indications>>, Received(t)' = R
      PROVE  Kept
  BY <1>a, <1>r
<1>b. ASSUME NEW u \in Threads, StartCall(u) \/ ThreadStep(u), UNCHANGED queueVars PROVE Kept
  <2>1. UNCHANGED <<fromNcp, InHand, callbackPipe, handled, batch, indications>>
    BY <1>b, QuietThreadStep
  <2> QED BY <1>a, <2>1 DEF Received
<1>1. ASSUME NEW u \in Threads, ReadPipe(u) PROVE Kept
  <2>1. u = t /\ pc[t] = "read"
    BY <1>1 DEF ReadPipe, Step
  <2>2. /\ batch' = [batch EXCEPT ![t] = callbackPipe] /\ callbackPipe' = <<>>
        /\ UNCHANGED <<fromNcp, InHand, handled, indications>>
    BY <1>1, <2>1 DEF ReadPipe, linkVars, pollerVars, InHand, Dispatching
  <2>3. batch[t] = <<>> /\ batch'[t] = callbackPipe
    BY <1>0, <2>1, <2>2 DEF BatchesUsedUp, TypeOK
  <2>4. handled \o <<>> = handled /\ handled \o callbackPipe \in Seq(Frames)
        /\ (handled \o callbackPipe) \o <<>> = handled \o callbackPipe
    BY <1>t, ConcatProperties, ConcatEmptySeq
  <2>5. handled' \o batch'[t] \o callbackPipe' = handled \o batch[t] \o callbackPipe
    BY <2>2, <2>3, <2>4
  <2>6. Received(t)' = R
    BY <2>2, <2>5 DEF Received
  <2> QED BY <1>a, <2>2, <2>6
<1>2. ASSUME NEW u \in Threads, HandleIndication(u) PROVE Kept
  <2>1. /\ u = t /\ batch[u] # <<>>
        /\ batch' = [batch EXCEPT ![u] = Tail(batch[u])]
        /\ handled' = Append(handled, Head(batch[u]))
        /\ UNCHANGED <<fromNcp, InHand, callbackPipe, indications>>
    BY <1>2 DEF HandleIndication, linkVars, pollerVars, InHand, Dispatching
  <2>2. batch'[t] = Tail(batch[t])
    BY <1>0, <2>1 DEF TypeOK
  <2>3. handled' \o batch'[t] = handled \o batch[t]
    BY <1>t, <2>1, <2>2, HeadFirst
  <2>4. Received(t)' = R
    BY <2>1, <2>3 DEF Received
  <2> QED BY <1>a, <2>1, <2>4
<1>3. ASSUME CpcRx PROVE Kept
  <2> DEFINE f == Head(fromNcp)
  <2>1. /\ fromNcp # <<>> /\ fromNcp' = Tail(fromNcp)
        /\ poller = "rx" /\ poller' = "dispatch" /\ responseBuffer' = f
        /\ UNCHANGED <<handled, batch, callbackPipe, indications>>
    BY <1>3 DEF CpcRx, queueVars
  <2>2. InHand = <<>> /\ InHand' = IF f.kind = "indication" THEN <<f>> ELSE <<>>
    BY <2>1 DEF InHand, Dispatching
  <2>3. f \in Frames
    BY <1>t, <2>1, Pop
  <2>4. R = handled \o batch[t] \o callbackPipe
    BY <1>t, <2>2, ConcatEmptySeq DEF Received
  <2>5. CASE f.kind = "indication"
    <3>1. Received(t)' = R \o <<f>>
      BY <2>1, <2>2, <2>4, <2>5 DEF Received
    <3>2. Received(t)' = Append(R, f)
      BY <1>t, <2>3, <3>1, LastAdded
    <3>3. InOrder(Append(R, f), Tail(fromNcp), indications)
      BY <1>r, <2>1, <2>5, OrderTake
    <3> QED BY <2>1, <3>2, <3>3
  <2>6. CASE f.kind # "indication"
    <3>1. Received(t)' = R
      BY <2>1, <2>2, <2>6 DEF Received
    <3>2. InOrder(R, Tail(fromNcp), indications)
      BY <1>r, <2>1, <2>6, OrderSkip
    <3> QED BY <2>1, <3>1, <3>2
  <2> QED BY <2>5, <2>6
<1>4. ASSUME AppendCallbackCommand PROVE Kept
  <2>1. /\ InHand = <<responseBuffer>> /\ InHand' = <<>>
        /\ callbackPipe' = Append(callbackPipe, responseBuffer)
        /\ UNCHANGED <<fromNcp, handled, batch, indications>>
    BY <1>4 DEF AppendCallbackCommand, linkVars, InHand, Dispatching
  <2> DEFINE p == handled \o batch[t]
  <2>2. Received(t)' = p \o Append(callbackPipe, responseBuffer) \o <<>>
    BY <2>1 DEF Received
  <2>3. R = p \o callbackPipe \o <<responseBuffer>>
    BY <2>1 DEF Received
  <2>p. p \in Seq(Frames) /\ p \o callbackPipe \in Seq(Frames)
    BY <1>t
  <2> HIDE DEF p
  <2>4. /\ p \o Append(callbackPipe, responseBuffer) = Append(p \o callbackPipe, responseBuffer)
        /\ p \o callbackPipe \o <<responseBuffer>> = Append(p \o callbackPipe, responseBuffer)
    <3>1. \A s, q \in Seq(Frames) : \A x \in Frames :
            s \o Append(q, x) = Append(s \o q, x) /\ s \o <<x>> = Append(s, x)
      BY LastAdded
    <3> QED BY <1>t, <2>p, <3>1, SMTT(40)
  <2>5. Received(t)' = R \o <<>> /\ R \o <<>> = R
    BY <1>t, <2>2, <2>3, <2>4, ConcatEmptySeq
  <2> QED BY <1>a, <2>1, <2>5
<1>5. ASSUME PollerStep \/ Environment \/ UNCHANGED vars,
             ~CpcRx, ~AppendCallbackCommand
      PROVE  Received(t)' = R
  <2>1. UNCHANGED <<InHand, callbackPipe, handled, batch>>
    BY <1>5 DEF PollerStep, PollNcpMsg, HandleResponse, UnknownFrame, Environment, NcpAnswer,
                NcpIndicate, NcpStray, ResetCrash, vars, queueVars, pollerVars, InHand,
                Dispatching
  <2> QED BY <2>1 DEF Received
<1>6. ASSUME NcpAnswer \/ NcpStray, Received(t)' = R PROVE Kept
  <2>1. PICK y \in Frames : y.kind # "indication" /\ fromNcp' = Append(fromNcp, y)
    <3>1. CASE NcpAnswer
      <4> DEFINE y == Response(Head(toNcp).id)
      <4>1. y \in Frames /\ y.kind # "indication"
        BY <1>0, <3>1, FrameTypes, Pop DEF NcpAnswer, Response, Frame, TypeOK
      <4>2. fromNcp' = Append(fromNcp, y)
        BY <3>1 DEF NcpAnswer
      <4> QED BY <4>1, <4>2
    <3>2. CASE NcpStray
      <4>1. Stray \in Frames /\ Stray.kind # "indication"
        BY FrameTypes DEF Stray, Frame
      <4>2. fromNcp' = Append(fromNcp, Stray)
        BY <3>2 DEF NcpStray
      <4> QED BY <4>1, <4>2
    <3> QED BY <1>6, <3>1, <3>2
  <2>2. indications' = indications
    BY <1>6 DEF NcpAnswer, NcpStray
  <2>3. InOrder(R, Append(fromNcp, y), indications)
    BY <1>r, <2>1, OrderAdd
  <2> QED BY <1>6, <2>1, <2>2, <2>3
<1>7. ASSUME NcpIndicate, Received(t)' = R PROVE Kept
  <2>1. /\ fromNcp' = Append(fromNcp, Indication(indications + 1))
        /\ indications' = indications + 1
    BY <1>7 DEF NcpIndicate
  <2>2. InOrder(R, Append(fromNcp, Indication(indications + 1)), indications + 1)
    BY <1>r, OrderNew
  <2> QED BY <1>7, <2>1, <2>2
<1>8. ASSUME PollNcpMsg \/ HandleResponse \/ UnknownFrame \/ ResetCrash \/ UNCHANGED vars,
             Received(t)' = R
      PROVE  Kept
  <2>1. UNCHANGED <<fromNcp, indications>>
    BY <1>8 DEF PollNcpMsg, HandleResponse, UnknownFrame, ResetCrash, vars, linkVars
  <2> QED BY <1>a, <1>8, <2>1
<1> HIDE DEF Kept, R
<1>9. ASSUME PollerStep \/ Environment \/ UNCHANGED vars PROVE Kept
  BY <1>3, <1>4, <1>5, <1>6, <1>7, <1>8, <1>9 DEF PollerStep, Environment
<1>10. ASSUME NEW u \in Threads, StartCall(u) \/ ThreadStep(u) PROVE Kept
  <2>1. UNCHANGED queueVars \/ ReadPipe(u) \/ HandleIndication(u)
    BY <1>10, ThreadQueues
  <2> QED BY <1>b, <1>1, <1>2, <1>10, <2>1
<1>11. Kept
  BY <1>9, <1>10 DEF Next, Stopped
<1> QED BY <1>11 DEF Kept

(* With one callback thread the application sees every indication once and *)
(* in the order in which the NCP emitted them, whatever the size of the    *)
(* pipe and whatever else goes wrong.                                      *)
THEOREM CallbackFifoHolds == Spec => []CallbackFifo
<1>1. FifoInv => CallbackFifo
  BY DEF FifoInv, InOrder, CallbackFifo, OnLine, OnLink
<1> QED BY <1>1, FifoInit, FifoStep, PTL DEF Spec
=============================================================================
