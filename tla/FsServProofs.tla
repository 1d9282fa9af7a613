---------------------------- MODULE FsServProofs -----------------------------
(***************************************************************************)
(* Proofs about the file server's table of open files: OpenFilesKept for    *)
(* any number of clients, files, entries and descriptors, when a file is    *)
(* opened only while opentab has room, the server has memory, the kernel    *)
(* finds the page tables that messages need, and the ids given out stay     *)
(* below the sign of an int.                                                *)
(***************************************************************************)
EXTENDS FsServ, FiniteSetTheorems, TLAPS

Asking == {"send", "sent", "wait"}
ClientState == [pc : {"new", "user", "send", "sent", "wait", "got", "gone"},
                fn : {"open", "close", "other"}, req : Request,
                r : {"ok", "error"}, from : Fdnum \cup {NONE}, leaving : BOOLEAN]
Opentab == [fileid : FileId, file : FileSet \cup {NONE}, mapped : BOOLEAN,
            ffid : FileId, fffile : FileSet \cup {NONE}]

\* Entry i is open on file f: its page, its id and its File agree.
OpenOn(i, f) ==
    /\ tab[i].mapped /\ tab[i].ffid = tab[i].fileid
    /\ tab[i].fffile = f /\ tab[i].file = f

\* An entry that a descriptor refers to is the one it was opened as.
FdsSound ==
    \A c \in Client, n \in Fdnum : fds[c][n] # NONE =>
        OpenOn(fds[c][n].e, fds[c][n].file) /\ tab[fds[c][n].e].fileid = fds[c][n].id

\* The request is about a descriptor that the client still has.
Names(c, req) ==
    /\ fds[c][req.fd] # NONE
    /\ req.id = fds[c][req.fd].id /\ req.file = fds[c][req.fd].file

\* What a client has asked for and what it knows of the answer.
CallSound(c) ==
    /\ cl[c].req.type = "open" => cl[c].req.file \in FileSet
    /\ cl[c].pc \in Asking \cup {"got"} /\ cl[c].fn = "close"
         => cl[c].req.type \in {"dirty", "close"} /\ Names(c, cl[c].req)
    /\ cl[c].pc \in Asking /\ cl[c].req.type \in ByFd => Names(c, cl[c].req)
    /\ cl[c].pc = "got" /\ cl[c].r = "ok" /\ cl[c].req.type = "open"
         => fds[c][cl[c].req.fd] # NONE

CallsSound == \A c \in Client : CallSound(c)

\* The client whose request is served waits for the answer to it.
ServesAsker ==
    /\ srv.pc # "panic"
    /\ srv.pc \in {"serve", "reply"} =>
           /\ srv.whom \in Client
           /\ cl[srv.whom].pc \in {"sent", "wait"} /\ cl[srv.whom].req = srv.req

\* There is one answer, and a page with it exactly when a file has been opened.
ReplySound ==
    srv.pc = "reply" =>
        \E a \in Answer :
            /\ srv.out = <<a>>
            /\ srv.req.type # "open" => a.page = NONE
            /\ srv.req.type = "open" /\ a.r = "ok" => a.page # NONE
            /\ a.page # NONE => OpenOn(a.page, srv.req.file)

StateInv == TypeOK /\ FdsSound /\ CallsSound /\ ServesAsker /\ ReplySound

\* Entries in use, clients that are opening a file, and those of them that the
\* server has not come to.
Used == {i \in Entry : \E c \in Client, n \in Fdnum : fds[c][n] # NONE /\ fds[c][n].e = i}
Opening == {c \in Client : cl[c].pc \in Asking /\ cl[c].req.type = "open"}
Unserved == Opening \ (IF srv.pc = "reply" THEN {srv.whom} ELSE {})

\* There is an entry for every client that is opening a file.
RoomLeft == Cardinality(Used) + Cardinality(Opening) <= MAXOPEN

\* An entry's id is its index and its number of uses, no more than calls were made.
IdsCount ==
    /\ Cardinality(Unserved) <= calls
    /\ \A i \in Entry : \E k \in 0..(calls - Cardinality(Unserved)) :
           tab[i].fileid = i + k * MAXOPEN

IInv == StateInv /\ RoomLeft /\ IdsCount

-----------------------------------------------------------------------------
(* Numbers and sets.                                                       *)

\* A set of naturals that is not empty has a least element: otherwise all numbers
\* up to one of its members would be below it, as many as that member, and adding
\* one to each would map them into fewer.
LEMMA LeastElement ==
    ASSUME NEW S \in SUBSET Nat, S # {}
    PROVE  Min(S) \in S
<1> SUFFICES ASSUME \A x \in S : \E y \in S : ~(x =< y) PROVE FALSE
  BY DEF Min
<1>1. PICK n \in S : n \in Nat
  OBVIOUS
<1>2. PICK T : T = {k \in 0..n : \A x \in S : k <= x}
  OBVIOUS
<1>3. IsFiniteSet(T) /\ Cardinality(T) \in Nat
  <2>1. IsFiniteSet(0..n) /\ T \in SUBSET (0..n)
    BY <1>1, <1>2, FS_Interval
  <2> QED BY <2>1, FS_Subset, FS_CardinalityType
<1>4. PICK f : f = [k \in T |-> k + 1]
  OBVIOUS
<1>5. f \in Injection(T, T \ {0})
  <2>1. ASSUME NEW k \in T PROVE k \in Nat /\ k + 1 \in T \ {0}
    <3>1. k \in 0..n /\ \A x \in S : k <= x
      BY <1>2
    <3>2. k \notin S
      BY <3>1
    <3>3. \A x \in S : x \in Nat /\ k + 1 <= x
      BY <3>1, <3>2
    <3> QED BY <1>1, <1>2, <3>1, <3>3
  <2>2. f \in [T -> T \ {0}]
    BY <1>4, <2>1
  <2>3. \A a, b \in T : f[a] = f[b] => a = b
    BY <1>4, <2>1
  <2> QED BY <2>2, <2>3 DEF Injection, IsInjective
<1>6. 0 \in T
  BY <1>1, <1>2
<1>7. IsFiniteSet(T \ {0}) /\ Cardinality(T \ {0}) = Cardinality(T) - 1
  BY <1>3, <1>6, FS_RemoveElement
<1>8. Cardinality(T) <= Cardinality(T \ {0})
  BY <1>5, <1>7, FS_Injection
<1> QED BY <1>3, <1>7, <1>8

\* The id of an entry leads back to it.
LEMMA IdLeadsToEntry ==
    ASSUME NEW i \in Entry, NEW k \in Nat
    PROVE  (i + k * MAXOPEN) % MAXOPEN = i
<1> DEFINE a == i + k * MAXOPEN
           q == a \div MAXOPEN
           r == a % MAXOPEN
<1>1. MAXOPEN \in Nat \ {0} /\ i \in 0..(MAXOPEN - 1)
  BY SizeAssumption DEF Entry
<1>2. a \in Nat /\ k * MAXOPEN \in Nat
  BY <1>1
<1>3. q \in Int /\ r \in 0..(MAXOPEN - 1) /\ a = MAXOPEN * q + r
  BY <1>1, <1>2
<1> HIDE DEF q, r
<1>4. CASE q = k
  <2>1. a = k * MAXOPEN + r
    BY <1>1, <1>3, <1>4
  <2> QED BY <1>1, <1>2, <1>3, <2>1 DEF r
<1>5. CASE q < k
  <2>1. PICK d \in Nat : k = q + 1 + d
    BY <1>3, <1>5
  <2>2. k * MAXOPEN = q * MAXOPEN + MAXOPEN + d * MAXOPEN /\ d * MAXOPEN \in Nat
        /\ q * MAXOPEN \in Int /\ MAXOPEN * q = q * MAXOPEN
    BY <1>1, <1>3, <2>1
  <2> QED BY <1>1, <1>3, <2>2
<1>6. CASE q > k
  <2>1. PICK d \in Nat : q = k + 1 + d
    BY <1>3, <1>6
  <2>2. q * MAXOPEN = k * MAXOPEN + MAXOPEN + d * MAXOPEN /\ d * MAXOPEN \in Nat
        /\ q * MAXOPEN \in Int /\ MAXOPEN * q = q * MAXOPEN
    BY <1>1, <1>3, <2>1
  <2> QED BY <1>1, <1>2, <1>3, <2>2
<1> QED BY <1>3, <1>4, <1>5, <1>6

\* The sets that are counted are finite.
LEMMA Finite ==
    ASSUME TypeOK
    PROVE  /\ IsFiniteSet(Entry) /\ Cardinality(Entry) = MAXOPEN
           /\ Used \in SUBSET Entry /\ IsFiniteSet(Used) /\ Cardinality(Used) \in Nat
           /\ Opening \in SUBSET Client /\ IsFiniteSet(Opening) /\ Cardinality(Opening) \in Nat
           /\ IsFiniteSet(Unserved) /\ Cardinality(Unserved) \in Nat
<1>1. IsFiniteSet(Entry) /\ Cardinality(Entry) = MAXOPEN
  BY SizeAssumption, FS_Interval DEF Entry
<1>2. Used \in SUBSET Entry
  BY DEF Used
<1>3. Opening \in SUBSET Client /\ Unserved \in SUBSET Opening
  BY DEF Opening, Unserved
<1>4. IsFiniteSet(Used) /\ IsFiniteSet(Opening)
  BY <1>1, <1>2, <1>3, FS_Subset, ClientAssumption
<1>5. IsFiniteSet(Unserved)
  BY <1>3, <1>4, FS_Subset
<1> QED BY <1>1, <1>2, <1>3, <1>4, <1>5, FS_CardinalityType

\* What pageref tells of an entry.
LEMMA PagerefTells ==
    ASSUME TypeOK, FdsSound, NEW i \in Entry
    PROVE  /\ i \in Used => pageref(i) \in Nat /\ pageref(i) > 1
           /\ i \notin Used => pageref(i) \in {0, 1}
<1>1. Holders(i) \in SUBSET (Client \X Fdnum) /\ IsFiniteSet(Client \X Fdnum)
  <2>1. IsFiniteSet(Fdnum)
    BY SizeAssumption, FS_Interval DEF Fdnum
  <2> QED BY <2>1, ClientAssumption, FS_Product DEF Holders
<1>2. IsFiniteSet(Holders(i)) /\ Cardinality(Holders(i)) \in Nat
  BY <1>1, FS_Subset, FS_CardinalityType
<1>3. ASSUME i \in Used PROVE pageref(i) \in Nat /\ pageref(i) > 1
  <2>1. PICK c \in Client, n \in Fdnum : fds[c][n] # NONE /\ fds[c][n].e = i
    BY <1>3 DEF Used
  <2>2. tab[i].mapped
    BY <2>1 DEF FdsSound, OpenOn
  <2>3. <<c, n>> \in Holders(i)
    BY <2>1 DEF Holders
  <2>4. Cardinality(Holders(i)) # 0
    BY <1>2, <2>3, FS_EmptySet
  <2> QED BY <1>2, <2>2, <2>4 DEF pageref
<1>4. ASSUME i \notin Used PROVE pageref(i) \in {0, 1}
  <2>1. Holders(i) = {}
    BY <1>4 DEF Used, Holders
  <2>2. Cardinality(Holders(i)) = 0
    BY <2>1, FS_EmptySet
  <2> QED BY <2>2 DEF pageref
<1> QED BY <1>3, <1>4

-----------------------------------------------------------------------------
(* Steps of clients that leave the server alone.                           *)

\* A request on a descriptor is well formed and names what is open there.
LEMMA RequestById ==
    ASSUME TypeOK, FdsSound, NEW c \in Client, NEW n \in Opened(c), NEW type \in ByFd
    PROVE  LET req == ById(type, c, n) IN
           req \in Request /\ req.type = type /\ Names(c, req)
<1>1. n \in Fdnum /\ fds[c][n] # NONE
  BY DEF Opened
<1>2. fds[c][n] \in Descriptor
  BY <1>1 DEF TypeOK, Descriptor
<1>3. tab[fds[c][n].e].ffid = fds[c][n].id
  BY <1>1 DEF FdsSound, OpenOn
<1> QED BY <1>1, <1>2, <1>3 DEF ById, Request, ByFd, Names, Descriptor

\* Requests that name no descriptor.
LEMMA RequestByPath ==
    ASSUME IdSign # 0
    PROVE  /\ Blank \in Request
           /\ \A t \in ByPath : /\ [Blank EXCEPT !.type = t] \in Request
                                /\ t # "open" /\ t \notin ByFd
           /\ \A f \in FileSet, n \in Fdnum :
                 [Blank EXCEPT !.type = "open", !.file = f, !.fd = n] \in Request
<1>1. 0 \in Fdnum /\ 0 \in FileId
  BY SizeAssumption DEF Fdnum, FileId
<1> QED BY <1>1 DEF Blank, Request, ByPath, ByFd

\* Ids stay counted when no request to open is added and none served.
LEMMA IdsKept ==
    ASSUME TypeOK, TypeOK', IdsCount, tab' = tab, calls' >= calls, Unserved' \subseteq Unserved
    PROVE  IdsCount'
<1>1. IsFiniteSet(Unserved) /\ Cardinality(Unserved) \in Nat
  BY Finite
<1>2. Cardinality(Unserved') <= Cardinality(Unserved) /\ Cardinality(Unserved') \in Nat
  BY <1>1, FS_Subset, FS_CardinalityType
<1>3. calls \in Nat /\ calls' \in Nat
  BY SizeAssumption DEF TypeOK
<1>4. Cardinality(Unserved') <= calls'
  BY <1>1, <1>2, <1>3 DEF IdsCount
<1>5. ASSUME NEW i \in Entry
      PROVE  \E k \in 0..(calls' - Cardinality(Unserved')) : tab'[i].fileid = i + k * MAXOPEN
  <2>1. PICK k \in 0..(calls - Cardinality(Unserved)) : tab[i].fileid = i + k * MAXOPEN
    BY DEF IdsCount
  <2>2. k \in 0..(calls' - Cardinality(Unserved'))
    BY <1>1, <1>2, <1>3, <2>1
  <2> QED BY <2>1, <2>2
<1> QED BY <1>4, <1>5 DEF IdsCount

\* Nothing is lost from the counts when no client begins to open a file and no new
\* entry comes into use.
LEMMA CountsKept ==
    ASSUME TypeOK, TypeOK', RoomLeft, IdsCount, tab' = tab, calls' >= calls,
           Used' \subseteq Used, Opening' \subseteq Opening, Unserved' \subseteq Unserved
    PROVE  RoomLeft' /\ IdsCount'
<1>1. /\ IsFiniteSet(Used) /\ Cardinality(Used) \in Nat
      /\ IsFiniteSet(Opening) /\ Cardinality(Opening) \in Nat
  BY Finite
<1>2. /\ Cardinality(Used') <= Cardinality(Used) /\ Cardinality(Used') \in Nat
      /\ Cardinality(Opening') <= Cardinality(Opening) /\ Cardinality(Opening') \in Nat
  BY <1>1, FS_Subset, FS_CardinalityType
<1>3. RoomLeft'
  BY <1>1, <1>2, SizeAssumption DEF RoomLeft
<1> QED BY <1>3, IdsKept

\* A client moves on; descriptors are dropped or copied, by it alone.
LEMMA ClientMoves ==
    ASSUME StateInv, NEW c \in Client, NEW s \in ClientState,
           cl' = [cl EXCEPT ![c] = s], UNCHANGED <<srv, tab>>, calls' \in 0..MaxCalls,
           cl[c].pc \notin {"sent", "wait"}, CallSound(c)',
           NEW new \in [Fdnum -> Descriptor \cup {NONE}], fds' = [fds EXCEPT ![c] = new],
           \A n \in Fdnum : new[n] # NONE =>
               \E b \in Client, m \in Fdnum : new[n] = fds[b][m]
    PROVE  /\ StateInv' /\ Used' \subseteq Used
           /\ \A d \in Client : d # c => cl'[d] = cl[d]
           /\ cl'[c] = s
<1>0. TypeOK /\ FdsSound /\ CallsSound /\ ServesAsker /\ ReplySound
  BY DEF StateInv
<1>1. /\ cl' \in [Client -> ClientState] /\ cl'[c] = s
      /\ \A d \in Client : d # c => cl'[d] = cl[d]
  BY <1>0 DEF TypeOK, ClientState
<1>2. /\ fds' \in [Client -> [Fdnum -> Descriptor \cup {NONE}]] /\ fds'[c] = new
      /\ \A d \in Client : d # c => fds'[d] = fds[d]
  BY <1>0 DEF TypeOK, Descriptor
<1>3. TypeOK'
  BY <1>0, <1>1, <1>2 DEF TypeOK, ClientState, Descriptor
<1>4. \A d \in Client, n \in Fdnum : fds'[d][n] # NONE =>
         \E b \in Client, m \in Fdnum : fds'[d][n] = fds[b][m]
  BY <1>2
<1>5. FdsSound'
  BY <1>0, <1>4 DEF FdsSound, OpenOn
<1>6. Used' \subseteq Used
  BY <1>4 DEF Used
<1>7. CallsSound'
  <2> SUFFICES ASSUME NEW d \in Client PROVE CallSound(d)'
    BY DEF CallsSound
  <2>1. CASE d = c
    BY <2>1
  <2>2. CASE d # c
    BY <1>0, <1>1, <1>2, <2>2 DEF CallsSound, CallSound, Names
  <2> QED BY <2>1, <2>2
<1>8. ServesAsker'
  BY <1>0, <1>1 DEF ServesAsker
<1>9. ReplySound'
  BY <1>0 DEF ReplySound, OpenOn
<1> QED BY <1>1, <1>3, <1>5, <1>6, <1>7, <1>8, <1>9 DEF StateInv

\* The same, with the counts, when the client does not begin to open a file.
LEMMA ClientMovesOn ==
    ASSUME IInv, NEW c \in Client, NEW s \in ClientState,
           cl' = [cl EXCEPT ![c] = s], UNCHANGED <<srv, tab>>, calls' \in 0..MaxCalls,
           cl[c].pc \notin {"sent", "wait"}, CallSound(c)',
           NEW new \in [Fdnum -> Descriptor \cup {NONE}], fds' = [fds EXCEPT ![c] = new],
           \A n \in Fdnum : new[n] # NONE =>
               \E b \in Client, m \in Fdnum : new[n] = fds[b][m],
           calls' >= calls, s.pc \notin Asking \/ s.req.type # "open"
    PROVE  IInv'
<1>1. StateInv /\ RoomLeft /\ IdsCount /\ TypeOK
  BY DEF IInv, StateInv
<1>2. /\ StateInv' /\ Used' \subseteq Used /\ cl'[c] = s
      /\ \A d \in Client : d # c => cl'[d] = cl[d]
  BY <1>1, ClientMoves, ZenonT(60)
<1>3. Opening' \subseteq Opening /\ Unserved' \subseteq Unserved
  BY <1>2 DEF Opening, Unserved
<1>4. TypeOK'
  BY <1>2 DEF StateInv
<1>5. RoomLeft' /\ IdsCount'
  BY <1>1, <1>2, <1>3, <1>4, CountsKept
<1> QED BY <1>2, <1>5 DEF IInv

\* A client leaves the library, or has not begun to use it.
LEMMA ClientReturns ==
    ASSUME IInv, NEW c \in Client, NEW s \in ClientState,
           cl' = [cl EXCEPT ![c] = s], UNCHANGED <<srv, tab>>, calls' \in 0..MaxCalls,
           cl[c].pc \notin {"sent", "wait"},
           s.pc \in {"new", "user", "gone"}, s.req.type # "open" \/ s.req.file \in FileSet,
           NEW new \in [Fdnum -> Descriptor \cup {NONE}], fds' = [fds EXCEPT ![c] = new],
           \A n \in Fdnum : new[n] # NONE =>
               \E b \in Client, m \in Fdnum : new[n] = fds[b][m],
           calls' >= calls
    PROVE  IInv'
<1>1. cl'[c] = s
  BY DEF IInv, StateInv, TypeOK
<1>2. CallSound(c)'
  BY <1>1 DEF CallSound, Asking
<1> QED BY <1>2, ClientMovesOn DEF Asking

\* A client that keeps its descriptors.
LEMMA SameFds ==
    ASSUME TypeOK, NEW c \in Client
    PROVE  /\ fds[c] \in [Fdnum -> Descriptor \cup {NONE}] /\ fds = [fds EXCEPT ![c] = fds[c]]
           /\ \A n \in Fdnum : fds[c][n] # NONE =>
                  \E b \in Client, m \in Fdnum : fds[c][n] = fds[b][m]
  BY DEF TypeOK, Descriptor

\* What a client is when it begins a call.
LEMMA BeginFacts ==
    ASSUME TypeOK, NEW c \in Client, NEW fn \in {"open", "close", "other"},
           NEW req \in Request, NEW from \in Fdnum \cup {NONE}, Begin(c, fn, req, from)
    PROVE  \E s \in ClientState :
               /\ cl' = [cl EXCEPT ![c] = s]
               /\ s.pc = "send" /\ s.fn = fn /\ s.req = req /\ s.from = from
               /\ UNCHANGED <<srv, tab, fds>>
<1> DEFINE s == [cl[c] EXCEPT !.pc = "send", !.fn = fn, !.req = req, !.from = from]
<1>1. cl[c] \in ClientState
  BY DEF TypeOK, ClientState
<1>2. s \in ClientState /\ s.pc = "send" /\ s.fn = fn /\ s.req = req /\ s.from = from
  BY <1>1 DEF ClientState
<1>3. cl' = [cl EXCEPT ![c] = s] /\ UNCHANGED <<srv, tab, fds>>
  BY DEF Begin
<1> QED BY <1>2, <1>3

\* A client begins a request that does not open a file.
LEMMA ClientBegins ==
    ASSUME IInv, NEW c \in Client, NEW fn \in {"open", "close", "other"},
           NEW req \in Request, NEW from \in Fdnum \cup {NONE}, Begin(c, fn, req, from),
           cl[c].pc \notin {"sent", "wait"}, req.type # "open",
           req.type \in ByFd => Names(c, req), fn = "close" => req.type \in {"dirty", "close"},
           calls' \in 0..MaxCalls, calls' >= calls
    PROVE  IInv'
<1>0. TypeOK
  BY DEF IInv, StateInv
<1>1. PICK s \in ClientState :
          /\ cl' = [cl EXCEPT ![c] = s]
          /\ s.pc = "send" /\ s.fn = fn /\ s.req = req /\ s.from = from
          /\ UNCHANGED <<srv, tab, fds>>
  BY <1>0, BeginFacts
<1>2. cl'[c] = s
  BY <1>0, <1>1 DEF TypeOK
<1>3. CallSound(c)'
  BY <1>1, <1>2 DEF CallSound, Names, ByFd, Asking
<1>4. /\ fds[c] \in [Fdnum -> Descriptor \cup {NONE}] /\ fds' = [fds EXCEPT ![c] = fds[c]]
      /\ \A n \in Fdnum : fds[c][n] # NONE =>
             \E b \in Client, m \in Fdnum : fds[c][n] = fds[b][m]
  BY <1>0, <1>1, SameFds
<1> QED BY <1>1, <1>3, <1>4, ClientMovesOn

\* A client begins to open a file: there is an entry left for it.
LEMMA ClientOpens ==
    ASSUME IInv, AllRules \subseteq Discipline, IdSign # 0,
           NEW c \in Client, NEW f \in FileSet, open(c, f)
    PROVE  IInv'
<1>0. TypeOK /\ FdsSound /\ StateInv /\ RoomLeft /\ IdsCount
  BY DEF IInv, StateInv
<1> DEFINE free == {n \in Fdnum \ {MAXFD - 1} : fds[c][n] = NONE}
           req == [Blank EXCEPT !.type = "open", !.file = f, !.fd = Min(free)]
<1>1. /\ cl[c].pc = "user" /\ calls < MaxCalls /\ calls' = calls + 1 /\ Room
      /\ free # {} /\ Begin(c, "open", req, NONE)
  BY DEF open, MayCall, Ask, AllRules
<1>2. Min(free) \in Fdnum
  <2>1. free \in SUBSET Nat
    BY DEF Fdnum
  <2> HIDE DEF free
  <2>2. Min(free) \in free
    BY <1>1, <2>1, LeastElement
  <2> QED BY <2>2 DEF free
<1> HIDE DEF free
<1>3. req \in Request /\ req.type = "open" /\ req.file = f
  BY <1>2, RequestByPath DEF Blank
<1> HIDE DEF req
<1>4. PICK s \in ClientState :
          /\ cl' = [cl EXCEPT ![c] = s]
          /\ s.pc = "send" /\ s.fn = "open" /\ s.req = req
          /\ UNCHANGED <<srv, tab, fds>>
  BY <1>0, <1>1, <1>3, BeginFacts
<1>5. cl'[c] = s
  BY <1>0, <1>4 DEF TypeOK
<1>6. CallSound(c)'
  BY <1>3, <1>4, <1>5 DEF CallSound, ByFd, Asking
<1>7. calls' \in 0..MaxCalls /\ calls \in Nat
  BY <1>0, <1>1, SizeAssumption DEF TypeOK
<1>8. /\ StateInv' /\ Used' \subseteq Used
      /\ \A d \in Client : d # c => cl'[d] = cl[d]
  <2>1. /\ fds[c] \in [Fdnum -> Descriptor \cup {NONE}] /\ fds' = [fds EXCEPT ![c] = fds[c]]
        /\ \A n \in Fdnum : fds[c][n] # NONE =>
               \E b \in Client, m \in Fdnum : fds[c][n] = fds[b][m]
    BY <1>0, <1>4, SameFds
  <2> QED BY <1>0, <1>1, <1>4, <1>6, <1>7, <2>1, ClientMoves, ZenonT(60)
<1>9. c \notin Opening /\ Opening' = Opening \cup {c} /\ Used' = Used
  BY <1>1, <1>3, <1>4, <1>5, <1>8 DEF Opening, Used, Asking
<1>10. Unserved' \subseteq Unserved \cup {c} /\ c \notin Unserved
  BY <1>4, <1>9 DEF Unserved
<1>11. Cardinality(Used) + Cardinality(Opening) < MAXOPEN
  <2>1. Used = {i \in Entry : pageref(i) > 1}
    <3>1. \A i \in Entry : i \in Used <=> pageref(i) > 1
      BY <1>0, PagerefTells
    <3> QED BY <1>0, <3>1, Finite
  <2>2. Opening = {d \in Client : cl[d].pc \in {"send", "sent", "wait"}
                                  /\ cl[d].req.type = "open"}
    BY DEF Opening, Asking
  <2> QED BY <1>1, <2>1, <2>2 DEF Room
<1>12. /\ IsFiniteSet(Used) /\ Cardinality(Used) \in Nat
       /\ IsFiniteSet(Opening) /\ Cardinality(Opening) \in Nat
       /\ IsFiniteSet(Unserved) /\ Cardinality(Unserved) \in Nat
  BY <1>0, Finite
<1>13. Cardinality(Opening') = Cardinality(Opening) + 1
  BY <1>9, <1>12, FS_AddElement
<1>14. Cardinality(Unserved') <= Cardinality(Unserved) + 1 /\ Cardinality(Unserved') \in Nat
  <2>1. /\ IsFiniteSet(Unserved \cup {c})
        /\ Cardinality(Unserved \cup {c}) = Cardinality(Unserved) + 1
    BY <1>10, <1>12, FS_AddElement
  <2> QED BY <1>10, <2>1, FS_Subset, FS_CardinalityType
<1>15. RoomLeft'
  BY <1>9, <1>11, <1>12, <1>13, SizeAssumption DEF RoomLeft
<1>16. IdsCount'
  <2>1. Cardinality(Unserved') <= calls'
    BY <1>0, <1>1, <1>7, <1>12, <1>14 DEF IdsCount
  <2>2. ASSUME NEW i \in Entry
        PROVE  \E k \in 0..(calls' - Cardinality(Unserved')) : tab'[i].fileid = i + k * MAXOPEN
    <3>1. PICK k \in 0..(calls - Cardinality(Unserved)) : tab[i].fileid = i + k * MAXOPEN
      BY <1>0 DEF IdsCount
    <3>2. k \in 0..(calls' - Cardinality(Unserved'))
      BY <1>1, <1>7, <1>12, <1>14, <3>1
    <3> QED BY <1>4, <3>1, <3>2
  <2> QED BY <2>1, <2>2 DEF IdsCount
<1> QED BY <1>8, <1>15, <1>16 DEF IInv

\* The calls of user code other than open.
LEMMA ClientCalls ==
    ASSUME IInv, IdSign # 0, NEW c \in Client,
           \/ \E n \in Fdnum : close(c, n) \/ \E m \in Fdnum : dup(c, n, m)
           \/ other(c)
           \/ \E d \in Client : fork(c, d)
           \/ exit(c)
    PROVE  IInv'
<1>0. TypeOK /\ FdsSound
  BY DEF IInv, StateInv
<1>1. calls \in 0..MaxCalls /\ (calls < MaxCalls => calls + 1 \in 0..MaxCalls)
  BY <1>0, SizeAssumption DEF TypeOK
<1>2. cl[c] \in ClientState /\ cl[c].req \in Request
  BY <1>0 DEF TypeOK, ClientState
<1>3. \A d \in Client : cl[d].req.type # "open" \/ cl[d].req.file \in FileSet
  BY DEF IInv, StateInv, CallsSound, CallSound
<1>4. \A d \in Client :
         /\ fds[d] \in [Fdnum -> Descriptor \cup {NONE}] /\ fds = [fds EXCEPT ![d] = fds[d]]
         /\ \A n \in Fdnum : fds[d][n] # NONE =>
                \E b \in Client, m \in Fdnum : fds[d][n] = fds[b][m]
  BY <1>0, SameFds
<1>5. ASSUME NEW n \in Fdnum, close(c, n) PROVE IInv'
  <2>1. cl[c].pc = "user" /\ calls' = calls + 1 /\ calls < MaxCalls /\ n \in Opened(c)
        /\ Begin(c, "close", ById("dirty", c, n), NONE)
    BY <1>5 DEF close, MayCall
  <2>2. /\ ById("dirty", c, n) \in Request /\ ById("dirty", c, n).type = "dirty"
        /\ Names(c, ById("dirty", c, n))
    BY <1>0, <2>1, RequestById DEF ByFd
  <2> QED BY <1>1, <2>1, <2>2, ClientBegins
<1>6. ASSUME NEW n \in Fdnum, NEW m \in Fdnum, dup(c, n, m) PROVE IInv'
  <2>1. cl[c].pc = "user" /\ calls' = calls + 1 /\ calls < MaxCalls /\ n \in Opened(c)
    BY <1>6 DEF dup, MayCall
  <2>2. CASE m \in Opened(c)
    <3>1. Begin(c, "close", ById("dirty", c, m), n)
      BY <1>6, <2>2 DEF dup
    <3>2. /\ ById("dirty", c, m) \in Request /\ ById("dirty", c, m).type = "dirty"
          /\ Names(c, ById("dirty", c, m))
      BY <1>0, <2>2, RequestById DEF ByFd
    <3> QED BY <1>1, <2>1, <3>1, <3>2, ClientBegins
  <2>3. CASE m \notin Opened(c)
    <3> DEFINE new == [fds[c] EXCEPT ![m] = fds[c][n]]
    <3>1. fds' = [fds EXCEPT ![c] = new] /\ UNCHANGED <<srv, tab, cl>>
      BY <1>6, <2>3 DEF dup
    <3>2. new \in [Fdnum -> Descriptor \cup {NONE}]
      BY <1>4
    <3>3. \A k \in Fdnum : new[k] # NONE => \E b \in Client, j \in Fdnum : new[k] = fds[b][j]
      BY <1>4
    <3>4. cl' = [cl EXCEPT ![c] = cl[c]]
      BY <1>0, <3>1 DEF TypeOK
    <3> HIDE DEF new
    <3>5. cl[c].req.type # "open" \/ cl[c].req.file \in FileSet
      BY <1>3
    <3>6. calls' \in 0..MaxCalls /\ calls' >= calls
      BY <1>1, <2>1
    <3>7. cl[c].pc \notin {"sent", "wait"} /\ cl[c].pc \in {"new", "user", "gone"}
      BY <2>1
    <3> QED BY <1>2, <3>1, <3>2, <3>3, <3>4, <3>5, <3>6, <3>7, ClientReturns
  <2> QED BY <2>2, <2>3
<1>7. ASSUME other(c) PROVE IInv'
  <2>1. cl[c].pc = "user" /\ calls' = calls + 1 /\ calls < MaxCalls
    BY <1>7 DEF other, MayCall
  <2>2. ASSUME NEW t \in ByPath, Begin(c, "other", [Blank EXCEPT !.type = t], NONE)
        PROVE  IInv'
    <3> DEFINE req == [Blank EXCEPT !.type = t]
    <3>1. req \in Request /\ req.type # "open" /\ req.type \notin ByFd
      BY RequestByPath DEF Blank
    <3>2. Begin(c, "other", req, NONE)
      BY <2>2
    <3> HIDE DEF req
    <3>3. calls' \in 0..MaxCalls /\ calls' >= calls /\ cl[c].pc \notin {"sent", "wait"}
      BY <1>1, <2>1
    <3> QED BY <3>1, <3>2, <3>3, ClientBegins
  <2>3. ASSUME NEW n \in Opened(c), Begin(c, "other", ById("set_size", c, n), NONE)
        PROVE  IInv'
    <3>1. /\ ById("set_size", c, n) \in Request /\ ById("set_size", c, n).type = "set_size"
          /\ Names(c, ById("set_size", c, n))
      BY <1>0, <2>3, RequestById DEF ByFd
    <3> QED BY <1>1, <2>1, <2>3, <3>1, ClientBegins
  <2> QED BY <1>7, <2>2, <2>3 DEF other
<1>8. ASSUME NEW d \in Client, fork(c, d) PROVE IInv'
  <2> DEFINE s == [cl[d] EXCEPT !.pc = "user"]
  <2>1. /\ calls' = calls + 1 /\ calls < MaxCalls /\ cl[d].pc = "new"
        /\ cl' = [cl EXCEPT ![d] = s] /\ fds' = [fds EXCEPT ![d] = fds[c]]
        /\ UNCHANGED <<srv, tab>>
    BY <1>8 DEF fork, MayCall
  <2>2. s \in ClientState /\ s.pc = "user" /\ s.req = cl[d].req
    BY <1>0, ZenonT(60) DEF TypeOK, ClientState
  <2> HIDE DEF s
  <2>3. s.req.type # "open" \/ s.req.file \in FileSet
    BY <1>3, <2>2
  <2>4. calls' \in 0..MaxCalls /\ calls' >= calls /\ cl[d].pc \notin {"sent", "wait"}
    BY <1>1, <2>1
  <2>5. /\ fds[c] \in [Fdnum -> Descriptor \cup {NONE}]
        /\ \A n \in Fdnum : fds[c][n] # NONE =>
               \E b \in Client, m \in Fdnum : fds[c][n] = fds[b][m]
    BY <1>4
  <2> QED BY <2>1, <2>2, <2>3, <2>4, <2>5, ClientReturns
<1>9. ASSUME exit(c) PROVE IInv'
  <2> DEFINE s == [cl[c] EXCEPT !.leaving = TRUE]
  <2>1. /\ cl[c].pc = "user" /\ cl' = [cl EXCEPT ![c] = s] /\ UNCHANGED <<srv, tab, fds, calls>>
    BY <1>9 DEF exit
  <2>2. s \in ClientState /\ s.pc = "user" /\ s.req = cl[c].req
    BY <1>2, <2>1 DEF ClientState
  <2> HIDE DEF s
  <2>3. s.req.type # "open" \/ s.req.file \in FileSet
    BY <1>3, <2>2
  <2>4. calls' \in 0..MaxCalls /\ calls' >= calls /\ cl[c].pc \notin {"sent", "wait"}
    BY <1>1, <2>1
  <2>5. /\ fds[c] \in [Fdnum -> Descriptor \cup {NONE}] /\ fds' = [fds EXCEPT ![c] = fds[c]]
        /\ \A n \in Fdnum : fds[c][n] # NONE =>
               \E b \in Client, m \in Fdnum : fds[c][n] = fds[b][m]
    BY <1>4, <2>1
  <2> QED BY <2>1, <2>2, <2>3, <2>4, <2>5, ClientReturns
<1> QED BY <1>5, <1>6, <1>7, <1>8, <1>9

\* What a call does between and after its requests.
LEMMA ClientContinues ==
    ASSUME IInv, IdSign # 0, NEW c \in Client,
           open_step(c) \/ close_step(c) \/ other_step(c) \/ exit_step(c)
    PROVE  IInv'
<1>0. TypeOK /\ FdsSound /\ CallSound(c)
  BY DEF IInv, StateInv, CallsSound
<1>1. calls' = calls /\ calls \in 0..MaxCalls /\ calls' >= calls /\ calls' \in 0..MaxCalls
  BY <1>0, SizeAssumption DEF TypeOK, open_step, close_step, other_step, exit_step
<1>2. cl[c] \in ClientState /\ cl[c].req \in Request /\ cl[c].req.fd \in Fdnum
      /\ cl[c].from \in Fdnum \cup {NONE}
  BY <1>0 DEF TypeOK, ClientState, Request
<1>3. /\ fds[c] \in [Fdnum -> Descriptor \cup {NONE}] /\ fds = [fds EXCEPT ![c] = fds[c]]
      /\ \A n \in Fdnum : fds[c][n] # NONE =>
             \E b \in Client, m \in Fdnum : fds[c][n] = fds[b][m]
  BY <1>0, SameFds
<1>r. ASSUME Return(c)
      PROVE  \E s \in ClientState : /\ cl' = [cl EXCEPT ![c] = s]
                                    /\ s.pc = "user" /\ s.req = Blank
  <2> DEFINE s == [Outside EXCEPT !.leaving = cl[c].leaving]
  <2>1. s \in ClientState /\ s.pc = "user" /\ s.req = Blank
    BY <1>2, RequestByPath DEF Outside, ClientState
  <2> QED BY <1>r, <2>1 DEF Return
<1>b. Blank.type # "open"
  BY DEF Blank
<1>4. ASSUME open_step(c) PROVE IInv'
  <2>1. cl[c].pc = "got"
    BY <1>4 DEF open_step
  <2>2. CASE cl[c].r = "ok" /\ cl[c].req.type = "open"
             /\ Begin(c, "open", ById("map", c, cl[c].req.fd), NONE)
    <3>1. cl[c].req.fd \in Opened(c)
      BY <1>0, <1>2, <2>1, <2>2 DEF CallSound, Opened
    <3> DEFINE req == ById("map", c, cl[c].req.fd)
    <3>2. req \in Request /\ req.type = "map" /\ Names(c, req)
      BY <1>0, <3>1, RequestById DEF ByFd
    <3> HIDE DEF req
    <3>3. Begin(c, "open", req, NONE)
      BY <2>2 DEF req
    <3> QED BY <1>1, <2>1, <3>2, <3>3, ClientBegins
  <2>3. CASE Return(c) /\ UNCHANGED <<srv, tab, fds>>
    <3>1. PICK s \in ClientState : cl' = [cl EXCEPT ![c] = s] /\ s.pc = "user" /\ s.req = Blank
      BY <1>r, <2>3
    <3> QED BY <1>1, <1>3, <1>b, <2>1, <2>3, <3>1, ClientReturns
  <2> QED BY <1>4, <2>2, <2>3 DEF open_step
<1>5. ASSUME close_step(c) PROVE IInv'
  <2>1. cl[c].pc = "got" /\ cl[c].fn = "close"
    BY <1>5 DEF close_step
  <2>2. CASE cl[c].req.type = "dirty"
             /\ Begin(c, "close", [cl[c].req EXCEPT !.type = "close"], cl[c].from)
    <3> DEFINE req == [cl[c].req EXCEPT !.type = "close"]
    <3>1. Names(c, cl[c].req)
      BY <1>0, <2>1 DEF CallSound
    <3>2. req \in Request /\ req.type = "close" /\ req.fd = cl[c].req.fd
          /\ req.id = cl[c].req.id /\ req.file = cl[c].req.file
      BY <1>2 DEF Request, ByFd
    <3> HIDE DEF req
    <3>3. Names(c, req)
      BY <3>1, <3>2 DEF Names
    <3>4. Begin(c, "close", req, cl[c].from)
      BY <2>2 DEF req
    <3> QED BY <1>1, <1>2, <2>1, <3>2, <3>3, <3>4, ClientBegins
  <2>3. ASSUME Return(c), UNCHANGED <<srv, tab>>,
               fds' = [fds EXCEPT ![c][cl[c].req.fd] =
                         IF cl[c].from = NONE THEN NONE ELSE fds[c][cl[c].from]]
        PROVE  IInv'
    <3> DEFINE new == [fds[c] EXCEPT ![cl[c].req.fd] =
                         IF cl[c].from = NONE THEN NONE ELSE fds[c][cl[c].from]]
    <3>1. PICK s \in ClientState : cl' = [cl EXCEPT ![c] = s] /\ s.pc = "user" /\ s.req = Blank
      BY <1>r, <2>3
    <3>2. fds' = [fds EXCEPT ![c] = new]
      BY <2>3
    <3>3. new \in [Fdnum -> Descriptor \cup {NONE}]
      BY <1>2, <1>3
    <3>4. \A n \in Fdnum : new[n] # NONE => \E b \in Client, m \in Fdnum : new[n] = fds[b][m]
      <4> SUFFICES ASSUME NEW n \in Fdnum, new[n] # NONE
                   PROVE  \E b \in Client, m \in Fdnum : new[n] = fds[b][m]
        OBVIOUS
      <4>1. CASE n # cl[c].req.fd
        BY <1>3, <4>1
      <4>2. CASE n = cl[c].req.fd
        BY <1>2, <1>3, <4>2
      <4> QED BY <4>1, <4>2
    <3> HIDE DEF new
    <3> QED BY <1>1, <1>b, <2>1, <2>3, <3>1, <3>2, <3>3, <3>4, ClientReturns
  <2> QED BY <1>5, <2>2, <2>3 DEF close_step
<1>6. ASSUME other_step(c) PROVE IInv'
  <2>1. cl[c].pc = "got" /\ Return(c) /\ UNCHANGED <<srv, tab, fds>>
    BY <1>6 DEF other_step
  <2>2. PICK s \in ClientState : cl' = [cl EXCEPT ![c] = s] /\ s.pc = "user" /\ s.req = Blank
    BY <1>r, <2>1
  <2> QED BY <1>1, <1>3, <1>b, <2>1, <2>2, ClientReturns
<1>7. ASSUME exit_step(c) PROVE IInv'
  <2>1. cl[c].pc = "user"
    BY <1>7 DEF exit_step
  <2>2. CASE Opened(c) # {}
    <3>1. Min(Opened(c)) \in Opened(c)
      <4>1. Opened(c) \in SUBSET Nat
        BY DEF Opened, Fdnum
      <4> QED BY <2>2, <4>1, LeastElement
    <3> DEFINE n == Min(Opened(c))
    <3>2. Begin(c, "close", ById("dirty", c, n), NONE)
      BY <1>7, <2>2 DEF exit_step
    <3> HIDE DEF n
    <3>3. n \in Opened(c)
      BY <3>1 DEF n
    <3>4. /\ ById("dirty", c, n) \in Request /\ ById("dirty", c, n).type = "dirty"
          /\ Names(c, ById("dirty", c, n))
      BY <1>0, <3>3, RequestById DEF ByFd
    <3> QED BY <1>1, <2>1, <3>2, <3>4, ClientBegins
  <2>3. CASE ~(Opened(c) # {})
    <3> DEFINE s == [cl[c] EXCEPT !.pc = "gone"]
    <3>1. cl' = [cl EXCEPT ![c] = s] /\ UNCHANGED <<srv, tab, fds>>
      BY <1>7, <2>3 DEF exit_step
    <3>2. s \in ClientState /\ s.pc = "gone" /\ s.req = cl[c].req
      BY <1>2 DEF ClientState
    <3> HIDE DEF s
    <3>3. s.req.type # "open" \/ s.req.file \in FileSet
      BY <1>0, <3>2 DEF CallSound
    <3> QED BY <1>1, <1>3, <2>1, <3>1, <3>2, <3>3, ClientReturns
  <2> QED BY <2>2, <2>3
<1> QED BY <1>4, <1>5, <1>6, <1>7

-----------------------------------------------------------------------------
(* Steps of the server, and those that hand it a request.                  *)

ServerState == [pc : {"recv", "serve", "reply", "loop", "panic"}, whom : Client \cup {NONE},
                req : Request, out : Seq(Answer)]

\* The request is sent, and the answer awaited.
LEMMA ClientAsks ==
    ASSUME IInv, "tables" \in Discipline, NEW c \in Client, ipc_send(c) \/ ipc_recv(c)
    PROVE  IInv'
<1>0. /\ TypeOK /\ FdsSound /\ CallsSound /\ ServesAsker /\ ReplySound
      /\ RoomLeft /\ IdsCount
  BY DEF IInv, StateInv
<1>1. PICK pc \in {"sent", "wait"} :
          /\ cl' = [cl EXCEPT ![c].pc = pc] /\ UNCHANGED <<tab, fds, calls>>
          /\ cl[c].pc \in {"send", "sent"}
  BY DEF ipc_send, ipc_recv
<1>2. /\ cl' \in [Client -> ClientState]
      /\ cl'[c].pc = pc /\ cl'[c].fn = cl[c].fn /\ cl'[c].req = cl[c].req
      /\ \A d \in Client : d # c => cl'[d] = cl[d]
  BY <1>0, <1>1, ZenonT(60) DEF TypeOK, ClientState
<1>3. \/ /\ srv' = [srv EXCEPT !.pc = "serve", !.whom = c, !.req = cl[c].req]
         /\ srv.pc = "recv" /\ pc = "sent"
      \/ srv' = srv
  <2>1. CASE ipc_send(c)
    <3>1. cl'[c].pc = "sent"
      BY <1>0, <2>1 DEF ipc_send, TypeOK
    <3> QED BY <1>2, <2>1, <3>1 DEF ipc_send
  <2>2. CASE ipc_recv(c)
    BY <2>2 DEF ipc_recv
  <2> QED BY <2>1, <2>2
<1>4. srv \in ServerState /\ srv' \in ServerState /\ srv'.out = srv.out
      /\ (srv' = srv \/ /\ srv'.pc = "serve" /\ srv'.whom = c /\ srv'.req = cl[c].req
                        /\ srv.pc = "recv")
  <2>1. srv \in ServerState /\ cl[c].req \in Request
    BY <1>0 DEF TypeOK, ServerState
  <2> QED BY <1>3, <2>1 DEF ServerState
<1>5. TypeOK'
  BY <1>0, <1>1, <1>2, <1>4 DEF TypeOK, ServerState, ClientState
<1>6. FdsSound' /\ Used' = Used
  BY <1>0, <1>1 DEF FdsSound, OpenOn, Used
<1>7. CallsSound'
  BY <1>0, <1>1, <1>2, ZenonT(60) DEF CallsSound, CallSound, Names, Asking
<1>8. ServesAsker'
  BY <1>0, <1>2, <1>4 DEF ServesAsker
<1>9. ReplySound'
  BY <1>0, <1>1, <1>4 DEF ReplySound, OpenOn
<1>10. Opening' \subseteq Opening
  BY <1>1, <1>2 DEF Opening, Asking
<1>11. Unserved' \subseteq Unserved
  BY <1>4, <1>10 DEF Unserved
<1>12. calls' >= calls
  BY <1>0, <1>1, SizeAssumption DEF TypeOK
<1>13. RoomLeft' /\ IdsCount'
  BY <1>0, <1>1, <1>5, <1>6, <1>10, <1>11, <1>12, CountsKept
<1> QED BY <1>5, <1>6, <1>7, <1>8, <1>9, <1>13 DEF IInv, StateInv

\* A handler leaves one answer.
LEMMA AnswerFacts ==
    ASSUME TypeOK, srv.pc = "serve", NEW a \in Answer, Answers(<<a>>)
    PROVE  /\ srv' \in ServerState /\ Len(srv'.out) <= 2
           /\ srv'.pc = "reply" /\ srv'.whom = srv.whom /\ srv'.req = srv.req
           /\ srv'.out = <<a>>
<1>1. srv \in ServerState
  BY DEF TypeOK, ServerState
<1>0. <<a>> \in Seq(Answer) /\ Len(<<a>>) = 1
  OBVIOUS
<1>2. PICK out : out = <<a>> /\ out \in Seq(Answer) /\ Len(out) = 1
  BY <1>0, Zenon
<1>3. srv' = [srv EXCEPT !.pc = "reply", !.out = out]
  BY <1>2 DEF Answers
<1>4. /\ srv' \in ServerState
      /\ srv'.pc = "reply" /\ srv'.whom = srv.whom /\ srv'.req = srv.req /\ srv'.out = out
  BY <1>1, <1>2, <1>3 DEF ServerState
<1> QED BY <1>2, <1>4

\* Requests that are not to open a file change nothing but the server.
LEMMA ServerHandles ==
    ASSUME IInv, serve_path \/ serve_fd
    PROVE  IInv'
<1>0. /\ TypeOK /\ FdsSound /\ CallsSound /\ ServesAsker /\ ReplySound
      /\ RoomLeft /\ IdsCount
  BY DEF IInv, StateInv
<1>1. srv.pc = "serve" /\ srv.req.type # "open" /\ UNCHANGED <<tab, cl, fds, calls>>
  BY DEF serve_path, serve_fd, Handles, ByPath, ByFd
<1>2. PICK a \in Answer : a.page = NONE /\ Answers(<<a>>)
  <2>1. Ok \in Answer /\ Error \in Answer /\ Ok.page = NONE /\ Error.page = NONE
    BY DEF Ok, Error, Answer
  <2>2. CASE serve_path
    BY <2>1, <2>2 DEF serve_path
  <2>3. CASE serve_fd
    BY <2>1, <2>3 DEF serve_fd
  <2> QED BY <2>2, <2>3
<1>3. /\ srv' \in ServerState /\ Len(srv'.out) <= 2
      /\ srv'.pc = "reply" /\ srv'.whom = srv.whom /\ srv'.req = srv.req
      /\ srv'.out = <<a>>
  BY <1>0, <1>1, <1>2, AnswerFacts
<1>4. TypeOK'
  BY <1>0, <1>1, <1>3 DEF TypeOK, ServerState
<1>5. FdsSound' /\ CallsSound' /\ Used' = Used /\ Opening' = Opening
  BY <1>0, <1>1 DEF FdsSound, OpenOn, CallsSound, CallSound, Names, Used, Opening
<1>6. ServesAsker'
  BY <1>0, <1>1, <1>3 DEF ServesAsker
<1>7. ReplySound'
  BY <1>1, <1>2, <1>3 DEF ReplySound
<1>8. Unserved' \subseteq Unserved
  BY <1>1, <1>5 DEF Unserved
<1>9. calls' >= calls
  BY <1>0, <1>1, SizeAssumption DEF TypeOK
<1>10. RoomLeft' /\ IdsCount'
  BY <1>0, <1>1, <1>4, <1>5, <1>8, <1>9, CountsKept
<1> QED BY <1>4, <1>5, <1>6, <1>7, <1>10 DEF IInv, StateInv

\* The loop of serve goes back to its beginning.
LEMMA ServerAwaits ==
    ASSUME IInv, IdSign # 0, server_recv
    PROVE  IInv'
<1>0. /\ TypeOK /\ FdsSound /\ CallsSound /\ ServesAsker /\ ReplySound
      /\ RoomLeft /\ IdsCount
  BY DEF IInv, StateInv
<1>1. srv.pc = "loop" /\ srv' = Waiting /\ UNCHANGED <<tab, cl, fds, calls>>
  BY DEF server_recv
<1>2. /\ srv'.pc = "recv" /\ srv' \in ServerState /\ Len(srv'.out) <= 2
  <2>1. Blank \in Request
    BY RequestByPath
  <2>2. <<>> \in Seq(Answer) /\ Len(<<>>) = 0
    OBVIOUS
  <2> QED BY <1>1, <2>1, <2>2 DEF Waiting, ServerState
<1>3. TypeOK'
  BY <1>0, <1>1, <1>2 DEF TypeOK, ServerState
<1>4. FdsSound' /\ CallsSound' /\ Used' = Used /\ Opening' = Opening
  BY <1>0, <1>1 DEF FdsSound, OpenOn, CallsSound, CallSound, Names, Used, Opening
<1>5. ServesAsker' /\ ReplySound'
  BY <1>2 DEF ServesAsker, ReplySound
<1>6. Unserved' \subseteq Unserved
  BY <1>1, <1>2, <1>4 DEF Unserved
<1>7. calls' >= calls
  BY <1>0, <1>1, SizeAssumption DEF TypeOK
<1>8. RoomLeft' /\ IdsCount'
  BY <1>0, <1>1, <1>3, <1>4, <1>6, <1>7, CountsKept
<1> QED BY <1>3, <1>4, <1>5, <1>8 DEF IInv, StateInv

\* The answer reaches the client, and with it the page of the file it has opened.
LEMMA ServerReplies ==
    ASSUME IInv, "tables" \in Discipline, server_reply
    PROVE  IInv'
<1>0. /\ TypeOK /\ FdsSound /\ CallsSound /\ ServesAsker /\ ReplySound
      /\ RoomLeft /\ IdsCount
  BY DEF IInv, StateInv
<1>1. srv.pc = "reply" /\ srv \in ServerState
  BY <1>0 DEF server_reply, TypeOK, ServerState
<1>2. PICK c \in Client : c = srv.whom /\ cl[c].pc \in {"sent", "wait"} /\ cl[c].req = srv.req
  BY <1>0, <1>1 DEF ServesAsker
<1>3. PICK a \in Answer :
          /\ srv.out = <<a>>
          /\ srv.req.type # "open" => a.page = NONE
          /\ srv.req.type = "open" /\ a.r = "ok" => a.page # NONE
          /\ a.page # NONE => OpenOn(a.page, srv.req.file)
  BY <1>0, <1>1 DEF ReplySound
<1>4. Head(srv.out) = a /\ Tail(srv.out) = <<>>
  BY <1>3
<1> DEFINE s == [cl[c] EXCEPT !.pc = "got", !.r = a.r]
           d == [e |-> a.page, id |-> tab[a.page].ffid, file |-> cl[c].req.file]
<1>5. /\ cl[c].pc = "wait" /\ cl' = [cl EXCEPT ![c] = s]
      /\ fds' = IF a.page = NONE THEN fds ELSE [fds EXCEPT ![c][cl[c].req.fd] = d]
      /\ srv' = [srv EXCEPT !.pc = "loop", !.out = <<>>]
      /\ UNCHANGED <<tab, calls>>
  <2>1. cl[c].pc # "gone"
    BY <1>2
  <2> QED BY <1>2, <1>4, <2>1 DEF server_reply
<1>6. cl[c] \in ClientState /\ cl[c].req \in Request /\ cl[c].req.fd \in Fdnum
      /\ a.r \in {"ok", "error"} /\ a.page \in Entry \cup {NONE}
  BY <1>0 DEF TypeOK, ClientState, Request, Answer
<1>7. s \in ClientState /\ s.pc = "got" /\ s.r = a.r /\ s.req = cl[c].req /\ s.fn = cl[c].fn
  BY <1>6 DEF ClientState
<1>8. a.page # NONE => /\ d \in Descriptor /\ d # NONE /\ cl[c].req.type = "open"
                       /\ a.page \in Entry
  <2> SUFFICES ASSUME a.page # NONE
               PROVE  d \in Descriptor /\ d # NONE /\ cl[c].req.type = "open" /\ a.page \in Entry
    OBVIOUS
  <2>1. cl[c].req.type = "open" /\ a.page \in Entry
    BY <1>2, <1>3, <1>6
  <2>2. cl[c].req.file \in FileSet
    BY <1>0, <2>1 DEF CallsSound, CallSound
  <2>3. tab[a.page].ffid \in FileId
    BY <1>0, <2>1 DEF TypeOK
  <2>4. d \in Descriptor
    BY <2>1, <2>2, <2>3 DEF Descriptor
  <2> QED BY <2>1, <2>4, NoneAssumption
<1>o. a.page # NONE => OpenOn(a.page, d.file) /\ d.e = a.page /\ d.id = tab[a.page].ffid
  BY <1>2, <1>3
<1> HIDE DEF s, d
<1>9. /\ cl' \in [Client -> ClientState] /\ cl'[c] = s
      /\ \A b \in Client : b # c => cl'[b] = cl[b]
  BY <1>0, <1>5, <1>7 DEF TypeOK, ClientState
<1>10. /\ fds' \in [Client -> [Fdnum -> Descriptor \cup {NONE}]]
       /\ a.page = NONE => fds' = fds
       /\ a.page # NONE => fds'[c][cl[c].req.fd] = d
       /\ \A b \in Client, n \in Fdnum : b # c \/ n # cl[c].req.fd => fds'[b][n] = fds[b][n]
  BY <1>0, <1>5, <1>6, <1>8 DEF TypeOK
<1>11. /\ srv' \in ServerState /\ srv'.pc = "loop" /\ srv'.out = <<>> /\ Len(srv'.out) <= 2
  <2>0. <<>> \in Seq(Answer) /\ Len(<<>>) = 0
    OBVIOUS
  <2>1. PICK out : out = <<>> /\ out \in Seq(Answer) /\ Len(out) = 0
    BY <2>0, Zenon
  <2>2. srv' = [srv EXCEPT !.pc = "loop", !.out = out]
    BY <1>5, <2>1
  <2>3. srv' \in ServerState /\ srv'.pc = "loop" /\ srv'.out = out
    BY <1>1, <2>1, <2>2 DEF ServerState
  <2> QED BY <2>1, <2>3
<1>12. TypeOK'
  BY <1>0, <1>5, <1>9, <1>10, <1>11 DEF TypeOK, ServerState, ClientState
<1>13. FdsSound'
  <2> SUFFICES ASSUME NEW b \in Client, NEW n \in Fdnum, fds'[b][n] # NONE
               PROVE  /\ OpenOn(fds'[b][n].e, fds'[b][n].file)
                      /\ tab[fds'[b][n].e].fileid = fds'[b][n].id
    BY <1>5, ZenonT(60) DEF FdsSound, OpenOn
  <2>1. CASE fds'[b][n] = fds[b][n]
    BY <1>0, <2>1 DEF FdsSound
  <2>2. CASE a.page # NONE /\ fds'[b][n] = d
    BY <1>o, <2>2 DEF OpenOn
  <2> QED BY <1>10, <2>1, <2>2
<1>14. CallsSound'
  <2> SUFFICES ASSUME NEW b \in Client PROVE CallSound(b)'
    BY DEF CallsSound
  <2>1. CASE b # c
    BY <1>0, <1>9, <1>10, <2>1 DEF CallsSound, CallSound, Names, TypeOK, ClientState, Request
  <2>2. CASE b = c
    <3>1. CallSound(c)
      BY <1>0 DEF CallsSound
    <3>2. cl[c].req.type \in {"dirty", "close"} => a.page = NONE
      BY <1>8
    <3>3. a.r = "ok" /\ cl[c].req.type = "open" => fds'[c][cl[c].req.fd] # NONE
      BY <1>2, <1>3, <1>8, <1>10
    <3>4. cl'[c].pc = "got" /\ cl'[c].r = a.r /\ cl'[c].req = cl[c].req /\ cl'[c].fn = cl[c].fn
      BY <1>7, <1>9
    <3>5. cl[c].pc \in Asking
      BY <1>5 DEF Asking
    <3> QED BY <1>10, <2>2, <3>1, <3>2, <3>3, <3>4, <3>5 DEF CallSound, Names, Asking
  <2> QED BY <2>1, <2>2
<1>15. ServesAsker' /\ ReplySound'
  BY <1>11 DEF ServesAsker, ReplySound
<1>16. Opening' \subseteq Opening \ {c} /\ Unserved' \subseteq Unserved
  BY <1>1, <1>2, <1>7, <1>9, <1>11 DEF Opening, Unserved, Asking
<1>17. calls' >= calls
  BY <1>0, <1>5, SizeAssumption DEF TypeOK
<1>18. RoomLeft' /\ IdsCount'
  <2>1. CASE a.page = NONE
    <3>1. Used' = Used
      BY <1>10, <2>1 DEF Used
    <3> QED BY <1>0, <1>5, <1>12, <1>16, <1>17, <3>1, CountsKept
  <2>2. CASE a.page # NONE
    <3>1. c \in Opening
      BY <1>5, <1>8, <2>2 DEF Opening, Asking
    <3>2. Used' \subseteq Used \cup {a.page}
      <4> SUFFICES ASSUME NEW i \in Used', i # a.page PROVE i \in Used
        OBVIOUS
      <4>1. PICK b \in Client, n \in Fdnum : fds'[b][n] # NONE /\ fds'[b][n].e = i
        BY DEF Used
      <4>2. fds'[b][n] = fds[b][n]
        BY <1>10, <1>o, <2>2, <4>1
      <4> QED BY <4>1, <4>2 DEF Used
    <3>3. /\ IsFiniteSet(Used) /\ Cardinality(Used) \in Nat
          /\ IsFiniteSet(Opening) /\ Cardinality(Opening) \in Nat
      BY <1>0, Finite
    <3>4. Cardinality(Used') <= Cardinality(Used) + 1 /\ Cardinality(Used') \in Nat
      <4>1. /\ IsFiniteSet(Used \cup {a.page})
            /\ Cardinality(Used \cup {a.page})
                 = IF a.page \in Used THEN Cardinality(Used) ELSE Cardinality(Used) + 1
        BY <3>3, FS_AddElement
      <4>2. /\ IsFiniteSet(Used') /\ Cardinality(Used') <= Cardinality(Used \cup {a.page})
            /\ Cardinality(Used') \in Nat
        BY <3>2, <4>1, FS_Subset, FS_CardinalityType
      <4> QED BY <3>3, <4>1, <4>2
    <3>5. Cardinality(Opening') <= Cardinality(Opening) - 1 /\ Cardinality(Opening') \in Nat
      <4>1. IsFiniteSet(Opening \ {c}) /\ Cardinality(Opening \ {c}) = Cardinality(Opening) - 1
        BY <3>1, <3>3, FS_RemoveElement
      <4> QED BY <1>16, <4>1, FS_Subset, FS_CardinalityType
    <3>6. RoomLeft'
      BY <1>0, <3>3, <3>4, <3>5, SizeAssumption DEF RoomLeft
    <3>7. IdsCount'
      BY <1>0, <1>5, <1>12, <1>16, <1>17, IdsKept
    <3> QED BY <3>6, <3>7
  <2> QED BY <2>1, <2>2
<1> QED BY <1>12, <1>13, <1>14, <1>15, <1>18 DEF IInv, StateInv

\* The ids given out are below the sign of an int.
EnoughIds == MAXOPEN * (MaxCalls + 1) <= IdSign

\* When a file is to be opened there is an entry for it, with an id that is no error.
LEMMA EntryIsFree ==
    ASSUME IInv, EnoughIds, srv.pc = "serve", srv.req.type = "open"
    PROVE  LET a == open_alloc({0, 1}, FALSE) IN
           \E i \in Entry \ Used, id \in FileId :
               /\ id = tab[i].fileid + MAXOPEN
               /\ a.o = i /\ a.r = "ok"
               /\ a.tab = [tab EXCEPT ![i] =
                             [@ EXCEPT !.fileid = id, !.mapped = TRUE, !.ffid = 0, !.fffile = NONE]]
<1>0. TypeOK /\ FdsSound /\ ServesAsker /\ RoomLeft /\ IdsCount
  BY DEF IInv, StateInv
<1> DEFINE free == {i \in Entry : pageref(i) \in {0, 1}}
<1>1. srv.whom \in Opening /\ srv.whom \in Unserved
  BY <1>0 DEF ServesAsker, Opening, Unserved, Asking
<1>2. /\ IsFiniteSet(Entry) /\ Cardinality(Entry) = MAXOPEN
      /\ Used \in SUBSET Entry /\ IsFiniteSet(Used) /\ Cardinality(Used) \in Nat
      /\ IsFiniteSet(Opening) /\ Cardinality(Opening) \in Nat
      /\ IsFiniteSet(Unserved) /\ Cardinality(Unserved) \in Nat
  BY <1>0, Finite
<1>3. Cardinality(Opening) > 0 /\ Cardinality(Unserved) > 0
  <2>1. Cardinality(Opening) # 0 /\ Cardinality(Unserved) # 0
    BY <1>1, <1>2, FS_EmptySet
  <2> QED BY <1>2, <2>1
<1>4. Used # Entry
  BY <1>0, <1>2, <1>3 DEF RoomLeft
<1>5. free # {} /\ free \in SUBSET Nat
  <2>1. PICK i \in Entry : i \notin Used
    BY <1>2, <1>4
  <2>2. pageref(i) \in {0, 1}
    BY <1>0, <2>1, PagerefTells
  <2> QED BY <2>1, <2>2 DEF Entry
<1>6. PICK i \in Entry : i = Min(free) /\ i \notin Used
  <2>1. Min(free) \in free
    BY <1>5, LeastElement
  <2>2. Min(free) \notin Used
    BY <1>0, <2>1, PagerefTells
  <2> QED BY <2>1, <2>2
<1>7. PICK k \in 0..(calls - Cardinality(Unserved)) : tab[i].fileid = i + k * MAXOPEN
  BY <1>0, <1>6 DEF IdsCount
<1>8. k + 1 <= MaxCalls /\ k \in Nat /\ MaxCalls \in Nat /\ MAXOPEN \in Nat
      /\ i \in Nat /\ i < MAXOPEN /\ IdSign \in Nat
  BY <1>0, <1>2, <1>3, <1>7, SizeAssumption DEF TypeOK, Entry
<1>9. PICK id : id = tab[i].fileid + MAXOPEN /\ id \in Nat /\ id < IdSign
  <2>1. PICK m \in Nat : MaxCalls = (k + 1) + m
    BY <1>8
  <2>2. /\ MAXOPEN * (MaxCalls + 1) = k * MAXOPEN + m * MAXOPEN + MAXOPEN + MAXOPEN
        /\ k * MAXOPEN \in Nat /\ m * MAXOPEN \in Nat
    BY <1>8, <2>1
  <2>3. k * MAXOPEN + m * MAXOPEN + MAXOPEN + MAXOPEN <= IdSign
    BY <2>2 DEF EnoughIds
  <2>4. (i + k * MAXOPEN) + MAXOPEN < IdSign /\ (i + k * MAXOPEN) + MAXOPEN \in Nat
    BY <1>8, <2>2, <2>3
  <2> QED BY <1>7, <2>4
<1>10. id \in FileId /\ id % (2 * IdSign) = id
  <2>1. PICK m \in Nat : m = 2 * IdSign /\ id < m
    BY <1>8, <1>9
  <2>2. id % m = id
    BY <1>9, <2>1
  <2>3. id \in 0..(2 * IdSign - 1)
    BY <1>8, <1>9
  <2> QED BY <2>1, <2>2, <2>3 DEF FileId
<1> DEFINE a == open_alloc({0, 1}, FALSE)
<1>11. a = LET n == (tab[i].fileid + MAXOPEN) % (2 * IdSign)
           IN  [o |-> i, r |-> IF n >= IdSign THEN "error" ELSE "ok",
                tab |-> [tab EXCEPT ![i] =
                           [@ EXCEPT !.fileid = n, !.mapped = TRUE, !.ffid = 0, !.fffile = NONE]]]
  BY <1>5, <1>6, Zenon DEF open_alloc
<1>12. a = [o |-> i, r |-> "ok",
            tab |-> [tab EXCEPT ![i] =
                       [@ EXCEPT !.fileid = id, !.mapped = TRUE, !.ffid = 0, !.fffile = NONE]]]
  <2>1. (tab[i].fileid + MAXOPEN) % (2 * IdSign) = id /\ ~(id >= IdSign)
    BY <1>8, <1>9, <1>10
  <2> QED BY <1>11, <2>1, Zenon
<1> HIDE DEF a
<1>13. /\ a.o = i /\ a.r = "ok"
       /\ a.tab = [tab EXCEPT ![i] =
                     [@ EXCEPT !.fileid = id, !.mapped = TRUE, !.ffid = 0, !.fffile = NONE]]
  BY <1>12
<1> QED BY <1>6, <1>9, <1>10, <1>13, ZenonT(60) DEF a

\* A file is opened: an entry that nobody uses becomes that of the file, or keeps
\* its page when the file is not found.
LEMMA ServerOpens ==
    ASSUME IInv, EnoughIds, AllRules \subseteq Discipline, serve_open
    PROVE  IInv'
<1>0. /\ TypeOK /\ FdsSound /\ CallsSound /\ ServesAsker /\ ReplySound
      /\ RoomLeft /\ IdsCount
  BY DEF IInv, StateInv
<1>1. srv.pc = "serve" /\ srv.req.type = "open" /\ UNCHANGED <<cl, fds, calls>>
  BY DEF serve_open, Handles
<1> DEFINE a == open_alloc({0, 1}, FALSE)
<1>2. PICK i \in Entry \ Used, id \in FileId :
          /\ id = tab[i].fileid + MAXOPEN
          /\ a.o = i /\ a.r = "ok"
          /\ a.tab = [tab EXCEPT ![i] =
                        [@ EXCEPT !.fileid = id, !.mapped = TRUE, !.ffid = 0, !.fffile = NONE]]
  BY <1>1, EntryIsFree
<1>3. \/ Answers(Append(<<>>, Error)) /\ tab' = a.tab
      \/ Answers(Append(<<>>, Page(a.o))) /\ tab' = fill_filefd(a.tab, a.o)
  <2>1. "memory" \in Discipline
    BY DEF AllRules
  <2>2. a.o # NONE
    BY <1>2, NoneAssumption
  <2> HIDE DEF a
  <2>3. LET early == IF a.r = "error" THEN <<Error>> ELSE <<>>
        IN  \/ /\ Answers(Append(early, Error))
               /\ tab' = a.tab
            \/ \E o \in {a.o} :
                 IF o = NONE THEN srv' = [srv EXCEPT !.pc = "panic"] /\ tab' = a.tab
                 ELSE /\ Answers(Append(early, Page(o)))
                      /\ tab' = fill_filefd(a.tab, o)
    BY <2>1, <2>2, Zenon DEF serve_open, a
  <2> QED BY <1>2, <2>2, <2>3, Zenon
<1> HIDE DEF a
<1>4. PICK c \in Client : c = srv.whom /\ cl[c].pc \in {"sent", "wait"} /\ cl[c].req = srv.req
  BY <1>0, <1>1 DEF ServesAsker
<1>5. srv.req.file \in FileSet
  BY <1>0, <1>1, <1>4 DEF CallsSound, CallSound
<1>6. /\ tab \in [Entry -> Opentab] /\ i \in Entry /\ 0 \in FileId
  <2>1. 0 \in FileId
    BY <1>2, SizeAssumption DEF FileId
  <2> QED BY <1>0, <1>2, <2>1 DEF TypeOK, Opentab
<1>7. \E b \in Answer :
         /\ Answers(<<b>>)
         /\ b.r = "ok" => b.page # NONE
         /\ tab' \in [Entry -> Opentab] /\ tab'[i].fileid = id
         /\ \A j \in Entry : j # i => tab'[j] = tab[j]
         /\ b.page # NONE => b.page = i /\ OpenOn(i, srv.req.file)'
  <2> DEFINE e == [tab[i] EXCEPT !.fileid = id, !.mapped = TRUE, !.ffid = 0, !.fffile = NONE]
  <2>1. e \in Opentab /\ e.fileid = id /\ e.mapped
    <3>1. tab[i] \in Opentab /\ id \in FileId /\ 0 \in FileId
      BY <1>6
    <3> QED BY <3>1 DEF Opentab
  <2>2. a.tab = [tab EXCEPT ![i] = e]
    BY <1>2
  <2> HIDE DEF e
  <2>3. a.tab \in [Entry -> Opentab] /\ a.tab[i] = e
        /\ \A j \in Entry : j # i => a.tab[j] = tab[j]
    BY <1>6, <2>1, <2>2
  <2>4. CASE Answers(Append(<<>>, Error)) /\ tab' = a.tab
    <3>1. Append(<<>>, Error) = <<Error>> /\ Error \in Answer
          /\ Error.r = "error" /\ Error.page = NONE
      BY DEF Error, Answer
    <3> QED BY <2>1, <2>3, <2>4, <3>1
  <2>5. CASE Answers(Append(<<>>, Page(a.o))) /\ tab' = fill_filefd(a.tab, a.o)
    <3>1. /\ Append(<<>>, Page(i)) = <<Page(i)>> /\ Page(i) \in Answer
          /\ Page(i).page = i /\ i # NONE
      BY <1>6, NoneAssumption DEF Page, Answer
    <3> DEFINE g == [e EXCEPT !.file = srv.req.file, !.ffid = e.fileid, !.fffile = srv.req.file]
    <3>2. g \in Opentab /\ g.fileid = id /\ g.ffid = id /\ g.mapped
          /\ g.file = srv.req.file /\ g.fffile = srv.req.file
      BY <1>2, <1>5, <2>1 DEF Opentab
    <3>3. tab' = [a.tab EXCEPT ![i] = g]
      BY <1>2, <2>3, <2>5 DEF fill_filefd
    <3> HIDE DEF g
    <3>4. tab' \in [Entry -> Opentab] /\ tab'[i] = g
          /\ \A j \in Entry : j # i => tab'[j] = a.tab[j]
      BY <1>6, <2>3, <3>2, <3>3
    <3>5. OpenOn(i, srv.req.file)'
      <4>1. srv'.req = srv.req
        BY <1>2, <2>5 DEF Answers, TypeOK
      <4> QED BY <3>2, <3>4, <4>1 DEF OpenOn
    <3>6. PICK b \in Answer : b = Page(i) /\ b.page = i /\ b.page # NONE
      BY <3>1
    <3>7. Answers(<<b>>)
      BY <1>2, <2>5, <3>1, <3>6
    <3>8. tab'[i].fileid = id /\ \A j \in Entry : j # i => tab'[j] = tab[j]
      BY <2>3, <3>2, <3>4
    <3> QED BY <3>4, <3>5, <3>6, <3>7, <3>8
  <2> QED BY <1>3, <2>4, <2>5
<1>8. PICK b \in Answer :
         /\ Answers(<<b>>)
         /\ b.r = "ok" => b.page # NONE
         /\ tab' \in [Entry -> Opentab] /\ tab'[i].fileid = id
         /\ \A j \in Entry : j # i => tab'[j] = tab[j]
         /\ b.page # NONE => b.page = i /\ OpenOn(i, srv.req.file)'
  BY <1>7
<1>9. /\ srv' \in ServerState /\ Len(srv'.out) <= 2
      /\ srv'.pc = "reply" /\ srv'.whom = srv.whom /\ srv'.req = srv.req
      /\ srv'.out = <<b>>
  BY <1>0, <1>1, <1>8, AnswerFacts
<1>10. TypeOK'
  BY <1>0, <1>1, <1>8, <1>9 DEF TypeOK, ServerState, Opentab
<1>11. FdsSound'
  <2> SUFFICES ASSUME NEW d \in Client, NEW n \in Fdnum, fds[d][n] # NONE
               PROVE  /\ OpenOn(fds[d][n].e, fds[d][n].file)'
                      /\ tab'[fds[d][n].e].fileid = fds[d][n].id
    BY <1>1 DEF FdsSound
  <2>1. fds[d][n] \in Descriptor
    BY <1>0 DEF TypeOK
  <2>2. fds[d][n].e \in Entry /\ fds[d][n].e # i
    BY <1>2, <2>1 DEF Used, Descriptor
  <2>3. tab'[fds[d][n].e] = tab[fds[d][n].e]
    BY <1>8, <2>2
  <2>4. fds' = fds
    BY <1>1
  <2> QED BY <1>0, <2>3, <2>4 DEF FdsSound, OpenOn
<1>12. CallsSound' /\ Used' = Used /\ Opening' = Opening
  BY <1>0, <1>1 DEF CallsSound, CallSound, Names, Used, Opening
<1>13. ServesAsker'
  BY <1>0, <1>1, <1>9 DEF ServesAsker
<1>14. ReplySound'
  BY <1>1, <1>8, <1>9 DEF ReplySound, OpenOn
<1>15. RoomLeft'
  BY <1>0, <1>12 DEF RoomLeft
<1>16. IdsCount'
  <2>1. IsFiniteSet(Unserved) /\ Cardinality(Unserved) \in Nat
    BY <1>0, Finite
  <2>2. c \in Unserved /\ Unserved' = Unserved \ {c}
    BY <1>1, <1>4, <1>9, <1>12 DEF Unserved, Opening, Asking
  <2>3. Cardinality(Unserved') = Cardinality(Unserved) - 1
    BY <2>1, <2>2, FS_RemoveElement
  <2>4. calls \in Nat /\ calls' = calls
    BY <1>0, <1>1, SizeAssumption DEF TypeOK
  <2>5. Cardinality(Unserved') <= calls'
    BY <1>0, <2>1, <2>3, <2>4 DEF IdsCount
  <2>6. ASSUME NEW j \in Entry
        PROVE  \E k \in 0..(calls' - Cardinality(Unserved')) : tab'[j].fileid = j + k * MAXOPEN
    <3>1. PICK k \in 0..(calls - Cardinality(Unserved)) : tab[j].fileid = j + k * MAXOPEN
      BY <1>0 DEF IdsCount
    <3>2. k \in 0..(calls' - Cardinality(Unserved')) /\ k + 1 \in 0..(calls' - Cardinality(Unserved'))
      BY <2>1, <2>3, <2>4, <3>1
    <3>3. CASE j # i
      BY <1>8, <3>1, <3>2, <3>3
    <3>4. CASE j = i
      <4>1. tab'[j].fileid = (j + k * MAXOPEN) + MAXOPEN
        BY <1>2, <1>8, <3>1, <3>4
      <4>2. (j + k * MAXOPEN) + MAXOPEN = j + (k + 1) * MAXOPEN
        BY <3>1, SizeAssumption DEF Entry
      <4> QED BY <3>2, <4>1, <4>2
    <3> QED BY <3>3, <3>4
  <2> QED BY <2>5, <2>6 DEF IdsCount
<1> QED BY <1>10, <1>11, <1>12, <1>13, <1>14, <1>15, <1>16 DEF IInv, StateInv

-----------------------------------------------------------------------------
(* The invariant, and what it says of the open files.                      *)

LEMMA InitInv ==
    ASSUME IdSign # 0, EnoughIds
    PROVE  Init => IInv
<1> SUFFICES ASSUME Init PROVE IInv
  OBVIOUS
<1>1. Blank \in Request /\ 0 \in FileId
  <2>1. Blank \in Request
    BY RequestByPath
  <2>2. 0 \in FileId
    BY SizeAssumption DEF FileId
  <2> QED BY <2>1, <2>2
<1>2. Entry \subseteq FileId
  <2>1. MAXOPEN * (MaxCalls + 1) = MAXOPEN * MaxCalls + MAXOPEN /\ MAXOPEN * MaxCalls \in Nat
    BY SizeAssumption
  <2>2. MAXOPEN <= IdSign
    BY <2>1, SizeAssumption DEF EnoughIds
  <2> QED BY <2>2, SizeAssumption DEF Entry, FileId
<1>3. TypeOK
  <2>1. Waiting \in ServerState /\ Len(Waiting.out) <= 2
    <3>1. <<>> \in Seq(Answer) /\ Len(<<>>) = 0
      OBVIOUS
    <3> QED BY <1>1, <3>1 DEF Waiting, ServerState
  <2>2. tab \in [Entry -> Opentab]
    BY <1>1, <1>2 DEF Init, Opentab
  <2>3. cl \in [Client -> ClientState]
    <3>1. Outside \in ClientState
      BY <1>1 DEF Outside, ClientState
    <3>2. [Outside EXCEPT !.pc = "user"] \in ClientState
          /\ [Outside EXCEPT !.pc = "new"] \in ClientState
      BY <3>1 DEF ClientState
    <3> QED BY <3>2 DEF Init
  <2>4. fds \in [Client -> [Fdnum -> Descriptor \cup {NONE}]] /\ calls \in 0..MaxCalls
    BY SizeAssumption DEF Init
  <2>5. srv \in ServerState /\ Len(srv.out) <= 2
    BY <2>1 DEF Init
  <2> QED BY <2>2, <2>3, <2>4, <2>5 DEF TypeOK, ServerState, Opentab, ClientState
<1>4. \A c \in Client : cl[c].pc \in {"new", "user"} /\ cl[c].req = Blank
  BY DEF Init, Outside
<1>5. \A c \in Client, n \in Fdnum : fds[c][n] = NONE
  BY DEF Init
<1>6. FdsSound /\ Used = {}
  BY <1>5 DEF FdsSound, Used
<1>7. CallsSound /\ Opening = {} /\ Unserved = {}
  BY <1>4 DEF CallsSound, CallSound, Blank, Opening, Unserved, Asking
<1>8. srv.pc = "recv"
  BY DEF Init, Waiting
<1>9. ServesAsker /\ ReplySound
  BY <1>8 DEF ServesAsker, ReplySound
<1>10. RoomLeft
  BY <1>6, <1>7, FS_EmptySet, SizeAssumption DEF RoomLeft
<1>11. IdsCount
  <2>1. Cardinality(Unserved) = 0 /\ calls = 0
    BY <1>7, FS_EmptySet DEF Init
  <2>2. ASSUME NEW i \in Entry PROVE tab[i].fileid = i + 0 * MAXOPEN
    BY SizeAssumption DEF Init, Entry
  <2> QED BY <2>1, <2>2 DEF IdsCount
<1> QED BY <1>3, <1>6, <1>7, <1>9, <1>10, <1>11 DEF IInv, StateInv

\* Every step keeps the invariant.
LEMMA NextInv ==
    ASSUME AllRules \subseteq Discipline, EnoughIds, IdSign # 0, IInv, [Next]_vars
    PROVE  IInv'
<1>0. "tables" \in Discipline
  BY DEF AllRules
<1>1. CASE Server
  BY <1>0, <1>1, ServerOpens, ServerHandles, ServerReplies, ServerAwaits DEF Server
<1>2. ASSUME NEW c \in Client, Library(c) PROVE IInv'
  BY <1>0, <1>2, ClientAsks, ClientContinues DEF Library
<1>3. ASSUME NEW c \in Client, NEW f \in FileSet, open(c, f) PROVE IInv'
  BY <1>3, ClientOpens
<1>4. ASSUME NEW c \in Client,
             \/ \E n \in Fdnum : close(c, n) \/ \E m \in Fdnum : dup(c, n, m)
             \/ other(c)
             \/ \E d \in Client : fork(c, d)
             \/ exit(c)
      PROVE  IInv'
  BY <1>4, ClientCalls
<1>5. CASE UNCHANGED vars
  <2>1. TypeOK' /\ ServesAsker' /\ ReplySound'
    BY <1>5 DEF IInv, StateInv, TypeOK, ServesAsker, ReplySound, OpenOn, vars
  <2>2. FdsSound' /\ CallsSound'
    BY <1>5 DEF IInv, StateInv, FdsSound, OpenOn, CallsSound, CallSound, Names, vars
  <2>3. RoomLeft' /\ IdsCount'
    BY <1>5 DEF IInv, RoomLeft, IdsCount, Used, Opening, Unserved, vars
  <2> QED BY <2>1, <2>2, <2>3 DEF IInv, StateInv
<1> QED BY <1>1, <1>2, <1>3, <1>4, <1>5 DEF Next

\* What a client has asked of a descriptor is served with the file it was opened on.
LEMMA InvKeeps ==
    ASSUME IInv
    PROVE  OpenFilesKept
<1>0. /\ TypeOK /\ FdsSound /\ CallsSound /\ ServesAsker /\ IdsCount
  BY DEF IInv, StateInv
<1>1. DescriptorKept
  BY <1>0 DEF FdsSound, OpenOn, DescriptorKept
<1>2. ServesTheOpenFile
  <2> SUFFICES ASSUME srv.pc = "serve", srv.req.type \in ByFd
               PROVE  /\ open_lookup(srv.req.id) # NONE
                      /\ tab[open_lookup(srv.req.id)].file = srv.req.file
    BY DEF ServesTheOpenFile
  <2>1. PICK c \in Client : cl[c].pc \in {"sent", "wait"} /\ cl[c].req = srv.req
    BY <1>0 DEF ServesAsker
  <2>2. Names(c, srv.req) /\ srv.req.fd \in Fdnum
    BY <1>0, <2>1 DEF CallsSound, CallSound, Asking, TypeOK, Request
  <2>3. PICK d \in Descriptor : d = fds[c][srv.req.fd]
    BY <1>0, <2>2 DEF TypeOK, Names
  <2>4. /\ d.e \in Entry /\ d.e \in Used
        /\ tab[d.e].fileid = srv.req.id /\ tab[d.e].file = srv.req.file
    BY <1>0, <2>2, <2>3 DEF FdsSound, OpenOn, Names, Used, Descriptor
  <2>5. srv.req.id % MAXOPEN = d.e
    <3>1. PICK k \in 0..(calls - Cardinality(Unserved)) : tab[d.e].fileid = d.e + k * MAXOPEN
      BY <1>0, <2>4 DEF IdsCount
    <3>2. k \in Nat
      BY <3>1
    <3> QED BY <2>4, <3>1, <3>2, IdLeadsToEntry
  <2>6. pageref(d.e) # 1
    BY <1>0, <2>4, PagerefTells
  <2>7. open_lookup(srv.req.id) = d.e
    BY <2>4, <2>5, <2>6 DEF open_lookup
  <2> QED BY <2>4, <2>7, NoneAssumption
<1>3. ServerAlive
  BY <1>0 DEF ServesAsker, ServerAlive
<1> QED BY <1>0, <1>1, <1>2, <1>3 DEF OpenFilesKept

\* However clients open, copy, pass on and close descriptors and exit, a descriptor
\* stays what it was opened as, for its client and for the server, and the server
\* lives: open_alloc gives out no entry that somebody maps (serv.c:67-93), open_lookup
\* refuses none (serv.c:105-116), and an answer finds its client.  It is assumed that
\* opentab has room, and that neither the server nor the kernel runs out of pages
\* where a message needs one: without that an answer kills the server (ipc.c:17).
THEOREM OpenFilesAreKept ==
    ASSUME AllRules \subseteq Discipline, MAXOPEN * (MaxCalls + 1) <= IdSign
    PROVE  Spec => []OpenFilesKept
<1>0. EnoughIds
  BY DEF EnoughIds
<1>1. IdSign # 0
  <2>1. MAXOPEN * (MaxCalls + 1) = MAXOPEN * MaxCalls + MAXOPEN /\ MAXOPEN * MaxCalls \in Nat
    BY SizeAssumption
  <2> QED BY <2>1, SizeAssumption
<1>2. Init => IInv
  BY <1>0, <1>1, InitInv
<1>3. IInv /\ [Next]_vars => IInv'
  BY <1>0, <1>1, NextInv
<1>4. IInv => OpenFilesKept
  BY InvKeeps
<1> QED BY <1>2, <1>3, <1>4, PTL DEF Spec

=============================================================================
