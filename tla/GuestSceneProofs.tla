-------------------------- MODULE GuestSceneProofs --------------------------
(***************************************************************************)
(* The driver forgets no resource of the scene but those the host refuses  *)
(* to destroy, a command whose wait failed holding them, and uses none     *)
(* that is gone, whatever requests are refused, for any number of scenes,  *)
(* meshes, textures and structures.                                        *)
(***************************************************************************)
EXTENDS GuestScene, FiniteSetTheorems, SequenceTheorems, WellFoundedInduction, TLAPS

OwnOf(meshes) == UNION {Own(e) : e \in meshes}

\* Every resource has one owner: a structure of the application (those in S),
\* a mesh of the cache, the mesh in hand or the cache of textures.  What the
\* host refuses to destroy it keeps, with an owner or without.
Places(S, ids, kept, textures, meshes, made) ==
  /\ ids = S \cup OwnOf(meshes) \cup made \cup DOMAIN textures \cup kept
  /\ S \cap OwnOf(meshes) = {} /\ S \cap made = {} /\ S \cap DOMAIN textures = {}
  /\ OwnOf(meshes) \cap made = {} /\ OwnOf(meshes) \cap DOMAIN textures = {}
  /\ made \cap DOMAIN textures = {}
  /\ \A e, f \in meshes : Own(e) \cap Own(f) # {} => e = f

\* IDs are never issued again.
Issued(ids, next) == next \in Nat /\ (\A id \in ids : id \in Nat /\ id < next)

\* Slots of the cached meshes and of the mesh in hand name cached textures.
Naming(textures, meshes, held) ==
  /\ \A e \in meshes : e.textures \in Seq(DOMAIN textures)
  /\ held \in Seq(DOMAIN textures)
  /\ \A id : IsFiniteSet(SlotsOf(meshes, id))

\* A texture counts them.
Counting(textures, meshes, held) ==
  \A id \in DOMAIN textures :
    /\ textures[id].refs = Cardinality(SlotsOf(meshes, id)) + Cardinality(Holding(held, id))
    /\ textures[id].refs > 0
    /\ DOMAIN textures[id] = {"content", "refs"}

IsWork(w) ==
  DOMAIN w = {"host", "pinned", "next", "textures", "meshes", "grants", "ok", "made", "held"}

Accounted(w, S, made, held) ==
  /\ IsWork(w)
  /\ Places(S, DOMAIN w.host, w.pinned, w.textures, w.meshes, made)
  /\ Issued(DOMAIN w.host, w.next)
  /\ Naming(w.textures, w.meshes, held)
  /\ Counting(w.textures, w.meshes, held)

\* The application's.
Owned == {structures[s].resource : s \in DOMAIN structures}

\* In the middle of a mesh or a trace; and with nothing in hand.
InHand(w, S) == Accounted(w, S, w.made, w.held)
Settled(w, S) == Accounted(w, S, {}, <<>>)

----------------------------------------------------------------------------
(* Counting.                                                               *)

LEMMA HoldingFinite ==
  ASSUME NEW T, NEW s \in Seq(T), NEW id
  PROVE  IsFiniteSet(Holding(s, id)) /\ Cardinality(Holding(s, id)) \in Nat
<1>1. DOMAIN s = 1 .. Len(s) /\ Len(s) \in Nat
  OBVIOUS
<1>2. IsFiniteSet(1 .. Len(s))
  BY <1>1, FS_Interval
<1>3. Holding(s, id) \in SUBSET (1 .. Len(s))
  BY <1>1 DEF Holding
<1>4. IsFiniteSet(Holding(s, id))
  BY <1>2, <1>3, FS_Subset
<1> QED BY <1>4, FS_CardinalityType

LEMMA HoldingAppended ==
  ASSUME NEW T, NEW s \in Seq(T), NEW new \in T, NEW id
  PROVE  Cardinality(Holding(Append(s, new), id)) =
           Cardinality(Holding(s, id)) + (IF new = id THEN 1 ELSE 0)
<1>1. Len(s) \in Nat /\ DOMAIN s = 1 .. Len(s) /\ DOMAIN Append(s, new) = 1 .. Len(s) + 1
  OBVIOUS
<1>2. \A i \in 1 .. Len(s) : Append(s, new)[i] = s[i]
  OBVIOUS
<1>3. Append(s, new)[Len(s) + 1] = new
  OBVIOUS
<1>4. Len(s) + 1 \notin Holding(s, id)
  BY <1>1 DEF Holding
<1>5. CASE new = id
  <2>1. Holding(Append(s, new), id) = Holding(s, id) \cup {Len(s) + 1}
    BY <1>1, <1>2, <1>3, <1>5 DEF Holding
  <2> QED BY <1>4, <1>5, <2>1, HoldingFinite, FS_AddElement
<1>6. CASE new # id
  <2>1. Holding(Append(s, new), id) = Holding(s, id)
    BY <1>1, <1>2, <1>3, <1>6 DEF Holding
  <2> QED BY <1>6, <2>1, HoldingFinite
<1> QED BY <1>5, <1>6

LEMMA NothingHeld == \A id : Cardinality(Holding(<<>>, id)) = 0
<1> TAKE id
<1>1. Holding(<<>>, id) = {}
  BY DEF Holding
<1> QED BY <1>1, FS_EmptySet

\* An entry's slots are as many as the places of its list that name a texture.
LEMMA SlotsCount ==
  ASSUME NEW T, NEW e, e.textures \in Seq(T), NEW id
  PROVE  /\ IsFiniteSet(Slots(e, id))
         /\ Cardinality(Slots(e, id)) = Cardinality(Holding(e.textures, id))
<1> DEFINE I == Holding(e.textures, id)
           f == [i \in I |-> <<e.resource, i>>]
<1>1. IsFiniteSet(I)
  BY HoldingFinite
<1>2. Slots(e, id) = {<<e.resource, i>> : i \in I}
  BY DEF Slots, Holding
<1>3. f \in Bijection(I, Slots(e, id))
  <2>1. f \in [I -> Slots(e, id)]
    BY <1>2
  <2>2. \A i, j \in I : f[i] = f[j] => i = j
    OBVIOUS
  <2>3. \A t \in Slots(e, id) : \E i \in I : f[i] = t
    BY <1>2
  <2> HIDE DEF I, f
  <2>4. f \in Injection(I, Slots(e, id))
    BY <2>1, <2>2 DEF Injection, IsInjective
  <2>5. f \in Surjection(I, Slots(e, id))
    BY <2>1, <2>3 DEF Surjection
  <2> QED BY <2>4, <2>5 DEF Bijection
<1> HIDE DEF I, f
<1>4. ExistsBijection(I, Slots(e, id))
  BY <1>3 DEF ExistsBijection
<1> QED BY <1>1, <1>4, FS_Bijection DEF I

LEMMA SlotsOfFewer ==
  ASSUME NEW meshes, NEW gone \in SUBSET meshes, NEW id,
         IsFiniteSet(SlotsOf(meshes, id)),
         \A e, f \in meshes : Own(e) \cap Own(f) # {} => e = f
  PROVE  /\ IsFiniteSet(SlotsOf(meshes \ gone, id))
         /\ Cardinality(SlotsOf(gone, id)) \in Nat
         /\ Cardinality(SlotsOf(meshes \ gone, id)) \in Nat
         /\ Cardinality(SlotsOf(meshes, id)) =
              Cardinality(SlotsOf(meshes \ gone, id)) + Cardinality(SlotsOf(gone, id))
<1> DEFINE A == SlotsOf(meshes \ gone, id)
           B == SlotsOf(gone, id)
<1>1. SlotsOf(meshes, id) = A \cup B
  BY DEF SlotsOf
<1>2. A \cap B = {}
  <2> SUFFICES ASSUME NEW e \in meshes \ gone, NEW f \in gone,
                      NEW t \in Slots(e, id), t \in Slots(f, id)
               PROVE  FALSE
    BY DEF SlotsOf
  <2>1. t[1] = e.resource /\ t[1] = f.resource
    BY DEF Slots
  <2>2. Own(e) \cap Own(f) # {}
    BY <2>1 DEF Own
  <2> QED BY <2>2
<1>3. A \in SUBSET SlotsOf(meshes, id) /\ B \in SUBSET SlotsOf(meshes, id)
  BY <1>1
<1> HIDE DEF A, B
<1>4. IsFiniteSet(A) /\ IsFiniteSet(B)
  BY <1>3, FS_Subset
<1>5. Cardinality(A) \in Nat /\ Cardinality(B) \in Nat /\ Cardinality(A \cap B) = 0
  BY <1>2, <1>4, FS_CardinalityType, FS_EmptySet
<1>6. Cardinality(A \cup B) = Cardinality(A) + Cardinality(B) - Cardinality(A \cap B)
  BY <1>4, FS_Union
<1> QED BY <1>1, <1>4, <1>5, <1>6 DEF A, B

LEMMA SlotsOfMore ==
  ASSUME NEW meshes, NEW e, NEW T, e.textures \in Seq(T), NEW id,
         IsFiniteSet(SlotsOf(meshes, id)),
         \A f \in meshes : e.resource # f.resource
  PROVE  /\ IsFiniteSet(SlotsOf(meshes \cup {e}, id))
         /\ Cardinality(SlotsOf(meshes \cup {e}, id)) =
              Cardinality(SlotsOf(meshes, id)) + Cardinality(Holding(e.textures, id))
<1> DEFINE A == SlotsOf(meshes, id)
           B == Slots(e, id)
<1>1. SlotsOf(meshes \cup {e}, id) = A \cup B
  BY DEF SlotsOf
<1>2. A \cap B = {}
  BY DEF SlotsOf, Slots
<1>3. IsFiniteSet(B) /\ Cardinality(B) = Cardinality(Holding(e.textures, id))
  BY SlotsCount
<1> HIDE DEF A, B
<1>4. IsFiniteSet(A)
  BY DEF A
<1>5. Cardinality(A) \in Nat /\ Cardinality(B) \in Nat /\ Cardinality(A \cap B) = 0
  BY <1>2, <1>3, <1>4, FS_CardinalityType, FS_EmptySet
<1>6. IsFiniteSet(A \cup B) /\ Cardinality(A \cup B) = Cardinality(A) + Cardinality(B) - Cardinality(A \cap B)
  BY <1>3, <1>4, FS_Union
<1>7. Cardinality(A \cup B) = Cardinality(A) + Cardinality(Holding(e.textures, id))
  BY <1>3, <1>5, <1>6
<1> QED BY <1>1, <1>6, <1>7 DEF A

----------------------------------------------------------------------------
(* Requests.                                                               *)

Same(r, w) ==
  /\ IsWork(r)
  /\ r.host = w.host /\ r.next = w.next /\ r.pinned = w.pinned /\ r.textures = w.textures
  /\ r.meshes = w.meshes
  /\ r.made = w.made /\ r.held = w.held

LEMMA RequestSame ==
  ASSUME NEW w, IsWork(w)
  PROVE  Same(Request(w), w) /\ (Request(w).ok => w.ok)
BY DEF IsWork, Same, Request

LEMMA SameAccounted ==
  ASSUME NEW w, NEW r, Same(r, w), NEW S, NEW made, NEW held, Accounted(w, S, made, held)
  PROVE  Accounted(r, S, made, held)
BY DEF Same, Accounted

LEMMA RequestInHand ==
  ASSUME NEW w, NEW S, InHand(w, S)
  PROVE  InHand(Request(w), S) /\ Request(w).meshes = w.meshes
<1>1. IsWork(w)
  BY DEF InHand, Accounted
<1>2. Same(Request(w), w)
  BY <1>1, RequestSame
<1> QED BY <1>2, SameAccounted DEF InHand, Same

\* What a new resource adds to the tables.
LEMMA NewResourceFields ==
  ASSUME NEW w, IsWork(w), Request(w).ok
  PROVE  LET r == NewResource(w)
         IN  /\ IsWork(r)
             /\ DOMAIN r.host = DOMAIN w.host \cup {w.next}
             /\ r.next = w.next + 1 /\ r.pinned = w.pinned /\ r.made = w.made \cup {w.next}
             /\ r.textures = w.textures /\ r.meshes = w.meshes /\ r.held = w.held
<1>1. Same(Request(w), w)
  BY RequestSame
<1> DEFINE q == Request(w)
<1>2. NewResource(w) = [q EXCEPT !.host = Put(@, w.next, {}), !.next = @ + 1,
                                 !.made = @ \cup {w.next}]
  BY DEF NewResource
<1> HIDE DEF q
<1> QED BY <1>1, <1>2 DEF Same, IsWork, Put, q

LEMMA NewResourceInHand ==
  ASSUME NEW w, NEW S, InHand(w, S)
  PROVE  LET r == NewResource(w)
         IN  /\ InHand(r, S) /\ r.meshes = w.meshes
             /\ r.ok => r.next - 1 \in r.made
<1> DEFINE r == NewResource(w)
<1>1. IsWork(w)
  BY DEF InHand, Accounted
<1>2. CASE ~Request(w).ok
  <2>1. r = Request(w)
    BY <1>2 DEF NewResource
  <2> QED BY <1>2, <2>1, RequestInHand
<1>3. CASE Request(w).ok
  <2>1. /\ IsWork(r)
        /\ DOMAIN r.host = DOMAIN w.host \cup {w.next}
        /\ r.next = w.next + 1 /\ r.pinned = w.pinned /\ r.made = w.made \cup {w.next}
        /\ r.textures = w.textures /\ r.meshes = w.meshes /\ r.held = w.held
    BY <1>1, <1>3, NewResourceFields
  <2> HIDE DEF r
  <2>2. w.next \in Nat /\ w.next \notin DOMAIN w.host
    BY DEF InHand, Accounted, Issued
  <2>3. Places(S, DOMAIN r.host, r.pinned, r.textures, r.meshes, r.made)
    BY <2>1, <2>2 DEF InHand, Accounted, Places
  <2>4. Issued(DOMAIN r.host, r.next)
    BY <2>1, <2>2 DEF InHand, Accounted, Issued
  <2>5. r.next - 1 \in r.made
    BY <2>1, <2>2
  <2> QED BY <2>1, <2>3, <2>4, <2>5 DEF InHand, Accounted, r
<1> QED BY <1>2, <1>3

----------------------------------------------------------------------------
(* Textures.                                                               *)

LEMMA SharedInHand ==
  ASSUME NEW w, NEW S, InHand(w, S), NEW id \in DOMAIN w.textures
  PROVE  InHand([w EXCEPT !.textures[id].refs = @ + 1, !.held = Append(@, id)], S)
<1> DEFINE r == [w EXCEPT !.textures[id].refs = @ + 1, !.held = Append(@, id)]
           T == DOMAIN w.textures
<1>1. /\ IsWork(w) /\ w.held \in Seq(T)
      /\ \A i \in T : DOMAIN w.textures[i] = {"content", "refs"}
      /\ \A i \in T : w.textures[i].refs =
            Cardinality(SlotsOf(w.meshes, i)) + Cardinality(Holding(w.held, i))
      /\ \A i \in T : w.textures[i].refs > 0 /\ IsFiniteSet(SlotsOf(w.meshes, i))
  BY DEF InHand, Accounted, Counting, Naming
<1>2. /\ IsWork(r) /\ r.host = w.host /\ r.next = w.next /\ r.pinned = w.pinned
      /\ r.meshes = w.meshes
      /\ r.made = w.made /\ r.held = Append(w.held, id)
      /\ r.textures = [w.textures EXCEPT ![id].refs = @ + 1]
  BY <1>1 DEF IsWork
<1> HIDE DEF r
<1>3. /\ DOMAIN r.textures = T
      /\ \A i \in T : /\ DOMAIN r.textures[i] = {"content", "refs"}
                       /\ r.textures[i].refs = w.textures[i].refs + (IF i = id THEN 1 ELSE 0)
  <2>1. \A i \in T : r.textures[i] =
          IF i = id THEN [w.textures[id] EXCEPT !.refs = @ + 1] ELSE w.textures[i]
    BY <1>2
  <2>2. \A i \in T : w.textures[i].refs \in Nat
    BY <1>1, HoldingFinite, FS_CardinalityType
  <2> QED BY <1>1, <1>2, <2>1, <2>2
<1>4. Counting(r.textures, r.meshes, r.held)
  <2> SUFFICES ASSUME NEW i \in T
               PROVE  /\ r.textures[i].refs =
                           Cardinality(SlotsOf(w.meshes, i)) + Cardinality(Holding(r.held, i))
                      /\ r.textures[i].refs > 0
                      /\ DOMAIN r.textures[i] = {"content", "refs"}
    BY <1>2, <1>3 DEF Counting
  <2>1. Cardinality(Holding(r.held, i)) =
          Cardinality(Holding(w.held, i)) + (IF id = i THEN 1 ELSE 0)
    BY <1>1, <1>2, HoldingAppended
  <2>2. Cardinality(Holding(w.held, i)) \in Nat /\ Cardinality(SlotsOf(w.meshes, i)) \in Nat
    BY <1>1, HoldingFinite, FS_CardinalityType
  <2> QED BY <1>1, <1>3, <2>1, <2>2
<1>5. r.held \in Seq(T)
  <2>1. id \in T
    OBVIOUS
  <2> HIDE DEF T
  <2> QED BY <1>1, <1>2, <2>1, AppendProperties
<1>6. Naming(r.textures, r.meshes, r.held)
  BY <1>2, <1>3, <1>5 DEF InHand, Accounted, Naming
<1>7. Places(S, DOMAIN r.host, r.pinned, r.textures, r.meshes, r.made)
  BY <1>2, <1>3 DEF InHand, Accounted, Places
<1> QED BY <1>2, <1>4, <1>6, <1>7 DEF InHand, Accounted, r

\* A texture that was not there: the request that failed used an ID up.
LEMMA SkippedInHand ==
  ASSUME NEW w, NEW S, InHand(w, S)
  PROVE  InHand([w EXCEPT !.next = @ + 1], S)
<1> DEFINE r == [w EXCEPT !.next = @ + 1]
<1>1. /\ IsWork(r) /\ r.host = w.host /\ r.textures = w.textures /\ r.meshes = w.meshes
      /\ r.made = w.made /\ r.held = w.held /\ r.next = w.next + 1 /\ r.pinned = w.pinned
  BY DEF InHand, Accounted, IsWork
<1> HIDE DEF r
<1>2. Issued(DOMAIN r.host, r.next)
  BY <1>1 DEF InHand, Accounted, Issued
<1> QED BY <1>1, <1>2 DEF InHand, Accounted, r

\* An ID no texture has is in no slot.
LEMMA UnnamedCounts ==
  ASSUME NEW textures, NEW meshes, NEW held, Naming(textures, meshes, held),
         NEW id, id \notin DOMAIN textures
  PROVE  SlotsOf(meshes, id) = {} /\ Holding(held, id) = {}
<1>1. \A s \in Seq(DOMAIN textures) : \A i \in DOMAIN s : s[i] # id
  OBVIOUS
<1>2. Holding(held, id) = {}
  BY <1>1 DEF Naming, Holding
<1>3. \A e \in meshes : Slots(e, id) = {}
  BY <1>1 DEF Naming, Slots
<1> QED BY <1>2, <1>3 DEF SlotsOf

LEMMA CreatedInHand ==
  ASSUME NEW w, NEW S, NEW content, InHand(w, S)
  PROVE  InHand([w EXCEPT !.host = Put(@, w.next, {}), !.next = @ + 1,
                          !.textures = Put(@, w.next, [content |-> content, refs |-> 1]),
                          !.held = Append(@, w.next)], S)
<1> DEFINE new == w.next
           r == [w EXCEPT !.host = Put(@, w.next, {}), !.next = @ + 1,
                          !.textures = Put(@, w.next, [content |-> content, refs |-> 1]),
                          !.held = Append(@, w.next)]
           T == DOMAIN w.textures
           U == DOMAIN r.textures
<1>1. /\ IsWork(w) /\ w.held \in Seq(T)
      /\ Naming(w.textures, w.meshes, w.held) /\ Counting(w.textures, w.meshes, w.held)
      /\ Places(S, DOMAIN w.host, w.pinned, w.textures, w.meshes, w.made)
      /\ Issued(DOMAIN w.host, w.next)
  BY DEF InHand, Accounted, Naming
<1>2. /\ IsWork(r) /\ DOMAIN r.host = DOMAIN w.host \cup {new} /\ r.next = new + 1
      /\ r.pinned = w.pinned
      /\ r.meshes = w.meshes /\ r.made = w.made /\ r.held = Append(w.held, new)
      /\ r.textures = [id \in T \cup {new} |-> IF id = new THEN [content |-> content, refs |-> 1]
                                              ELSE w.textures[id]]
  BY <1>1 DEF IsWork, Put
<1> HIDE DEF r
<1>3. new \in Nat /\ new \notin DOMAIN w.host /\ T \subseteq DOMAIN w.host /\ new \notin T
  BY <1>1 DEF Issued, Places
<1>4. /\ U = T \cup {new}
      /\ \A id \in U : r.textures[id] =
            IF id = new THEN [content |-> content, refs |-> 1] ELSE w.textures[id]
  BY <1>2
<1> HIDE DEF new, T, U
<1>5. r.held \in Seq(U)
  <2>1. w.held \in Seq(U) /\ new \in U
    BY <1>1, <1>4
  <2> QED BY <1>2, <2>1, AppendProperties
<1>6. Naming(r.textures, r.meshes, r.held)
  <2>1. \A e \in w.meshes : e.textures \in Seq(U)
    BY <1>1, <1>4 DEF Naming, T
  <2> QED BY <1>1, <1>2, <1>5, <2>1 DEF Naming, U
<1>7. Counting(r.textures, r.meshes, r.held)
  <2> SUFFICES ASSUME NEW id \in U
               PROVE  /\ r.textures[id].refs =
                           Cardinality(SlotsOf(w.meshes, id)) + Cardinality(Holding(r.held, id))
                      /\ r.textures[id].refs > 0
                      /\ DOMAIN r.textures[id] = {"content", "refs"}
    BY <1>2 DEF Counting, U
  <2>1. w.held \in Seq(U) /\ new \in U
    BY <1>1, <1>4
  <2>2. Cardinality(Holding(r.held, id)) =
          Cardinality(Holding(w.held, id)) + (IF new = id THEN 1 ELSE 0)
    BY <1>2, <2>1, HoldingAppended
  <2>3. CASE id = new
    <3>1. SlotsOf(w.meshes, id) = {} /\ Holding(w.held, id) = {}
      BY <1>1, <1>3, <2>3, UnnamedCounts DEF T
    <3>2. Cardinality(SlotsOf(w.meshes, id)) = 0 /\ Cardinality(Holding(w.held, id)) = 0
      BY <3>1, FS_EmptySet
    <3>3. r.textures[id] = [content |-> content, refs |-> 1]
      BY <1>4, <2>3
    <3> QED BY <2>2, <2>3, <3>2, <3>3
  <2>4. CASE id # new
    <3>1. id \in T /\ r.textures[id] = w.textures[id]
      BY <1>4, <2>4
    <3>2. /\ w.textures[id].refs =
               Cardinality(SlotsOf(w.meshes, id)) + Cardinality(Holding(w.held, id))
          /\ w.textures[id].refs > 0 /\ DOMAIN w.textures[id] = {"content", "refs"}
      BY <1>1, <3>1 DEF Counting, T
    <3>3. Cardinality(Holding(w.held, id)) \in Nat
      BY <1>1, HoldingFinite
    <3> QED BY <2>2, <2>4, <3>1, <3>2, <3>3
  <2> QED BY <2>3, <2>4
<1>8. Places(S, DOMAIN r.host, r.pinned, r.textures, r.meshes, r.made)
  BY <1>1, <1>2, <1>3, <1>4 DEF Places, T, U
<1>9. Issued(DOMAIN r.host, r.next)
  BY <1>1, <1>2, <1>3 DEF Issued, new
<1> QED BY <1>2, <1>6, <1>7, <1>8, <1>9 DEF InHand, Accounted, r

\* Textures come and go apart from the rest.
Keeps(r, w) == r.meshes = w.meshes /\ r.made = w.made

LEMMA AcquireInHand ==
  ASSUME NEW w, NEW S, NEW content, InHand(w, S)
  PROVE  InHand(AcquireTexture(w, content), S) /\ Keeps(AcquireTexture(w, content), w)
<1> DEFINE cached == {id \in DOMAIN w.textures : w.textures[id].content = content}
           shared == CHOOSE id \in cached : TRUE
           created == Request(w)
           written == Request(created)
<1>1. IsWork(w) /\ Same(created, w) /\ InHand(created, S) /\ Keeps(created, w)
  BY RequestInHand, RequestSame DEF InHand, Accounted, Keeps, Same
<1>2. /\ Same(written, created) /\ InHand(written, S) /\ Keeps(written, w)
      /\ written.next = w.next /\ written.pinned = w.pinned /\ IsWork(written)
  <2>1. IsWork(created)
    BY <1>1 DEF Same
  <2> QED BY <1>1, <2>1, RequestInHand, RequestSame DEF Same, Keeps
<1> HIDE DEF created, written
<1>3. CASE ~w.ok
  BY <1>3 DEF AcquireTexture, Keeps
<1>4. CASE w.ok /\ cached # {}
  <2> DEFINE r == [w EXCEPT !.textures[shared].refs = @ + 1, !.held = Append(@, shared)]
  <2>1. shared \in DOMAIN w.textures
    BY <1>4
  <2>2. AcquireTexture(w, content) = r
    BY <1>4 DEF AcquireTexture
  <2>3. Keeps(r, w)
    BY <1>1 DEF IsWork, Keeps
  <2> HIDE DEF shared
  <2>4. InHand(r, S)
    BY <2>1, SharedInHand
  <2> HIDE DEF r
  <2> QED BY <2>2, <2>3, <2>4
<1>5. CASE w.ok /\ cached = {} /\ ~written.ok
  <2>1. AcquireTexture(w, content) = [written EXCEPT !.next = IF created.ok THEN @ + 1 ELSE @]
    BY <1>5 DEF AcquireTexture, created, written
  <2>2. CASE created.ok
    <3>1. AcquireTexture(w, content) = [written EXCEPT !.next = @ + 1]
      BY <2>1, <2>2
    <3>2. Keeps([written EXCEPT !.next = @ + 1], w)
      BY <1>2 DEF IsWork, Keeps
    <3> QED BY <1>2, <3>1, <3>2, SkippedInHand
  <2>3. CASE ~created.ok
    <3>1. Same(AcquireTexture(w, content), written)
      BY <1>2, <2>1, <2>3 DEF Same, IsWork
    <3> QED BY <1>2, <3>1, SameAccounted DEF InHand, Same, Keeps
  <2> QED BY <2>2, <2>3
<1>6. CASE w.ok /\ cached = {} /\ written.ok
  <2> DEFINE r == [written EXCEPT !.host = Put(@, written.next, {}), !.next = @ + 1,
                     !.textures = Put(@, written.next, [content |-> content, refs |-> 1]),
                     !.held = Append(@, written.next)]
  <2>1. AcquireTexture(w, content) = r
    BY <1>2, <1>6 DEF AcquireTexture, created, written
  <2>2. Keeps(r, w)
    BY <1>2 DEF IsWork, Keeps
  <2> HIDE DEF r
  <2>3. InHand(r, S)
    BY <1>2, CreatedInHand DEF r
  <2> QED BY <2>1, <2>2, <2>3
<1> QED BY <1>3, <1>4, <1>5, <1>6

----------------------------------------------------------------------------
(* What requests leave of the state before: the resources of S as they     *)
(* were, and the meshes; a new one has a new resource.                     *)

Later(r, w, S) ==
  /\ w.next \in Nat /\ r.next \in Nat /\ w.next <= r.next
  /\ \A id \in S : r.host[id] = w.host[id]
  /\ w.meshes \subseteq r.meshes
  /\ \A e \in r.meshes : e \in w.meshes \/ (e.resource \in Nat /\ w.next <= e.resource)

LEMMA LaterSame ==
  ASSUME NEW w, NEW r, NEW S, w.next \in Nat,
         r.next = w.next, r.host = w.host, r.meshes = w.meshes
  PROVE  Later(r, w, S)
BY DEF Later

LEMMA LaterLater ==
  ASSUME NEW w, NEW u, NEW r, NEW S, Later(u, w, S), Later(r, u, S)
  PROVE  Later(r, w, S)
BY DEF Later

LEMMA RequestLater ==
  ASSUME NEW w, NEW S, InHand(w, S)
  PROVE  Later(Request(w), w, S)
<1>1. IsWork(w) /\ w.next \in Nat
  BY DEF InHand, Accounted, Issued
<1> QED BY <1>1, RequestSame, LaterSame DEF Same

LEMMA NewResourceLater ==
  ASSUME NEW w, NEW S, InHand(w, S)
  PROVE  /\ Later(NewResource(w), w, S)
         /\ NewResource(w).ok => NewResource(w).next = w.next + 1
<1>1. IsWork(w) /\ w.next \in Nat /\ S \subseteq DOMAIN w.host /\ w.next \notin DOMAIN w.host
  BY DEF InHand, Accounted, Issued, Places
<1>2. CASE ~Request(w).ok
  BY <1>2, RequestLater DEF NewResource
<1>3. CASE Request(w).ok
  <2> DEFINE q == Request(w)
             r == [q EXCEPT !.host = Put(@, w.next, {}), !.next = @ + 1, !.made = @ \cup {w.next}]
  <2>1. NewResource(w) = r
    BY <1>3 DEF NewResource
  <2>2. Same(q, w)
    BY <1>1, RequestSame
  <2> HIDE DEF q
  <2>3. r.host = Put(w.host, w.next, {}) /\ r.next = w.next + 1 /\ r.meshes = w.meshes
    BY <2>2 DEF Same, IsWork
  <2> HIDE DEF r
  <2>4. \A id \in S : r.host[id] = w.host[id]
    BY <1>1, <2>3 DEF Put
  <2> QED BY <1>1, <2>1, <2>3, <2>4 DEF Later
<1> QED BY <1>2, <1>3

LEMMA AcquireLater ==
  ASSUME NEW w, NEW S, NEW content, InHand(w, S)
  PROVE  Later(AcquireTexture(w, content), w, S)
<1> DEFINE cached == {id \in DOMAIN w.textures : w.textures[id].content = content}
           shared == CHOOSE id \in cached : TRUE
           created == Request(w)
           written == Request(created)
           r == AcquireTexture(w, content)
<1>1. IsWork(w) /\ w.next \in Nat /\ S \subseteq DOMAIN w.host /\ w.next \notin DOMAIN w.host
  BY DEF InHand, Accounted, Issued, Places
<1>2. /\ IsWork(written) /\ written.next = w.next /\ written.host = w.host
      /\ written.meshes = w.meshes
  BY <1>1, RequestSame DEF Same
<1>3. CASE ~w.ok
  BY <1>1, <1>3, LaterSame DEF AcquireTexture
<1>4. CASE w.ok /\ cached # {}
  <2>1. r = [w EXCEPT !.textures[shared].refs = @ + 1, !.held = Append(@, shared)]
    BY <1>4 DEF AcquireTexture
  <2> HIDE DEF shared, cached
  <2>2. r.next = w.next /\ r.host = w.host /\ r.meshes = w.meshes
    BY <1>1, <2>1 DEF IsWork
  <2> HIDE DEF r
  <2> QED BY <1>1, <2>2, LaterSame DEF r
<1>5. CASE w.ok /\ cached = {} /\ ~written.ok
  <2>1. r = [written EXCEPT !.next = IF created.ok THEN @ + 1 ELSE @]
    BY <1>5 DEF AcquireTexture
  <2> HIDE DEF written, created, cached
  <2>2. r.next \in {w.next, w.next + 1} /\ r.host = w.host /\ r.meshes = w.meshes
    BY <1>2, <2>1 DEF IsWork
  <2> HIDE DEF r
  <2>3. Later(r, w, S)
    BY <1>1, <2>2 DEF Later
  <2> QED BY <2>3 DEF r
<1>6. CASE w.ok /\ cached = {} /\ written.ok
  <2>1. r = [written EXCEPT !.host = Put(@, w.next, {}), !.next = @ + 1,
                            !.textures = Put(@, w.next, [content |-> content, refs |-> 1]),
                            !.held = Append(@, w.next)]
    BY <1>6 DEF AcquireTexture
  <2> HIDE DEF written, created, cached
  <2>2. r.host = Put(w.host, w.next, {}) /\ r.next = w.next + 1 /\ r.meshes = w.meshes
    BY <1>2, <2>1 DEF IsWork
  <2> HIDE DEF r
  <2>3. \A id \in S : r.host[id] = w.host[id]
    BY <1>1, <2>2 DEF Put
  <2>4. Later(r, w, S)
    BY <1>1, <2>2, <2>3 DEF Later
  <2> QED BY <2>4 DEF r
<1> QED BY <1>3, <1>4, <1>5, <1>6

----------------------------------------------------------------------------
(* Several textures.                                                       *)

LEMMA Least ==
  ASSUME NEW N, N \subseteq Nat, N # {}
  PROVE  \E n \in N : \A m \in N : ~(m < n)
<1>1. PICK n \in N : \A m \in N : ~(<<m, n>> \in OpToRel(<, Nat))
  BY NatLessThanWellFounded, WFMin
<1> QED BY <1>1 DEF OpToRel

\* f lists what the first n textures come to.
Acquires(f, w, contents, n) ==
  f = [k \in 0 .. n |-> IF k = 0 THEN w ELSE AcquireTexture(f[k - 1], contents[k])]

LEMMA AcquiresExist ==
  ASSUME NEW w, NEW contents
  PROVE  \A n \in Nat : \E f : Acquires(f, w, contents, n)
<1> DEFINE Without == {n \in Nat : ~\E f : Acquires(f, w, contents, n)}
<1> SUFFICES ASSUME Without # {} PROVE FALSE
  OBVIOUS
<1>1. PICK n \in Without : \A m \in Without : ~(m < n)
  <2>1. Without \subseteq Nat
    OBVIOUS
  <2> HIDE DEF Without
  <2> QED BY <2>1, Least
<1>2. CASE n = 0
  <2>1. Acquires([k \in 0 .. 0 |-> w], w, contents, 0)
    BY DEF Acquires
  <2> QED BY <1>1, <1>2, <2>1
<1>3. CASE n # 0
  <2>1. n - 1 \in Nat /\ n - 1 \notin Without
    BY <1>1, <1>3
  <2>2. PICK f : Acquires(f, w, contents, n - 1)
    BY <2>1
  <2> DEFINE g == [k \in 0 .. n |-> IF k = n THEN AcquireTexture(f[n - 1], contents[n]) ELSE f[k]]
  <2>3. \A k \in 0 .. n - 1 :
          g[k] = f[k] /\ f[k] = IF k = 0 THEN w ELSE AcquireTexture(f[k - 1], contents[k])
    BY <2>1, <2>2 DEF Acquires
  <2>4. \A k \in 0 .. n : g[k] = IF k = 0 THEN w ELSE AcquireTexture(g[k - 1], contents[k])
    <3> SUFFICES ASSUME NEW k \in 0 .. n
                 PROVE  g[k] = IF k = 0 THEN w ELSE AcquireTexture(g[k - 1], contents[k])
      OBVIOUS
    <3>1. CASE k = n
      <4>1. g[k - 1] = f[n - 1] /\ n - 1 \in 0 .. n - 1
        BY <2>1, <2>3, <3>1
      <4> QED BY <1>3, <3>1, <4>1
    <3>2. CASE k # n
      <4>1. k \in 0 .. n - 1 /\ (k # 0 => k - 1 \in 0 .. n - 1)
        BY <3>2
      <4>2. g[k] = f[k] /\ (k # 0 => g[k - 1] = f[k - 1])
        BY <2>3, <4>1
      <4> HIDE DEF g
      <4> QED BY <2>3, <4>1, <4>2
    <3> QED BY <3>1, <3>2
  <2>5. Acquires(g, w, contents, n)
    BY <2>4 DEF Acquires
  <2> QED BY <1>1, <2>5
<1> QED BY <1>2, <1>3

LEMMA AcquireAllInHand ==
  ASSUME NEW w, NEW S, NEW contents, Len(contents) \in Nat, InHand(w, S)
  PROVE  LET r == AcquireAll(w, contents)
         IN  InHand(r, S) /\ Keeps(r, w) /\ Later(r, w, S)
<1> DEFINE last == Len(contents)
           f == CHOOSE g : Acquires(g, w, contents, last)
<1>1. Acquires(f, w, contents, last)
  <2>1. \E g : Acquires(g, w, contents, last)
    BY AcquiresExist
  <2> QED BY <2>1
<1>2. AcquireAll(w, contents) = f[last]
  BY DEF AcquireAll, Acquires
<1> HIDE DEF f
<1> DEFINE Wrong == {k \in 0 .. last : ~(InHand(f[k], S) /\ Keeps(f[k], w) /\ Later(f[k], w, S))}
<1>3. Wrong = {}
  <2> SUFFICES ASSUME Wrong # {} PROVE FALSE
    OBVIOUS
  <2>1. PICK n \in Wrong : \A m \in Wrong : ~(m < n)
    <3>1. Wrong \subseteq Nat
      OBVIOUS
    <3> HIDE DEF Wrong
    <3> QED BY <3>1, Least
  <2>2. n \in 0 .. last /\ f[n] = IF n = 0 THEN w ELSE AcquireTexture(f[n - 1], contents[n])
    BY <1>1, <2>1 DEF Acquires
  <2>3. CASE n = 0
    <3>1. Later(w, w, S)
      BY LaterSame DEF InHand, Accounted, Issued
    <3> QED BY <2>1, <2>2, <2>3, <3>1 DEF Keeps
  <2>4. CASE n # 0
    <3>1. n - 1 \in 0 .. last /\ n - 1 \notin Wrong
      BY <2>1, <2>2, <2>4
    <3>2. InHand(f[n - 1], S) /\ Keeps(f[n - 1], w) /\ Later(f[n - 1], w, S)
      BY <3>1
    <3>3. InHand(f[n], S) /\ Keeps(f[n], w) /\ Later(f[n], w, S)
      BY <2>2, <2>4, <3>2, AcquireInHand, AcquireLater, LaterLater DEF Keeps
    <3> QED BY <2>1, <3>3
  <2> QED BY <2>3, <2>4
<1> QED BY <1>2, <1>3

----------------------------------------------------------------------------
(* Giving back.                                                            *)

\* What is given back of a texture is what counts it beyond the cache.
Surplus(u, lost) ==
  \A id \in DOMAIN u.textures :
    /\ lost[id] \in Nat
    /\ u.textures[id].refs = Cardinality(SlotsOf(u.meshes, id)) + lost[id]
    /\ u.textures[id].refs > 0

LEMMA ReleaseFields ==
  ASSUME NEW u, IsWork(u), NEW lost
  PROVE  LET r == ReleaseUses(u, lost)
             unused == {id \in DOMAIN u.textures : lost[id] > 0 /\ u.textures[id].refs <= lost[id]}
         IN  /\ IsWork(r) /\ r.next = u.next /\ r.pinned = u.pinned /\ r.meshes = u.meshes
             /\ r.made = u.made /\ r.held = u.held /\ r.ok = u.ok
             /\ DOMAIN r.host = DOMAIN u.host \ (unused \ u.pinned)
             /\ \A id \in DOMAIN r.host : r.host[id] = u.host[id]
             /\ DOMAIN r.textures = DOMAIN u.textures \ unused
             /\ \A id \in DOMAIN r.textures :
                  r.textures[id] = [content |-> u.textures[id].content,
                                    refs |-> u.textures[id].refs - lost[id]]
<1> DEFINE unused == {id \in DOMAIN u.textures : lost[id] > 0 /\ u.textures[id].refs <= lost[id]}
           left   == DOMAIN u.textures \ unused
           t == [id \in left |-> [content |-> u.textures[id].content, refs |-> u.textures[id].refs - lost[id]]]
           x == [u EXCEPT !.textures = t]
<1>1. ReleaseUses(u, lost) = Destroyed(x, unused)
  BY DEF ReleaseUses
<1>2. /\ IsWork(x) /\ x.next = u.next /\ x.pinned = u.pinned /\ x.meshes = u.meshes
      /\ x.host = u.host
      /\ x.made = u.made /\ x.held = u.held /\ x.ok = u.ok /\ x.textures = t
  BY DEF IsWork
<1>3. \A id \in left : t[id] = [content |-> u.textures[id].content, refs |-> u.textures[id].refs - lost[id]]
  OBVIOUS
<1>4. DOMAIN t = left
  OBVIOUS
<1> HIDE DEF x, t
<1> DEFINE r == Destroyed(x, unused)
           D == DOMAIN u.host \ (unused \ u.pinned)
<1>5. /\ IsWork(r) /\ r.next = u.next /\ r.pinned = u.pinned /\ r.meshes = u.meshes
      /\ r.made = u.made /\ r.held = u.held /\ r.ok = u.ok /\ r.textures = t
      /\ r.host = [id \in D |-> u.host[id]]
  <2> HIDE DEF unused
  <2> QED BY <1>2 DEF Destroyed, IsWork
<1> HIDE DEF r
<1>6. DOMAIN r.host = D /\ \A id \in DOMAIN r.host : r.host[id] = u.host[id]
  BY <1>5
<1>7. /\ DOMAIN r.textures = DOMAIN u.textures \ unused
      /\ \A id \in DOMAIN r.textures :
           r.textures[id] = [content |-> u.textures[id].content, refs |-> u.textures[id].refs - lost[id]]
  BY <1>3, <1>4, <1>5
<1>8. ReleaseUses(u, lost) = r
  BY <1>1 DEF r
<1> QED BY <1>5, <1>6, <1>7, <1>8

LEMMA ReleaseSettled ==
  ASSUME NEW u, NEW S, NEW lost, IsWork(u),
         Places(S, DOMAIN u.host, u.pinned, u.textures, u.meshes, {}),
         Issued(DOMAIN u.host, u.next), Naming(u.textures, u.meshes, <<>>), Surplus(u, lost)
  PROVE  Settled(ReleaseUses(u, lost), S)
<1> DEFINE r == ReleaseUses(u, lost)
           unused == {id \in DOMAIN u.textures : lost[id] > 0 /\ u.textures[id].refs <= lost[id]}
<1>1. /\ IsWork(r) /\ r.next = u.next /\ r.pinned = u.pinned /\ r.meshes = u.meshes
      /\ DOMAIN r.host = DOMAIN u.host \ (unused \ u.pinned)
      /\ DOMAIN r.textures = DOMAIN u.textures \ unused
      /\ \A id \in DOMAIN r.textures :
           r.textures[id] = [content |-> u.textures[id].content, refs |-> u.textures[id].refs - lost[id]]
  BY ReleaseFields
<1> HIDE DEF r
<1>2. Places(S, DOMAIN r.host, r.pinned, r.textures, r.meshes, {})
  BY <1>1 DEF Places
<1>3. Issued(DOMAIN r.host, r.next)
  BY <1>1 DEF Issued
<1>4. \A id \in DOMAIN u.textures : Cardinality(SlotsOf(u.meshes, id)) \in Nat
  BY FS_CardinalityType DEF Naming
<1>5. Counting(r.textures, r.meshes, <<>>)
  <2> SUFFICES ASSUME NEW id \in DOMAIN r.textures
               PROVE  /\ r.textures[id].refs =
                           Cardinality(SlotsOf(r.meshes, id)) + Cardinality(Holding(<<>>, id))
                      /\ r.textures[id].refs > 0
                      /\ DOMAIN r.textures[id] = {"content", "refs"}
    BY DEF Counting
  <2>1. /\ lost[id] \in Nat
        /\ u.textures[id].refs = Cardinality(SlotsOf(u.meshes, id)) + lost[id]
        /\ u.textures[id].refs > 0 /\ id \in DOMAIN u.textures
    BY <1>1 DEF Surplus
  <2>2. ~(lost[id] > 0 /\ u.textures[id].refs <= lost[id])
    <3>1. id \in DOMAIN u.textures \ unused
      BY <1>1
    <3> QED BY <3>1
  <2>6. r.textures[id] = [content |-> u.textures[id].content, refs |-> u.textures[id].refs - lost[id]]
    BY <1>1
  <2>3. DOMAIN r.textures[id] = {"content", "refs"}
    BY <2>6
  <2>4. r.textures[id].refs = u.textures[id].refs - lost[id]
    BY <2>6
  <2>5. Cardinality(Holding(<<>>, id)) = 0
    BY NothingHeld
  <2> QED BY <1>1, <1>4, <2>1, <2>2, <2>3, <2>4, <2>5
<1>6. Naming(r.textures, r.meshes, <<>>)
  <2>1. \A e \in u.meshes : \A i \in DOMAIN e.textures : e.textures[i] \notin unused
    <3> SUFFICES ASSUME NEW e \in u.meshes, NEW i \in DOMAIN e.textures, e.textures[i] \in unused
                 PROVE  FALSE
      OBVIOUS
    <3> DEFINE id == e.textures[i]
    <3>1. id \in DOMAIN u.textures /\ lost[id] > 0 /\ u.textures[id].refs <= lost[id]
      OBVIOUS
    <3>2. /\ lost[id] \in Nat
          /\ u.textures[id].refs = Cardinality(SlotsOf(u.meshes, id)) + lost[id]
      BY <3>1 DEF Surplus
    <3>3. Cardinality(SlotsOf(u.meshes, id)) = 0
      BY <1>4, <3>1, <3>2
    <3>4. IsFiniteSet(SlotsOf(u.meshes, id))
      BY DEF Naming
    <3>5. SlotsOf(u.meshes, id) = {}
      BY <3>3, <3>4, FS_EmptySet
    <3>6. <<e.resource, i>> \in SlotsOf(u.meshes, id)
      BY DEF SlotsOf, Slots
    <3> QED BY <3>5, <3>6
  <2>2. \A e \in u.meshes : e.textures \in Seq(DOMAIN r.textures)
    <3> SUFFICES ASSUME NEW e \in u.meshes PROVE e.textures \in Seq(DOMAIN r.textures)
      OBVIOUS
    <3>1. e.textures \in Seq(DOMAIN u.textures)
      BY DEF Naming
    <3>2. \A i \in 1 .. Len(e.textures) : e.textures[i] \in DOMAIN u.textures
      BY <3>1
    <3>3. \A i \in 1 .. Len(e.textures) : e.textures[i] \in DOMAIN r.textures
      BY <1>1, <2>1, <3>1, <3>2
    <3> DEFINE D == DOMAIN r.textures
    <3> HIDE DEF D, unused
    <3>4. e.textures \in Seq(D)
      BY <3>1, <3>3 DEF D
    <3> QED BY <3>4 DEF D
  <2>3. <<>> \in Seq(DOMAIN r.textures)
    OBVIOUS
  <2> QED BY <1>1, <2>2, <2>3 DEF Naming
<1> QED BY <1>1, <1>2, <1>3, <1>5, <1>6 DEF Settled, Accounted, r

LEMMA DestroyedFields ==
  ASSUME NEW w, IsWork(w), NEW ids
  PROVE  LET r == Destroyed(w, ids)
         IN  /\ IsWork(r) /\ r.next = w.next /\ r.pinned = w.pinned
             /\ r.textures = w.textures /\ r.meshes = w.meshes
             /\ r.made = w.made /\ r.held = w.held /\ r.ok = w.ok
             /\ DOMAIN r.host = DOMAIN w.host \ (ids \ w.pinned)
             /\ \A id \in DOMAIN r.host : r.host[id] = w.host[id]
<1> DEFINE r == Destroyed(w, ids)
<1>1. /\ IsWork(r) /\ r.next = w.next /\ r.pinned = w.pinned /\ r.textures = w.textures
      /\ r.meshes = w.meshes
      /\ r.made = w.made /\ r.held = w.held /\ r.ok = w.ok
      /\ r.host = [id \in DOMAIN w.host \ (ids \ w.pinned) |-> w.host[id]]
  BY DEF Destroyed, IsWork
<1> HIDE DEF r
<1>2. DOMAIN r.host = DOMAIN w.host \ (ids \ w.pinned) /\ \A id \in DOMAIN r.host : r.host[id] = w.host[id]
  BY <1>1
<1> QED BY <1>1, <1>2 DEF r

LEMMA HeldSettled ==
  ASSUME NEW w, NEW S, Accounted(w, S, {}, w.held)
  PROVE  Settled(ReleaseHeld(w), S)
<1> DEFINE lost == [id \in DOMAIN w.textures |-> Cardinality(Holding(w.held, id))]
<1>1. /\ IsWork(w) /\ Places(S, DOMAIN w.host, w.pinned, w.textures, w.meshes, {})
      /\ Issued(DOMAIN w.host, w.next)
      /\ Naming(w.textures, w.meshes, w.held) /\ Counting(w.textures, w.meshes, w.held)
  BY DEF Accounted
<1>2. Surplus(w, lost)
  BY <1>1, HoldingFinite DEF Surplus, Naming, Counting
<1>3. Naming(w.textures, w.meshes, <<>>)
  BY <1>1 DEF Naming
<1> HIDE DEF lost
<1> QED BY <1>1, <1>2, <1>3, ReleaseSettled DEF ReleaseHeld, lost

\* A refused request leaves nothing of the mesh in hand.
LEMMA UndoSettled ==
  ASSUME NEW w, NEW S, InHand(w, S)
  PROVE  Settled(Undo(w), S)
<1> DEFINE u == Destroyed(w, w.made)
<1>1. /\ IsWork(w) /\ Places(S, DOMAIN w.host, w.pinned, w.textures, w.meshes, w.made)
      /\ Issued(DOMAIN w.host, w.next)
      /\ Naming(w.textures, w.meshes, w.held) /\ Counting(w.textures, w.meshes, w.held)
  BY DEF InHand, Accounted
<1>2. /\ IsWork(u) /\ u.next = w.next /\ u.pinned = w.pinned /\ u.textures = w.textures
      /\ u.meshes = w.meshes
      /\ u.held = w.held /\ DOMAIN u.host = DOMAIN w.host \ (w.made \ w.pinned)
  BY <1>1, DestroyedFields
<1> HIDE DEF u
<1>3. Places(S, DOMAIN u.host, u.pinned, u.textures, u.meshes, {})
  BY <1>1, <1>2 DEF Places
<1>4. Accounted(u, S, {}, u.held)
  BY <1>1, <1>2, <1>3 DEF Accounted, Issued
<1> QED BY <1>4, HeldSettled DEF Undo, u

LEMMA ReclaimedSettled ==
  ASSUME NEW w, NEW S, NEW active, Settled(w, S)
  PROVE  Settled(Reclaimed(w, active), S)
<1> DEFINE gone == {e \in w.meshes : e.resource \notin active}
           left == w.meshes \ gone
           x == [w EXCEPT !.meshes = left]
           u == Destroyed(x, OwnOf(gone))
           lost == [id \in DOMAIN w.textures |-> Cardinality(SlotsOf(gone, id))]
<1>1. /\ IsWork(w) /\ Places(S, DOMAIN w.host, w.pinned, w.textures, w.meshes, {})
      /\ Issued(DOMAIN w.host, w.next)
      /\ Naming(w.textures, w.meshes, <<>>) /\ Counting(w.textures, w.meshes, <<>>)
  BY DEF Settled, Accounted
<1>2. Reclaimed(w, active) = ReleaseUses(u, lost)
  BY DEF Reclaimed, OwnOf
<1>3. /\ IsWork(x) /\ x.next = w.next /\ x.pinned = w.pinned /\ x.textures = w.textures
      /\ x.meshes = left /\ x.host = w.host
  BY <1>1 DEF IsWork
<1> HIDE DEF x
<1>4. /\ IsWork(u) /\ u.next = w.next /\ u.pinned = w.pinned /\ u.textures = w.textures
      /\ u.meshes = left
      /\ DOMAIN u.host = DOMAIN w.host \ (OwnOf(gone) \ w.pinned)
  BY <1>3, DestroyedFields
<1> HIDE DEF u
<1>5. gone \in SUBSET w.meshes /\ left \subseteq w.meshes
  OBVIOUS
<1>6. OwnOf(w.meshes) = OwnOf(left) \cup OwnOf(gone)
  BY DEF OwnOf
<1>7. OwnOf(left) \cap OwnOf(gone) = {}
  <2>1. \A e \in left, f \in gone : Own(e) \cap Own(f) = {}
    BY <1>1 DEF Places
  <2> QED BY <2>1 DEF OwnOf
<1>8. \A e, f \in w.meshes : Own(e) \cap Own(f) # {} => e = f
  BY <1>1 DEF Places
<1>9. \A id : /\ IsFiniteSet(SlotsOf(left, id))
              /\ Cardinality(SlotsOf(gone, id)) \in Nat
              /\ Cardinality(SlotsOf(w.meshes, id)) =
                   Cardinality(SlotsOf(left, id)) + Cardinality(SlotsOf(gone, id))
  <2> TAKE id
  <2>1. IsFiniteSet(SlotsOf(w.meshes, id))
    BY <1>1 DEF Naming
  <2> HIDE DEF gone
  <2> QED BY <1>5, <1>8, <2>1, SlotsOfFewer
<1>10. Places(S, DOMAIN u.host, u.pinned, u.textures, u.meshes, {})
  <2> HIDE DEF gone, left
  <2> QED BY <1>1, <1>4, <1>5, <1>6, <1>7 DEF Places
<1>11. Issued(DOMAIN u.host, u.next)
  BY <1>1, <1>4 DEF Issued
<1>12. Naming(u.textures, u.meshes, <<>>)
  BY <1>1, <1>4, <1>5, <1>9 DEF Naming
<1>13. Surplus(u, lost)
  <2> SUFFICES ASSUME NEW id \in DOMAIN w.textures
               PROVE  /\ Cardinality(SlotsOf(gone, id)) \in Nat
                      /\ w.textures[id].refs = Cardinality(SlotsOf(left, id)) + Cardinality(SlotsOf(gone, id))
                      /\ w.textures[id].refs > 0
    BY <1>4 DEF Surplus
  <2>1. w.textures[id].refs = Cardinality(SlotsOf(w.meshes, id)) + Cardinality(Holding(<<>>, id))
    BY <1>1 DEF Counting
  <2>2. Cardinality(Holding(<<>>, id)) = 0
    BY NothingHeld
  <2>3. w.textures[id].refs > 0
    BY <1>1 DEF Counting
  <2>4. IsFiniteSet(SlotsOf(left, id))
    BY <1>9
  <2>5. Cardinality(SlotsOf(left, id)) \in Nat
    BY <2>4, FS_CardinalityType
  <2> HIDE DEF gone, left
  <2> QED BY <1>9, <2>1, <2>2, <2>3, <2>5
<1> HIDE DEF gone, left, lost
<1> QED BY <1>2, <1>4, <1>10, <1>11, <1>12, <1>13, ReleaseSettled

----------------------------------------------------------------------------
(* A mesh.                                                                 *)

LEMMA BuffersInHand ==
  ASSUME NEW w, NEW S, NEW mesh, InHand(w, S)
  PROVE  InHand(CreateBuffers(w, mesh), S)
BY NewResourceInHand DEF CreateBuffers

LEMMA FilledInHand ==
  ASSUME NEW w, NEW S, NEW mesh, InHand(w, S)
  PROVE  InHand(FillBuffers(w, mesh), S)
BY RequestInHand DEF FillBuffers

LEMMA DescribedInHand ==
  ASSUME NEW w, NEW S, NEW mesh, InHand(w, S)
  PROVE  InHand(Described(w, mesh), S)
BY NewResourceInHand, RequestInHand DEF Described

\* The last request made the structure.
LEMMA BuiltInHand ==
  ASSUME NEW w, NEW S, InHand(w, S)
  PROVE  LET r == Request(NewResource(w))
         IN  InHand(r, S) /\ (r.ok => r.next - 1 \in r.made)
<1> DEFINE n == NewResource(w)
<1>1. InHand(n, S) /\ (n.ok => n.next - 1 \in n.made)
  BY NewResourceInHand
<1> HIDE DEF n
<1>2. IsWork(n)
  BY <1>1 DEF InHand, Accounted
<1>3. Same(Request(n), n) /\ (Request(n).ok => n.ok) /\ InHand(Request(n), S)
  BY <1>1, <1>2, RequestSame, RequestInHand
<1> QED BY <1>1, <1>3 DEF Same, n

LEMMA KeptSettled ==
  ASSUME NEW w, NEW S, NEW mesh, InHand(w, S), w.ok => w.next - 1 \in w.made
  PROVE  Settled(Kept(w, mesh), S)
<1>1. CASE ~w.ok
  BY <1>1, UndoSettled DEF Kept
<1>2. CASE w.ok
  <2> DEFINE e == Entry(w, mesh)
             r == [w EXCEPT !.meshes = @ \cup {e}]
  <2>1. e.resource = w.next - 1 /\ e.textures = w.held /\ Own(e) = w.made
    BY <1>2 DEF Entry, Own
  <2>2. /\ IsWork(w) /\ Places(S, DOMAIN w.host, w.pinned, w.textures, w.meshes, w.made)
        /\ Issued(DOMAIN w.host, w.next)
        /\ Naming(w.textures, w.meshes, w.held) /\ Counting(w.textures, w.meshes, w.held)
    BY DEF InHand, Accounted
  <2>3. /\ IsWork(r) /\ r.host = w.host /\ r.next = w.next /\ r.pinned = w.pinned
        /\ r.textures = w.textures
        /\ r.meshes = w.meshes \cup {e}
    BY <2>2 DEF IsWork
  <2>4. Kept(w, mesh) = r
    BY <1>2 DEF Kept
  <2> HIDE DEF e, r
  <2>5. OwnOf(r.meshes) = OwnOf(w.meshes) \cup w.made
    BY <2>1, <2>3 DEF OwnOf
  <2>6. \A f \in w.meshes : Own(f) \cap w.made = {}
    BY <2>2 DEF Places, OwnOf
  <2>7. Places(S, DOMAIN r.host, r.pinned, r.textures, r.meshes, {})
    <3>1. \A f, g \in r.meshes : Own(f) \cap Own(g) # {} => f = g
      BY <2>1, <2>2, <2>3, <2>6 DEF Places
    <3> QED BY <2>2, <2>3, <2>5, <3>1 DEF Places
  <2>8. \A f \in w.meshes : e.resource # f.resource
    BY <1>2, <2>1, <2>6 DEF Own
  <2>9. \A id : /\ IsFiniteSet(SlotsOf(r.meshes, id))
                /\ Cardinality(SlotsOf(r.meshes, id)) =
                     Cardinality(SlotsOf(w.meshes, id)) + Cardinality(Holding(w.held, id))
    <3> TAKE id
    <3>1. IsFiniteSet(SlotsOf(w.meshes, id)) /\ e.textures \in Seq(DOMAIN w.textures)
      BY <2>1, <2>2 DEF Naming
    <3>2. /\ IsFiniteSet(SlotsOf(w.meshes \cup {e}, id))
          /\ Cardinality(SlotsOf(w.meshes \cup {e}, id)) =
               Cardinality(SlotsOf(w.meshes, id)) + Cardinality(Holding(e.textures, id))
      BY <2>8, <3>1, SlotsOfMore
    <3> QED BY <2>1, <2>3, <3>2
  <2>10. Naming(r.textures, r.meshes, <<>>)
    <3>1. \A f \in r.meshes : f.textures \in Seq(DOMAIN r.textures)
      BY <2>1, <2>2, <2>3 DEF Naming
    <3>2. <<>> \in Seq(DOMAIN r.textures)
      OBVIOUS
    <3> QED BY <2>9, <3>1, <3>2 DEF Naming
  <2>11. Counting(r.textures, r.meshes, <<>>)
    <3> SUFFICES ASSUME NEW id \in DOMAIN w.textures
                 PROVE  /\ w.textures[id].refs =
                             Cardinality(SlotsOf(r.meshes, id)) + Cardinality(Holding(<<>>, id))
                        /\ w.textures[id].refs > 0
                        /\ DOMAIN w.textures[id] = {"content", "refs"}
      BY <2>3 DEF Counting
    <3>1. /\ w.textures[id].refs =
               Cardinality(SlotsOf(w.meshes, id)) + Cardinality(Holding(w.held, id))
          /\ w.textures[id].refs > 0
          /\ DOMAIN w.textures[id] = {"content", "refs"}
      BY <2>2 DEF Counting
    <3>2. Cardinality(SlotsOf(w.meshes, id)) \in Nat /\ Cardinality(Holding(w.held, id)) \in Nat
      BY <2>2, HoldingFinite, FS_CardinalityType DEF Naming
    <3>3. Cardinality(Holding(<<>>, id)) = 0
      BY NothingHeld
    <3> QED BY <2>9, <3>1, <3>2, <3>3
  <2> QED BY <2>2, <2>3, <2>4, <2>7, <2>10, <2>11 DEF Settled, Accounted
<1> QED BY <1>1, <1>2

LEMMA MeshSettled ==
  ASSUME NEW w, NEW S, NEW mesh, Len(mesh.textures) \in Nat, Settled(w, S)
  PROVE  Settled(MeshStructure(w, mesh), S)
<1> DEFINE fresh    == [w EXCEPT !.made = {}, !.held = <<>>]
           textured == AcquireAll(CreateBuffers(fresh, mesh), mesh.textures)
           filled   == FillBuffers(Described(textured, mesh), mesh)
           built    == Request(NewResource(filled))
<1>1. InHand(fresh, S)
  <2>1. /\ IsWork(fresh) /\ fresh.host = w.host /\ fresh.next = w.next
        /\ fresh.pinned = w.pinned /\ fresh.meshes = w.meshes
        /\ fresh.textures = w.textures /\ fresh.made = {} /\ fresh.held = <<>>
    BY DEF Settled, Accounted, IsWork
  <2> HIDE DEF fresh
  <2> QED BY <2>1 DEF InHand, Settled, Accounted
<1> HIDE DEF fresh
<1>2. InHand(textured, S)
  BY <1>1, BuffersInHand, AcquireAllInHand
<1> HIDE DEF textured
<1>3. InHand(filled, S)
  BY <1>2, DescribedInHand, FilledInHand
<1> HIDE DEF filled
<1>4. InHand(built, S) /\ (built.ok => built.next - 1 \in built.made)
  BY <1>3, BuiltInHand
<1> HIDE DEF built
<1>5. Settled(Kept(built, mesh), S)
  BY <1>4, KeptSettled
<1> QED BY <1>5 DEF MeshStructure, built, filled, textured, fresh

----------------------------------------------------------------------------
(* What a mesh leaves of the state before.                                 *)

LEMMA ReleaseLater ==
  ASSUME NEW u, NEW S, NEW lost, IsWork(u), u.next \in Nat,
         S \subseteq DOMAIN u.host, S \cap DOMAIN u.textures = {}
  PROVE  LET r == ReleaseUses(u, lost)
         IN  Later(r, u, S) /\ r.meshes = u.meshes /\ r.ok = u.ok
<1> DEFINE r == ReleaseUses(u, lost)
           unused == {id \in DOMAIN u.textures : lost[id] > 0 /\ u.textures[id].refs <= lost[id]}
<1>1. /\ r.next = u.next /\ r.meshes = u.meshes /\ r.ok = u.ok
      /\ DOMAIN r.host = DOMAIN u.host \ (unused \ u.pinned)
      /\ \A id \in DOMAIN r.host : r.host[id] = u.host[id]
  BY ReleaseFields
<1> HIDE DEF r
<1>2. unused \subseteq DOMAIN u.textures
  OBVIOUS
<1> HIDE DEF unused
<1>3. \A id \in S : r.host[id] = u.host[id]
  BY <1>1, <1>2
<1> QED BY <1>1, <1>3 DEF Later, r

LEMMA UndoLater ==
  ASSUME NEW w, NEW S, InHand(w, S)
  PROVE  Later(Undo(w), w, S) /\ Undo(w).ok = w.ok
<1> DEFINE u == Destroyed(w, w.made)
           lost == [id \in DOMAIN u.textures |-> Cardinality(Holding(u.held, id))]
<1>1. /\ IsWork(w) /\ w.next \in Nat
      /\ Places(S, DOMAIN w.host, w.pinned, w.textures, w.meshes, w.made)
  BY DEF InHand, Accounted, Issued
<1>2. /\ IsWork(u) /\ u.next = w.next /\ u.textures = w.textures /\ u.meshes = w.meshes
      /\ u.ok = w.ok /\ DOMAIN u.host = DOMAIN w.host \ (w.made \ w.pinned)
      /\ \A id \in DOMAIN u.host : u.host[id] = w.host[id]
  BY <1>1, DestroyedFields
<1>3. Undo(w) = ReleaseUses(u, lost)
  BY DEF Undo, ReleaseHeld
<1> HIDE DEF u, lost
<1>4. S \subseteq DOMAIN u.host /\ S \cap DOMAIN u.textures = {}
  BY <1>1, <1>2 DEF Places
<1>5. Later(u, w, S)
  BY <1>1, <1>2, <1>4 DEF Later
<1>6. Later(ReleaseUses(u, lost), u, S) /\ ReleaseUses(u, lost).ok = u.ok
  BY <1>1, <1>2, <1>4, ReleaseLater
<1> QED BY <1>2, <1>3, <1>5, <1>6, LaterLater

LEMMA KeptLater ==
  ASSUME NEW w, NEW before, NEW S, NEW mesh, InHand(w, S), Later(w, before, S),
         w.ok => w.next - 1 \in Nat /\ before.next <= w.next - 1
  PROVE  LET r == Kept(w, mesh)
         IN  Later(r, before, S) /\ (r.ok => \E e \in r.meshes : e.mesh = mesh)
<1>1. CASE ~w.ok
  BY <1>1, UndoLater, LaterLater DEF Kept
<1>2. CASE w.ok
  <2> DEFINE e == Entry(w, mesh)
             r == [w EXCEPT !.meshes = @ \cup {e}]
  <2>1. e.resource = w.next - 1 /\ e.mesh = mesh
    BY DEF Entry
  <2>2. Kept(w, mesh) = r
    BY <1>2 DEF Kept
  <2> HIDE DEF e
  <2>3. r.host = w.host /\ r.next = w.next /\ r.meshes = w.meshes \cup {e}
    BY DEF InHand, Accounted, IsWork
  <2> HIDE DEF r
  <2>4. Later(r, before, S)
    BY <1>2, <2>1, <2>3 DEF Later
  <2> QED BY <2>1, <2>2, <2>3, <2>4
<1> QED BY <1>1, <1>2

LEMMA MeshLater ==
  ASSUME NEW w, NEW S, NEW mesh, Len(mesh.textures) \in Nat, Settled(w, S)
  PROVE  LET r == MeshStructure(w, mesh)
         IN  Later(r, w, S) /\ (r.ok => Cached(r, mesh) # {})
<1> DEFINE fresh    == [w EXCEPT !.made = {}, !.held = <<>>]
           created  == CreateBuffers(fresh, mesh)
           textured == AcquireAll(created, mesh.textures)
           described == Described(textured, mesh)
           filled   == FillBuffers(described, mesh)
           made     == NewResource(filled)
           built    == Request(made)
<1>1. InHand(fresh, S) /\ fresh.next = w.next /\ fresh.host = w.host /\ fresh.meshes = w.meshes
      /\ w.next \in Nat
  <2>1. /\ IsWork(fresh) /\ fresh.host = w.host /\ fresh.next = w.next
        /\ fresh.pinned = w.pinned /\ fresh.meshes = w.meshes
        /\ fresh.textures = w.textures /\ fresh.made = {} /\ fresh.held = <<>>
    BY DEF Settled, Accounted, IsWork
  <2>2. w.next \in Nat
    BY DEF Settled, Accounted, Issued
  <2> HIDE DEF fresh
  <2> QED BY <2>1, <2>2 DEF InHand, Settled, Accounted
<1> HIDE DEF fresh
<1>2. Later(fresh, w, S)
  BY <1>1, LaterSame
<1>3. InHand(created, S) /\ Later(created, fresh, S)
  BY <1>1, NewResourceInHand, NewResourceLater, LaterLater DEF CreateBuffers
<1> HIDE DEF created
<1>4. InHand(textured, S) /\ Later(textured, created, S)
  BY <1>3, AcquireAllInHand
<1> HIDE DEF textured
<1>5. InHand(described, S) /\ Later(described, textured, S)
  <2>1. CASE mesh.descriptor
    BY <1>4, <2>1, NewResourceInHand, NewResourceLater, RequestInHand, RequestLater, LaterLater
       DEF Described
  <2>2. CASE ~mesh.descriptor
    BY <1>4, <2>2, LaterSame DEF Described, InHand, Accounted, Issued
  <2> QED BY <2>1, <2>2
<1> HIDE DEF described
<1>6. InHand(filled, S) /\ Later(filled, described, S)
  BY <1>5, RequestInHand, RequestLater, LaterLater DEF FillBuffers
<1> HIDE DEF filled
<1>7. InHand(made, S) /\ Later(made, filled, S) /\ (made.ok => made.next = filled.next + 1)
  BY <1>6, NewResourceInHand, NewResourceLater
<1> HIDE DEF made
<1>8. InHand(built, S) /\ Later(built, made, S) /\ built.next = made.next /\ (built.ok => made.ok)
  BY <1>7, RequestInHand, RequestLater, RequestSame DEF InHand, Accounted, Same
<1> HIDE DEF built
<1>9. Later(filled, w, S)
  BY <1>2, <1>3, <1>4, <1>5, <1>6, LaterLater
<1>10. Later(built, w, S)
  BY <1>7, <1>8, <1>9, LaterLater
<1>11. built.ok => built.next - 1 \in Nat /\ w.next <= built.next - 1
  BY <1>7, <1>8, <1>9 DEF Later
<1>12. Later(Kept(built, mesh), w, S)
       /\ (Kept(built, mesh).ok => \E e \in Kept(built, mesh).meshes : e.mesh = mesh)
  BY <1>8, <1>10, <1>11, KeptLater
<1>13. CASE Cached(w, mesh) # {}
  <2>1. MeshStructure(w, mesh) = w
    BY <1>13 DEF MeshStructure
  <2> QED BY <1>1, <1>13, <2>1, LaterSame
<1>14. CASE Cached(w, mesh) = {}
  <2>1. MeshStructure(w, mesh) = Kept(built, mesh)
    BY <1>14 DEF MeshStructure, built, made, filled, described, textured, created, fresh
  <2> QED BY <1>12, <2>1 DEF Cached
<1> QED BY <1>13, <1>14

----------------------------------------------------------------------------
(* The meshes of a scene.                                                  *)

\* f lists what the first n meshes come to.
Before(w) == [w |-> w, children |-> {}, active |-> {}]
Walks(f, w, meshes, n) ==
  f = [k \in 0 .. n |-> IF k = 0 THEN Before(w) ELSE Instanced(f[k - 1], meshes[k])]

LEMMA WalksExist ==
  ASSUME NEW w, NEW meshes
  PROVE  \A n \in Nat : \E f : Walks(f, w, meshes, n)
<1> DEFINE Without == {n \in Nat : ~\E f : Walks(f, w, meshes, n)}
           first == Before(w)
<1> SUFFICES ASSUME Without # {} PROVE FALSE
  OBVIOUS
<1>1. PICK n \in Without : \A m \in Without : ~(m < n)
  <2>1. Without \subseteq Nat
    OBVIOUS
  <2> HIDE DEF Without
  <2> QED BY <2>1, Least
<1>2. CASE n = 0
  <2>1. Walks([k \in 0 .. 0 |-> first], w, meshes, 0)
    BY DEF Walks
  <2> QED BY <1>1, <1>2, <2>1
<1>3. CASE n # 0
  <2>1. n - 1 \in Nat /\ n - 1 \notin Without
    BY <1>1, <1>3
  <2>2. PICK f : Walks(f, w, meshes, n - 1)
    BY <2>1
  <2> DEFINE g == [k \in 0 .. n |-> IF k = n THEN Instanced(f[n - 1], meshes[n]) ELSE f[k]]
  <2>3. \A k \in 0 .. n - 1 :
          g[k] = f[k] /\ f[k] = IF k = 0 THEN first ELSE Instanced(f[k - 1], meshes[k])
    BY <2>1, <2>2 DEF Walks
  <2>4. \A k \in 0 .. n : g[k] = IF k = 0 THEN first ELSE Instanced(g[k - 1], meshes[k])
    <3> SUFFICES ASSUME NEW k \in 0 .. n
                 PROVE  g[k] = IF k = 0 THEN first ELSE Instanced(g[k - 1], meshes[k])
      OBVIOUS
    <3>1. CASE k = n
      <4>1. g[k - 1] = f[n - 1] /\ n - 1 \in 0 .. n - 1
        BY <2>1, <2>3, <3>1
      <4> HIDE DEF first
      <4> QED BY <1>3, <3>1, <4>1
    <3>2. CASE k # n
      <4>1. k \in 0 .. n - 1 /\ (k # 0 => k - 1 \in 0 .. n - 1)
        BY <3>2
      <4>2. g[k] = f[k] /\ (k # 0 => g[k - 1] = f[k - 1])
        BY <2>3, <4>1
      <4> HIDE DEF g, first
      <4> QED BY <2>3, <4>1, <4>2
    <3> QED BY <3>1, <3>2
  <2>5. Walks(g, w, meshes, n)
    BY <2>4 DEF Walks
  <2> QED BY <1>1, <2>5
<1> QED BY <1>2, <1>3

IsWalk(walk) == DOMAIN walk = {"w", "children", "active"}

\* Of the meshes done: the structures of authored ones are active, unless a
\* request was refused; what else is instanced is the application's.
WalkInv(walk, w, done) ==
  /\ IsWalk(walk) /\ Settled(walk.w, Owned) /\ Later(walk.w, w, Owned)
  /\ walk.active \subseteq walk.children /\ walk.children \subseteq walk.active \cup Owned
  /\ \A id \in walk.active :
       \E e \in walk.w.meshes : e.resource = id /\ e.mesh \in done /\ e.mesh.authored
  /\ walk.w.ok =>
       \A m \in done : m.authored => \E e \in walk.w.meshes : e.mesh = m /\ e.resource \in walk.active

LEMMA SmallestIn ==
  ASSUME NEW ids, ids \subseteq Nat, ids # {}
  PROVE  Smallest(ids) \in ids
<1>1. PICK n \in ids : \A m \in ids : ~(m < n)
  BY Least
<1>2. \A m \in ids : n <= m
  BY <1>1
<1> QED BY <1>1, <1>2 DEF Smallest

LEMMA InstancedInv ==
  ASSUME NEW walk, NEW w, NEW done, NEW mesh, Len(mesh.textures) \in Nat, WalkInv(walk, w, done)
  PROVE  WalkInv(Instanced(walk, mesh), w, done \cup {mesh})
<1> DEFINE M == MeshStructure(walk.w, mesh)
           own == ResourceOf(M, mesh)
           looks == Matches(mesh, walk.children)
           j == Instanced(walk, mesh)
<1>1. /\ Settled(M, Owned) /\ Later(M, walk.w, Owned) /\ (M.ok => Cached(M, mesh) # {})
  BY MeshSettled, MeshLater DEF WalkInv
<1>2. Later(M, w, Owned)
  BY <1>1, LaterLater DEF WalkInv
<1>3. M.ok => \E e \in M.meshes : e.mesh = mesh /\ e.resource = own
  BY <1>1 DEF Cached, ResourceOf
<1>4. j = IF ~walk.w.ok THEN walk ELSE Joined(walk, mesh, M)
  BY DEF Instanced
<1>5. walk.w.meshes \subseteq M.meshes
  BY <1>1 DEF Later
<1>6. looks \subseteq Owned /\ Owned \subseteq Nat
  <2>1. looks \subseteq Owned
    BY DEF Matches, Owned
  <2>2. Owned \subseteq DOMAIN walk.w.host /\ \A id \in DOMAIN walk.w.host : id \in Nat
    BY DEF WalkInv, Settled, Accounted, Places, Issued
  <2> QED BY <2>1, <2>2
<1>7. \/ j = walk /\ (~walk.w.ok \/ ~mesh.authored)
      \/ mesh.authored /\ ~M.ok /\ j = [walk EXCEPT !.w = M]
      \/ /\ mesh.authored /\ M.ok
         /\ j = [w |-> M, children |-> walk.children \cup {own}, active |-> walk.active \cup {own}]
      \/ ~mesh.authored /\ looks # {} /\ j = [walk EXCEPT !.children = walk.children \cup {Smallest(looks)}]
  BY <1>4 DEF Joined
<1> HIDE DEF M, own, looks, j
<1>8. CASE j = walk /\ (~walk.w.ok \/ ~mesh.authored)
  BY <1>8 DEF WalkInv, j
<1>9. CASE mesh.authored /\ ~M.ok /\ j = [walk EXCEPT !.w = M]
  <2>1. IsWalk(j) /\ j.w = M /\ j.children = walk.children /\ j.active = walk.active
    BY <1>9 DEF WalkInv, IsWalk
  <2>2. WalkInv(j, w, done \cup {mesh})
    BY <1>1, <1>2, <1>5, <1>9, <2>1 DEF WalkInv
  <2> QED BY <2>2 DEF j
<1>10. CASE /\ mesh.authored /\ M.ok
            /\ j = [w |-> M, children |-> walk.children \cup {own}, active |-> walk.active \cup {own}]
  <2>1. IsWalk(j) /\ j.w = M /\ j.children = walk.children \cup {own} /\ j.active = walk.active \cup {own}
    BY <1>10 DEF IsWalk
  <2>2. PICK e \in M.meshes : e.mesh = mesh /\ e.resource = own
    BY <1>3, <1>10
  <2>3. \A id \in j.active :
          \E x \in j.w.meshes : x.resource = id /\ x.mesh \in done \cup {mesh} /\ x.mesh.authored
    BY <1>5, <1>10, <2>1, <2>2 DEF WalkInv
  <2>4. CASE walk.w.ok
    <3>1. \A m \in done \cup {mesh} : m.authored =>
            \E x \in j.w.meshes : x.mesh = m /\ x.resource \in j.active
      BY <1>5, <2>1, <2>2, <2>4 DEF WalkInv
    <3>2. WalkInv(j, w, done \cup {mesh})
      BY <1>1, <1>2, <2>1, <2>3, <3>1 DEF WalkInv
    <3> QED BY <3>2 DEF j
  <2>5. CASE ~walk.w.ok
    <3>1. j = walk
      BY <1>4, <2>5
    <3> QED BY <2>5, <3>1 DEF WalkInv, j
  <2> QED BY <2>4, <2>5
<1>11. CASE /\ ~mesh.authored /\ looks # {}
            /\ j = [walk EXCEPT !.children = walk.children \cup {Smallest(looks)}]
  <2>1. Smallest(looks) \in Owned
    BY <1>6, <1>11, SmallestIn
  <2>2. /\ IsWalk(j) /\ j.w = walk.w /\ j.children = walk.children \cup {Smallest(looks)}
        /\ j.active = walk.active
    BY <1>11 DEF WalkInv, IsWalk
  <2>3. WalkInv(j, w, done \cup {mesh})
    BY <1>11, <2>1, <2>2 DEF WalkInv
  <2> QED BY <2>3 DEF j
<1>12. WalkInv(j, w, done \cup {mesh})
  BY <1>7, <1>8, <1>9, <1>10, <1>11 DEF j
<1> QED BY <1>12 DEF j

LEMMA WalkDone ==
  ASSUME NEW w, NEW meshes, Len(meshes) \in Nat, Settled(w, Owned),
         \A k \in 1 .. Len(meshes) : Len(meshes[k].textures) \in Nat
  PROVE  WalkInv(Walk(w, meshes), w, {meshes[k] : k \in 1 .. Len(meshes)})
<1> DEFINE last == Len(meshes)
           f == CHOOSE g : Walks(g, w, meshes, last)
           first == Before(w)
           done(k) == {meshes[i] : i \in 1 .. k}
<1>1. Walks(f, w, meshes, last)
  <2>1. \E g : Walks(g, w, meshes, last)
    BY WalksExist
  <2> QED BY <2>1
<1>2. Walk(w, meshes) = f[last]
  BY DEF Walk, Walks, Before
<1>3. \A k \in 0 .. last : f[k] = IF k = 0 THEN first ELSE Instanced(f[k - 1], meshes[k])
  BY <1>1 DEF Walks
<1>4. WalkInv(first, w, {})
  <2>1. IsWalk(first) /\ first.w = w /\ first.children = {} /\ first.active = {}
    BY DEF IsWalk, Before
  <2>2. Later(w, w, Owned)
    BY LaterSame DEF Settled, Accounted, Issued
  <2> HIDE DEF first
  <2> QED BY <2>1, <2>2 DEF WalkInv
<1> HIDE DEF f, first, done
<1> DEFINE Wrong == {k \in 0 .. last : ~WalkInv(f[k], w, done(k))}
<1>5. Wrong = {}
  <2> SUFFICES ASSUME Wrong # {} PROVE FALSE
    OBVIOUS
  <2>1. PICK n \in Wrong : \A m \in Wrong : ~(m < n)
    <3>1. Wrong \subseteq Nat
      OBVIOUS
    <3> HIDE DEF Wrong
    <3> QED BY <3>1, Least
  <2>2. CASE n = 0
    <3>1. done(0) = {}
      BY DEF done
    <3> QED BY <1>3, <1>4, <2>1, <2>2, <3>1
  <2>3. CASE n # 0
    <3>1. n \in 1 .. last /\ n - 1 \in 0 .. last /\ n - 1 \notin Wrong
      BY <2>1, <2>3
    <3>2. WalkInv(f[n - 1], w, done(n - 1))
      BY <3>1
    <3>3. Len(meshes[n].textures) \in Nat
      BY <3>1
    <3>4. f[n] = Instanced(f[n - 1], meshes[n])
      BY <1>3, <2>3, <3>1
    <3>5. done(n) = done(n - 1) \cup {meshes[n]}
      <4>1. 1 .. n = (1 .. n - 1) \cup {n}
        BY <3>1
      <4> QED BY <4>1 DEF done
    <3>6. WalkInv(f[n], w, done(n))
      BY <3>2, <3>3, <3>4, <3>5, InstancedInv
    <3> QED BY <2>1, <3>6
  <2> QED BY <2>2, <2>3
<1>6. WalkInv(f[last], w, done(last))
  <2>1. last \in 0 .. last
    OBVIOUS
  <2> QED BY <1>5, <2>1
<1> QED BY <1>2, <1>6 DEF done

----------------------------------------------------------------------------
(* The fallback and the trace.                                             *)

LEMMA FallbackBuildSettled ==
  ASSUME NEW w, NEW S, NEW top, NEW walk, Settled(w, S)
  PROVE  Settled(BuildFallback(w, top, walk), S)
<1> DEFINE q == Request(w)
           r == [q EXCEPT !.host[structures[top].resource] = walk.children]
<1>1. IsWork(w) /\ Accounted(w, S, {}, <<>>)
  BY DEF Settled, Accounted
<1>2. Settled(q, S) /\ IsWork(q)
  <2>1. Same(q, w)
    BY <1>1, RequestSame
  <2> QED BY <1>1, <2>1, SameAccounted DEF Settled, Same
<1> HIDE DEF q
<1>3. Settled(r, S)
  <2>1. /\ IsWork(r) /\ r.next = q.next /\ r.pinned = q.pinned /\ r.textures = q.textures
        /\ r.meshes = q.meshes
        /\ r.host = [q.host EXCEPT ![structures[top].resource] = walk.children]
    BY <1>2 DEF IsWork
  <2>2. DOMAIN r.host = DOMAIN q.host
    BY <2>1
  <2> HIDE DEF r
  <2> QED BY <1>2, <2>1, <2>2 DEF Settled, Accounted
<1> HIDE DEF r
<1>4. Settled(Reclaimed(r, walk.active), S)
  BY <1>3, ReclaimedSettled
<1> QED BY <1>2, <1>4 DEF BuildFallback, q, r

\* A manifest is a list, of meshes with lists of textures and of lights.
Listed(manifest) ==
  /\ manifest.meshes \in Seq(Range(manifest.meshes))
  /\ manifest.lights \in Seq(Range(manifest.lights))
  /\ \A mesh \in Range(manifest.meshes) : mesh.textures \in Seq(Range(mesh.textures))

LEMMA ListedLengths ==
  ASSUME NEW manifest, Listed(manifest)
  PROVE  /\ Len(manifest.meshes) \in Nat /\ Len(manifest.lights) \in Nat
         /\ \A k \in 1 .. Len(manifest.meshes) : Len(manifest.meshes[k].textures) \in Nat
         /\ Range(manifest.meshes) = {manifest.meshes[k] : k \in 1 .. Len(manifest.meshes)}
<1> DEFINE meshes == manifest.meshes
<1>1. meshes \in Seq(Range(meshes)) /\ manifest.lights \in Seq(Range(manifest.lights))
  BY DEF Listed
<1>2. Len(meshes) \in Nat /\ Len(manifest.lights) \in Nat /\ DOMAIN meshes = 1 .. Len(meshes)
  BY <1>1
<1>3. Range(meshes) = {meshes[k] : k \in 1 .. Len(meshes)}
  BY <1>2 DEF Range
<1>4. \A k \in 1 .. Len(meshes) : Len(meshes[k].textures) \in Nat
  <2> TAKE k \in 1 .. Len(meshes)
  <2>1. meshes[k].textures \in Seq(Range(meshes[k].textures))
    BY <1>3 DEF Listed
  <2> QED BY <2>1
<1> QED BY <1>2, <1>3, <1>4

LEMMA FallbacksSettled ==
  ASSUME NEW w, Settled(w, Owned), Listed(published.manifest), NEW f \in FallbackBuilds(w)
  PROVE  Settled(f.w, Owned)
<1>1. \/ f = [result |-> "built", w |-> w, top |-> NoHandle]
      \/ f = [result |-> "absent", w |-> w, top |-> NoHandle]
      \/ \E top : f = Fallback(w, top)
  BY DEF FallbackBuilds
<1>2. ASSUME NEW top, f = Fallback(w, top)
      PROVE  Settled(f.w, Owned)
  <2> DEFINE walk == Walk(w, published.manifest.meshes)
             built == BuildFallback(walk.w, top, walk)
  <2>1. Settled(walk.w, Owned)
    BY WalkDone, ListedLengths DEF WalkInv
  <2> HIDE DEF walk
  <2>2. Settled(built, Owned)
    BY <2>1, FallbackBuildSettled
  <2> HIDE DEF built
  <2>3. f = FallbackOf(w, top, walk)
    BY <1>2 DEF Fallback, walk
  <2>4. f.w = w \/ f.w = walk.w \/ f.w = built
    BY <2>3 DEF FallbackOf, built
  <2> QED BY <2>1, <2>2, <2>4
<1>3. CASE f = [result |-> "built", w |-> w, top |-> NoHandle]
  BY <1>3
<1>4. CASE f = [result |-> "absent", w |-> w, top |-> NoHandle]
  BY <1>4
<1> QED BY <1>1, <1>2, <1>3, <1>4

\* A wait that is refused pins what the command named, all of it there.
LEMMA AwaitedSettled ==
  ASSUME NEW w, NEW S, NEW s, Accounted(w, S, {}, w.held), structures[s].resource \in S
  PROVE  Accounted(Awaited(w, s), S, {}, Awaited(w, s).held)
<1> DEFINE q == Request(w)
           u == Request(q)
           p == Pin(u, s)
           v == Request(u)
<1>1. IsWork(w) /\ Same(q, w)
  BY RequestSame DEF Accounted
<1>2. Accounted(q, S, {}, q.held)
  BY <1>1, SameAccounted DEF Same
<1>3. Same(u, q)
  BY <1>1, RequestSame DEF Same
<1>4. Awaited(w, s) = p \/ Awaited(w, s) = v
  BY DEF Awaited
<1> HIDE DEF q
<1>5. Accounted(u, S, {}, u.held) /\ IsWork(u)
  BY <1>2, <1>3, SameAccounted DEF Same
<1> HIDE DEF u
<1>6. Same(v, u)
  BY <1>5, RequestSame
<1> HIDE DEF v
<1>7. Accounted(v, S, {}, v.held)
  BY <1>5, <1>6, SameAccounted DEF Same
<1>8. Accounted(p, S, {}, p.held)
  <2>1. /\ IsWork(p) /\ p.host = u.host /\ p.next = u.next /\ p.textures = u.textures
        /\ p.meshes = u.meshes /\ p.held = u.held
        /\ p.pinned = u.pinned \cup {structures[s].resource} \cup Range(u.held)
    BY <1>5 DEF Pin, IsWork
  <2> HIDE DEF p
  <2>2. /\ Places(S, DOMAIN u.host, u.pinned, u.textures, u.meshes, {})
        /\ u.held \in Seq(DOMAIN u.textures)
    BY <1>5 DEF Accounted, Naming
  <2>3. Range(u.held) \subseteq DOMAIN u.textures
    BY <2>2 DEF Range
  <2>4. Places(S, DOMAIN p.host, p.pinned, p.textures, p.meshes, {})
    BY <2>1, <2>2, <2>3 DEF Places
  <2> QED BY <1>5, <2>1, <2>4 DEF Accounted
<1> QED BY <1>4, <1>7, <1>8

LEMMA TracedSettled ==
  ASSUME NEW w, NEW S, NEW s, Settled(w, S), w.made = {}, Len(published.manifest.lights) \in Nat,
         structures[s].resource \in S
  PROVE  Settled(Traced(w, s), S)
<1> DEFINE x == [w EXCEPT !.held = <<>>]
           lit == AcquireAll(x, published.manifest.lights)
           whole == lit.host[structures[s].resource] \subseteq DOMAIN lit.host
           y == IF whole THEN lit ELSE [lit EXCEPT !.ok = FALSE]
           done == Awaited(y, s)
<1>1. /\ IsWork(w) /\ IsWork(x) /\ x.host = w.host /\ x.next = w.next /\ x.pinned = w.pinned
      /\ x.meshes = w.meshes /\ x.textures = w.textures /\ x.made = {} /\ x.held = <<>>
  BY DEF Settled, Accounted, IsWork
<1> HIDE DEF x
<1>2. InHand(x, S)
  BY <1>1 DEF InHand, Settled, Accounted
<1>3. InHand(lit, S) /\ lit.made = {}
  BY <1>1, <1>2, AcquireAllInHand DEF Keeps
<1>4. IsWork(lit)
  BY <1>3 DEF InHand, Accounted
<1> HIDE DEF lit, whole
<1>5. IsWork(y) /\ Same(y, lit)
  <2>1. Same([lit EXCEPT !.ok = FALSE], lit)
    BY <1>4 DEF Same, IsWork
  <2>2. Same(lit, lit)
    BY <1>4 DEF Same
  <2> QED BY <2>1, <2>2 DEF Same
<1> HIDE DEF y
<1>6. Accounted(y, S, {}, y.held)
  BY <1>3, <1>5, SameAccounted DEF InHand, Same
<1>7. Accounted(done, S, {}, done.held)
  BY <1>6, AwaitedSettled
<1> HIDE DEF done
<1> DEFINE r == ReleaseHeld(done)
<1>8. Settled(r, S)
  BY <1>7, HeldSettled
<1> HIDE DEF r
<1>9. Settled([r EXCEPT !.held = <<>>], S)
  <2>1. IsWork(r)
    BY <1>8 DEF Settled, Accounted
  <2> DEFINE z == [r EXCEPT !.held = <<>>]
  <2>2. /\ IsWork(z) /\ z.host = r.host /\ z.next = r.next /\ z.pinned = r.pinned
        /\ z.meshes = r.meshes /\ z.textures = r.textures
    BY <2>1 DEF IsWork
  <2> HIDE DEF z
  <2>3. Settled(z, S)
    BY <1>8, <2>2 DEF Settled, Accounted
  <2> QED BY <2>3 DEF z
<1> QED BY <1>9 DEF Traced, r, done, y, whole, lit, x

----------------------------------------------------------------------------
(* The steps.                                                              *)

\* Settled, of the state.
Steady ==
  /\ Places(Owned, DOMAIN host, pinned, sceneTextures, sceneMeshes, {})
  /\ Issued(DOMAIN host, nextResource)
  /\ Naming(sceneTextures, sceneMeshes, <<>>)
  /\ Counting(sceneTextures, sceneMeshes, <<>>)

StructuresApart ==
  /\ \A s, t \in DOMAIN structures : structures[s].resource = structures[t].resource => s = t
  /\ \A s \in DOMAIN structures :
       DOMAIN structures[s] = {"resource", "built", "fromScene", "sequence", "shape"}

SceneInv ==
  /\ Steady
  /\ StructuresApart
  /\ Listed(published.manifest)
  /\ submit.top \in DOMAIN structures \cup {NoHandle}

LEMMA WorkingFields ==
  ASSUME NEW n
  PROVE  /\ IsWork(Working(n))
         /\ Working(n).host = host /\ Working(n).pinned = pinned /\ Working(n).next = nextResource
         /\ Working(n).textures = sceneTextures /\ Working(n).meshes = sceneMeshes
         /\ Working(n).made = {} /\ Working(n).held = <<>>
         /\ Working(n).ok = TRUE /\ Working(n).grants = n
BY DEF Working, IsWork

LEMMA WorkingSettled ==
  ASSUME SceneInv, NEW n
  PROVE  Settled(Working(n), Owned)
BY WorkingFields DEF SceneInv, Steady, Settled, Accounted

LEMMA BecomesSteady ==
  ASSUME NEW w, Settled(w, Owned'), Becomes(w)
  PROVE  Steady'
BY DEF Settled, Accounted, Steady, Becomes

LEMMA SameStructures ==
  ASSUME SceneInv, NEW w, Settled(w, Owned), Becomes(w), UNCHANGED <<published, structures>>,
         submit' \in {submit, NoSubmit}
  PROVE  SceneInv'
<1>1. Owned' = Owned
  BY DEF Owned
<1>2. Steady'
  BY <1>1, BecomesSteady
<1> QED BY <1>2 DEF SceneInv, StructuresApart, NoSubmit

LEMMA PublishStep ==
  ASSUME SceneInv, NEW m \in Manifests, Publish(m)
  PROVE  SceneInv'
<1>1. published'.manifest = m
  BY DEF Publish
<1>2. Listed(m)
  BY SceneAssumption DEF Listed
<1>3. UNCHANGED <<host, pinned, nextResource, sceneTextures, sceneMeshes, structures, submit>>
  BY DEF Publish, cacheVars
<1> QED BY <1>1, <1>2, <1>3 DEF SceneInv, Steady, Owned, StructuresApart

LEMMA SubmitStep ==
  ASSUME SceneInv, NEW grants, SubmitScene(grants)
  PROVE  SceneInv'
<1>1. CASE published.sequence = 0
  BY <1>1 DEF SubmitScene, SceneInv, Steady, Owned, StructuresApart, cacheVars
<1>2. CASE published.sequence # 0
  <2>1. PICK f \in FallbackBuilds(Working(grants)) :
          /\ Becomes(f.w)
          /\ structures' = structures \/ structures' = FromScene(f.top)
          /\ submit' = submit \/ submit'.top = f.top
    BY <1>2 DEF SubmitScene
  <2>2. Settled(f.w, Owned)
    BY WorkingSettled, FallbacksSettled DEF SceneInv
  <2>3. /\ DOMAIN structures' = DOMAIN structures
        /\ \A s \in DOMAIN structures :
             structures'[s].resource = structures[s].resource
             /\ DOMAIN structures'[s] = DOMAIN structures[s]
    BY <2>1 DEF FromScene, SceneInv, StructuresApart
  <2>4. Owned' = Owned
    BY <2>3 DEF Owned
  <2>5. StructuresApart'
    BY <2>3 DEF SceneInv, StructuresApart
  <2>7. Steady'
    BY <2>1, <2>2, <2>4, BecomesSteady
  <2>8. published' = published
    BY DEF SubmitScene
  <2>9. f.top \in DOMAIN structures \cup {NoHandle}
    <3>1. Candidates \subseteq DOMAIN structures
      BY DEF Candidates, SceneBuilt, Tops
    <3>2. \A w, top, walk : FallbackOf(w, top, walk).top \in {top, NoHandle}
      BY DEF FallbackOf
    <3> QED BY <2>1, <3>1, <3>2 DEF FallbackBuilds, Fallback
  <2>10. submit'.top \in DOMAIN structures' \cup {NoHandle}
    BY <2>1, <2>3, <2>9 DEF SceneInv
  <2> QED BY <2>5, <2>7, <2>8, <2>10 DEF SceneInv
<1> QED BY <1>1, <1>2

LEMMA TraceStep ==
  ASSUME SceneInv, NEW grants, TraceScene(grants)
  PROVE  SceneInv'
<1>1. PICK s \in Traceable(submit.top) : Becomes(Traced(Working(grants), s))
  BY DEF TraceScene
<1>2. Working(grants).made = {} /\ Len(published.manifest.lights) \in Nat
  BY WorkingFields, ListedLengths DEF SceneInv
<1>3. structures[s].resource \in Owned
  BY DEF SceneInv, Owned, Traceable, Tops
<1>4. Settled(Traced(Working(grants), s), Owned)
  BY <1>2, <1>3, WorkingSettled, TracedSettled
<1> QED BY <1>1, <1>4, SameStructures DEF TraceScene

LEMMA DestroyDeviceStep ==
  ASSUME SceneInv, DestroyDevice
  PROVE  SceneInv'
<1>1. Settled(Reclaimed(Working(0), {}), Owned)
  BY WorkingSettled, ReclaimedSettled
<1> QED BY <1>1, SameStructures DEF DestroyDevice, Unsubmitted

LEMMA CreateStructureStep ==
  ASSUME SceneInv, NEW s, CreateStructure(s)
  PROVE  SceneInv'
<1> DEFINE w == Working(1)
           r == NewResource(w)
           S == Owned
           new == nextResource
<1>1. IsWork(w) /\ Settled(w, S) /\ w.next = new /\ w.made = {} /\ w.held = <<>>
  BY WorkingFields, WorkingSettled
<1>2. Request(w).ok
  <2>1. IsWork(w) /\ w.ok = TRUE /\ w.grants = 1
    BY WorkingFields
  <2> HIDE DEF w
  <2> QED BY <2>1 DEF Request, IsWork
<1>3. Becomes(r) /\ structures' =
        Put(structures, s, [resource |-> new, built |-> FALSE, fromScene |-> FALSE,
                            sequence |-> 0, shape |-> NoHandle])
  BY DEF CreateStructure
<1> HIDE DEF w
<1>4. /\ IsWork(r) /\ DOMAIN r.host = DOMAIN w.host \cup {new} /\ r.made = {new}
      /\ r.pinned = w.pinned
      /\ r.textures = w.textures /\ r.meshes = w.meshes /\ r.held = <<>> /\ r.next = new + 1
  BY <1>1, <1>2, NewResourceFields
<1>5. InHand(r, S)
  <2>1. InHand(w, S)
    BY <1>1 DEF InHand, Settled
  <2> QED BY <2>1, NewResourceInHand
<1> HIDE DEF r
<1>6. Settled(r, S \cup {new})
  <2>1. Places(S \cup {new}, DOMAIN r.host, r.pinned, r.textures, r.meshes, {})
    BY <1>4, <1>5 DEF InHand, Accounted, Places
  <2> QED BY <1>4, <1>5, <2>1 DEF InHand, Settled, Accounted
<1>7. new \notin S
  BY DEF SceneInv, Steady, Places, Issued
<1>8. s \notin DOMAIN structures /\ published' = published
  BY DEF CreateStructure
<1>9. /\ DOMAIN structures' = DOMAIN structures \cup {s}
      /\ structures'[s].resource = new
      /\ DOMAIN structures'[s] = {"resource", "built", "fromScene", "sequence", "shape"}
      /\ \A t \in DOMAIN structures : structures'[t] = structures[t]
  BY <1>3, <1>8 DEF Put
<1>10. Owned' = S \cup {new}
  BY <1>9, <1>8 DEF Owned
<1>11. StructuresApart'
  <2>1. \A t \in DOMAIN structures : structures[t].resource # new
    BY <1>7 DEF Owned
  <2> QED BY <1>8, <1>9, <2>1 DEF SceneInv, StructuresApart
<1> HIDE DEF S, new
<1>13. Steady'
  BY <1>3, <1>6, <1>10, BecomesSteady
<1>14. submit'.top = NoHandle
  BY DEF CreateStructure, Unsubmitted, NoSubmit
<1> QED BY <1>8, <1>11, <1>13, <1>14 DEF SceneInv

LEMMA DestroyStructureStep ==
  ASSUME SceneInv, NEW s, DestroyStructure(s)
  PROVE  SceneInv'
<1> DEFINE w == Working(0)
           gone == structures[s].resource
           r == Destroyed(w, {gone})
           S == Owned
           R == S \ {gone}
<1>1. IsWork(w) /\ Settled(w, S)
  BY WorkingFields, WorkingSettled
<1>2. s \in DOMAIN structures /\ structures' = Drop(structures, s) /\ Becomes(r) /\ published' = published
  BY DEF DestroyStructure
<1>3. gone \in S
  BY <1>2 DEF Owned
<1>4. /\ DOMAIN structures' = DOMAIN structures \ {s}
      /\ \A t \in DOMAIN structures' : structures'[t] = structures[t]
  BY <1>2 DEF Drop
<1>5. \A t \in DOMAIN structures : structures[t].resource = gone => t = s
  BY <1>2 DEF SceneInv, StructuresApart
<1>6. Owned' = R
  BY <1>4, <1>5 DEF Owned
<1>7. StructuresApart'
  BY <1>4 DEF SceneInv, StructuresApart
<1> HIDE DEF w
<1>8. /\ IsWork(r) /\ r.next = w.next /\ r.pinned = w.pinned /\ r.textures = w.textures
      /\ r.meshes = w.meshes
      /\ DOMAIN r.host = DOMAIN w.host \ ({gone} \ w.pinned)
  BY <1>1, DestroyedFields
<1> HIDE DEF r, S, gone
<1>9. Settled(r, R)
  <2>1. Places(R, DOMAIN r.host, r.pinned, r.textures, r.meshes, {})
    BY <1>1, <1>3, <1>8 DEF Settled, Accounted, Places
  <2>2. Issued(DOMAIN r.host, r.next)
    BY <1>1, <1>8 DEF Settled, Accounted, Issued
  <2> QED BY <1>1, <1>8, <2>1, <2>2 DEF Settled, Accounted
<1> HIDE DEF R
<1>11. Steady'
  BY <1>2, <1>6, <1>9, BecomesSteady
<1>14. submit'.top = NoHandle
  BY DEF DestroyStructure, Unsubmitted, NoSubmit
<1> QED BY <1>2, <1>7, <1>11, <1>14 DEF SceneInv

LEMMA BuildStep ==
  ASSUME SceneInv, NEW s, NEW children, NEW shape, BuildStructure(s, children, shape)
  PROVE  SceneInv'
<1> DEFINE w == Working(0)
           r == [w EXCEPT !.host[structures[s].resource] = children]
           S == Owned
<1>1. IsWork(w) /\ Settled(w, S)
  BY WorkingFields, WorkingSettled
<1>2. Becomes(r) /\ published' = published
  BY DEF BuildStructure
<1>3. /\ DOMAIN structures' = DOMAIN structures
      /\ \A t \in DOMAIN structures :
           structures'[t].resource = structures[t].resource
           /\ DOMAIN structures'[t] = DOMAIN structures[t]
  BY DEF BuildStructure, SceneInv, StructuresApart
<1>4. Owned' = S
  BY <1>3 DEF Owned
<1>5. StructuresApart'
  BY <1>3 DEF SceneInv, StructuresApart
<1> HIDE DEF w
<1>6. /\ IsWork(r) /\ r.next = w.next /\ r.pinned = w.pinned /\ r.textures = w.textures
      /\ r.meshes = w.meshes
      /\ r.host = [w.host EXCEPT ![structures[s].resource] = children]
  BY <1>1 DEF IsWork
<1> HIDE DEF r, S
<1>7. DOMAIN r.host = DOMAIN w.host
  BY <1>6
<1>8. Settled(r, S)
  BY <1>1, <1>6, <1>7 DEF Settled, Accounted
<1>10. Steady'
  BY <1>2, <1>4, <1>8, BecomesSteady
<1>14. submit'.top = NoHandle
  BY DEF BuildStructure, Unsubmitted, NoSubmit
<1> QED BY <1>2, <1>5, <1>10, <1>14 DEF SceneInv

LEMMA SceneInitial == SceneInit => SceneInv
<1> SUFFICES ASSUME SceneInit PROVE SceneInv
  OBVIOUS
<1> USE DEF SceneInit
<1>1. DOMAIN host = {} /\ DOMAIN sceneTextures = {} /\ DOMAIN structures = {} /\ sceneMeshes = {}
  BY DEF EmptyTable
<1>2. Owned = {} /\ OwnOf(sceneMeshes) = {}
  BY <1>1 DEF Owned, OwnOf
<1>3. \A id : IsFiniteSet(SlotsOf(sceneMeshes, id))
  <2>1. \A id : SlotsOf(sceneMeshes, id) = {}
    BY <1>1 DEF SlotsOf
  <2> QED BY <2>1, FS_EmptySet
<1>4. Steady
  <2>1. Places(Owned, DOMAIN host, pinned, sceneTextures, sceneMeshes, {})
    BY <1>1, <1>2 DEF Places
  <2>2. Issued(DOMAIN host, nextResource)
    BY <1>1 DEF Issued
  <2>3. Naming(sceneTextures, sceneMeshes, <<>>)
    BY <1>1, <1>3 DEF Naming
  <2>4. Counting(sceneTextures, sceneMeshes, <<>>)
    BY <1>1 DEF Counting
  <2> QED BY <2>1, <2>2, <2>3, <2>4 DEF Steady
<1>5. Listed(published.manifest)
  <2>1. published.manifest.meshes = <<>> /\ published.manifest.lights = <<>>
    BY DEF NoScene
  <2> QED BY <2>1 DEF Listed, Range
<1> QED BY <1>1, <1>4, <1>5 DEF SceneInv, StructuresApart, NoSubmit

LEMMA SceneStep == SceneInv /\ [SceneNext]_sceneVars => SceneInv'
<1> SUFFICES ASSUME SceneInv, [SceneNext]_sceneVars PROVE SceneInv'
  OBVIOUS
<1>1. CASE Publisher
  BY <1>1, PublishStep DEF Publisher
<1>2. CASE \E grants \in 0 .. MaxRequests : SubmitScene(grants)
  BY <1>2, SubmitStep
<1>3. CASE \E grants \in 0 .. TraceRequests : TraceScene(grants)
  BY <1>3, TraceStep
<1>4. CASE CreateDevice
  BY <1>4 DEF CreateDevice, Unsubmitted, NoSubmit, cacheVars, SceneInv, Steady, Owned, StructuresApart
<1>5. CASE DestroyDevice
  BY <1>5, DestroyDeviceStep
<1>6. CASE \E s \in TopLevels \cup BottomLevels : CreateStructure(s) \/ DestroyStructure(s)
  BY <1>6, CreateStructureStep, DestroyStructureStep
<1>7. CASE \E b \in BottomLevels, shape \in Shapes : BuildPrimitive(b, shape)
  BY <1>7, BuildStep DEF BuildPrimitive
<1>8. CASE \E t \in TopLevels, bottoms \in SUBSET BottomLevels : BuildInstance(t, bottoms)
  BY <1>8, BuildStep DEF BuildInstance
<1>9. CASE UNCHANGED sceneVars
  BY <1>9 DEF sceneVars, SceneInv, Steady, Owned, StructuresApart
<1> QED BY <1>1, <1>2, <1>3, <1>4, <1>5, <1>6, <1>7, <1>8, <1>9 DEF SceneNext, Application

\* Every resource of the host has one owner the driver knows, or is held by a
\* command the host never finished; and every texture of the cache has as
\* many uses as slots of cached meshes name it.  The host refuses creations,
\* writes, builds, traces, waits and reads wherever it likes, and the destroy
\* of what a command of its own holds, which the driver swallows
\* (releaseSceneTextureResourceLocked, the reclaim, vkDestroy*).
THEOREM SceneInvariance == SceneSpec => []SceneInv
BY SceneInitial, SceneStep, PTL DEF SceneSpec

LEMMA InvAccounted == SceneInv => ResourcesAccounted
<1> SUFFICES ASSUME SceneInv PROVE ResourcesAccounted
  OBVIOUS
<1>1. HostAccounted
  <2>1. DOMAIN host = Owned \cup OwnOf(sceneMeshes) \cup DOMAIN sceneTextures \cup pinned
    BY DEF SceneInv, Steady, Places
  <2>2. Remembered = Owned \cup OwnOf(sceneMeshes) \cup DOMAIN sceneTextures
    BY DEF Remembered, Owned, OwnOf
  <2> QED BY <2>1, <2>2 DEF HostAccounted
<1>2. TexturesCounted
  <2>1. \A e \in sceneMeshes : Range(e.textures) \subseteq DOMAIN sceneTextures
    BY DEF SceneInv, Steady, Naming, Range
  <2>2. \A id \in DOMAIN sceneTextures :
          /\ sceneTextures[id].refs = Cardinality(SlotsOf(sceneMeshes, id))
          /\ sceneTextures[id].refs > 0
    <3> TAKE id \in DOMAIN sceneTextures
    <3>1. /\ sceneTextures[id].refs =
               Cardinality(SlotsOf(sceneMeshes, id)) + Cardinality(Holding(<<>>, id))
          /\ sceneTextures[id].refs > 0
      BY DEF SceneInv, Steady, Counting
    <3>2. Cardinality(SlotsOf(sceneMeshes, id)) \in Nat
      BY FS_CardinalityType DEF SceneInv, Steady, Naming
    <3>3. Cardinality(Holding(<<>>, id)) = 0
      BY NothingHeld
    <3> QED BY <3>1, <3>2, <3>3
  <2> QED BY <2>1, <2>2 DEF TexturesCounted
<1> QED BY <1>1, <1>2 DEF ResourcesAccounted

\* Whatever requests the host refuses, what the driver forgets and the host
\* keeps is held by a command whose wait failed, and nothing is used that is
\* gone: bridgeSceneMeshAccelerationStructureLocked undoes what it did, the
\* trace gives its textures back, the reclaim takes no more than the meshes
\* it drops.
THEOREM SceneAccounts == SceneSpec => []ResourcesAccounted
BY SceneInvariance, InvAccounted, PTL

----------------------------------------------------------------------------
(* What the structure shows.                                               *)

MeshesOf(meshes, children) == {e.mesh : e \in {x \in meshes : x.resource \in children}}

LEMMA LaterMeshes ==
  ASSUME NEW r, NEW w, NEW S, Later(r, w, S), NEW children,
         \A id \in children : id \in Nat /\ id < w.next
  PROVE  MeshesOf(r.meshes, children) = MeshesOf(w.meshes, children)
<1>1. {e \in r.meshes : e.resource \in children} = {e \in w.meshes : e.resource \in children}
  BY DEF Later
<1> QED BY <1>1 DEF MeshesOf

LEMMA AwaitedFields ==
  ASSUME NEW w, IsWork(w), NEW s
  PROVE  LET r == Awaited(w, s)
         IN  /\ IsWork(r) /\ r.host = w.host /\ r.next = w.next
             /\ r.textures = w.textures /\ r.meshes = w.meshes
<1> DEFINE q == Request(w)
           u == Request(q)
           v == Request(u)
           p == Pin(u, s)
<1>1. Same(q, w)
  BY RequestSame
<1>2. Awaited(w, s) = p \/ Awaited(w, s) = v
  BY DEF Awaited
<1> HIDE DEF q
<1>3. Same(u, q)
  BY <1>1, RequestSame DEF Same
<1> HIDE DEF u
<1>4. Same(v, u)
  BY <1>3, RequestSame DEF Same
<1>5. /\ IsWork(p) /\ p.host = u.host /\ p.next = u.next /\ p.textures = u.textures
      /\ p.meshes = u.meshes
  BY <1>3 DEF Pin, IsWork, Same
<1> HIDE DEF v, p
<1> QED BY <1>1, <1>2, <1>3, <1>4, <1>5 DEF Same

LEMMA TracedLater ==
  ASSUME NEW w, NEW S, NEW s, Settled(w, S), w.made = {}, Len(published.manifest.lights) \in Nat
  PROVE  Later(Traced(w, s), w, S)
<1> DEFINE x == [w EXCEPT !.held = <<>>]
           lit == AcquireAll(x, published.manifest.lights)
           whole == lit.host[structures[s].resource] \subseteq DOMAIN lit.host
           y == IF whole THEN lit ELSE [lit EXCEPT !.ok = FALSE]
           done == Awaited(y, s)
           lost == [id \in DOMAIN done.textures |-> Cardinality(Holding(done.held, id))]
           r == ReleaseUses(done, lost)
           z == [r EXCEPT !.held = <<>>]
<1>1. /\ IsWork(w) /\ IsWork(x) /\ x.host = w.host /\ x.next = w.next
      /\ x.pinned = w.pinned /\ x.meshes = w.meshes
      /\ x.textures = w.textures /\ x.made = {} /\ x.held = <<>> /\ w.next \in Nat
  BY DEF Settled, Accounted, IsWork, Issued
<1>2. Traced(w, s) = z
  BY DEF Traced, ReleaseHeld
<1> HIDE DEF x
<1>3. InHand(x, S) /\ Later(x, w, S)
  BY <1>1, LaterSame DEF InHand, Settled, Accounted
<1>4. InHand(lit, S) /\ Later(lit, x, S)
  BY <1>3, AcquireAllInHand
<1> HIDE DEF lit, whole
<1>5. IsWork(lit) /\ lit.next \in Nat /\ S \subseteq DOMAIN lit.host /\ S \cap DOMAIN lit.textures = {}
  BY <1>4 DEF InHand, Accounted, Issued, Places
<1>6. IsWork(y) /\ Same(y, lit)
  BY <1>5 DEF Same, IsWork
<1> HIDE DEF y
<1>7. /\ IsWork(done) /\ done.host = lit.host /\ done.next = lit.next
      /\ done.textures = lit.textures /\ done.meshes = lit.meshes
  BY <1>6, AwaitedFields DEF Same
<1> HIDE DEF done
<1>8. Later(done, lit, S)
  BY <1>5, <1>7, LaterSame
<1>9. IsWork(done) /\ done.next \in Nat /\ S \subseteq DOMAIN done.host /\ S \cap DOMAIN done.textures = {}
  BY <1>5, <1>7
<1> HIDE DEF lost
<1>10. Later(r, done, S)
  BY <1>9, ReleaseLater
<1>11. IsWork(r)
  BY <1>9, ReleaseFields
<1> HIDE DEF r
<1>12. z.next = r.next /\ z.host = r.host /\ z.meshes = r.meshes /\ r.next \in Nat
  BY <1>10, <1>11 DEF IsWork, Later
<1> HIDE DEF z
<1>13. Later(z, r, S)
  BY <1>12, LaterSame
<1> QED BY <1>2, <1>3, <1>4, <1>8, <1>10, <1>13, LaterLater

\* The host built the structure: what it shows, and that the meshes it
\* instances are kept.
Rebuilt(r, w, id) ==
  /\ \A child \in r.host[id] : child \in Nat /\ child < r.next
  /\ \A e \in w.meshes : e.resource \in r.host[id] => e \in r.meshes
  /\ MeshesOf(r.meshes, r.host[id]) = Authored(published.manifest)

LEMMA ReclaimedFields ==
  ASSUME NEW w, NEW active, Settled(w, Owned)
  PROVE  LET r == Reclaimed(w, active)
         IN  /\ r.ok = w.ok /\ r.next = w.next
             /\ r.meshes = {e \in w.meshes : e.resource \in active}
             /\ \A id \in Owned : r.host[id] = w.host[id]
<1> DEFINE gone == {e \in w.meshes : e.resource \notin active}
           left == w.meshes \ gone
           x == [w EXCEPT !.meshes = left]
           u == Destroyed(x, OwnOf(gone))
           lost == [id \in DOMAIN w.textures |-> Cardinality(SlotsOf(gone, id))]
           r == ReleaseUses(u, lost)
<1>1. Reclaimed(w, active) = r
  BY DEF Reclaimed, OwnOf
<1>2. /\ IsWork(w) /\ w.next \in Nat
      /\ Places(Owned, DOMAIN w.host, w.pinned, w.textures, w.meshes, {})
  BY DEF Settled, Accounted, Issued
<1>3. /\ IsWork(x) /\ x.next = w.next /\ x.textures = w.textures /\ x.meshes = left
      /\ x.host = w.host /\ x.pinned = w.pinned /\ x.ok = w.ok
  BY <1>2 DEF IsWork
<1> HIDE DEF x
<1>4. /\ IsWork(u) /\ u.next = w.next /\ u.textures = w.textures /\ u.meshes = left /\ u.ok = w.ok
      /\ DOMAIN u.host = DOMAIN w.host \ (OwnOf(gone) \ w.pinned)
      /\ \A id \in DOMAIN u.host : u.host[id] = w.host[id]
  BY <1>3, DestroyedFields
<1> HIDE DEF u, lost
<1>5. OwnOf(gone) \subseteq OwnOf(w.meshes)
  BY DEF OwnOf
<1>6. left = {e \in w.meshes : e.resource \in active}
  OBVIOUS
<1> HIDE DEF gone, left
<1>7. Owned \subseteq DOMAIN u.host /\ Owned \cap DOMAIN u.textures = {}
  BY <1>2, <1>4, <1>5 DEF Places
<1>8. Later(r, u, Owned) /\ r.meshes = u.meshes /\ r.ok = u.ok
  BY <1>2, <1>4, <1>7, ReleaseLater
<1>9. r.next = u.next
  BY <1>4, ReleaseFields
<1> HIDE DEF r
<1>10. \A id \in Owned : r.host[id] = w.host[id]
  BY <1>4, <1>7, <1>8 DEF Later
<1> QED BY <1>1, <1>4, <1>6, <1>8, <1>9, <1>10

LEMMA FallbackBuilt ==
  ASSUME NEW w, NEW walk, NEW top \in DOMAIN structures, walk.w.ok,
         WalkInv(walk, w, Range(published.manifest.meshes))
  PROVE  LET r == BuildFallback(walk.w, top, walk)
             id == structures[top].resource
         IN  /\ ~r.ok => Later(r, w, Owned)
             /\ r.ok => /\ Rebuilt(r, w, id)
                        /\ \A other \in Owned : other # id => r.host[other] = w.host[other]
<1> DEFINE id == structures[top].resource
           q == Request(walk.w)
           x == [q EXCEPT !.host[id] = walk.children]
           c == Reclaimed(x, walk.active)
           r == BuildFallback(walk.w, top, walk)
<1>1. /\ IsWork(walk.w) /\ walk.w.next \in Nat /\ Settled(walk.w, Owned) /\ Later(walk.w, w, Owned)
      /\ Places(Owned, DOMAIN walk.w.host, walk.w.pinned, walk.w.textures, walk.w.meshes, {})
      /\ Issued(DOMAIN walk.w.host, walk.w.next)
  BY DEF WalkInv, Settled, Accounted, Issued
<1>2. Same(q, walk.w)
  BY <1>1, RequestSame
<1>3. Settled(q, Owned) /\ IsWork(q) /\ Later(q, w, Owned)
  <2>1. Later(q, walk.w, Owned)
    BY <1>1, <1>2, LaterSame DEF Same
  <2> QED BY <1>1, <1>2, <2>1, LaterLater, SameAccounted DEF Settled, Same
<1>4. r = IF ~q.ok THEN q ELSE c
  BY DEF BuildFallback
<1> HIDE DEF q
<1>5. id \in Owned /\ id \in DOMAIN q.host
  BY <1>1, <1>2 DEF Owned, Places, Same
<1> HIDE DEF id
<1>6. /\ IsWork(x) /\ x.next = q.next /\ x.pinned = q.pinned /\ x.textures = q.textures
      /\ x.meshes = q.meshes
      /\ x.ok = q.ok /\ x.host = [q.host EXCEPT ![id] = walk.children]
  BY <1>3 DEF IsWork
<1> HIDE DEF x
<1>7. /\ DOMAIN x.host = DOMAIN q.host /\ x.host[id] = walk.children
      /\ \A other \in Owned : other # id => x.host[other] = q.host[other]
  BY <1>5, <1>6
<1>8. Settled(x, Owned)
  BY <1>3, <1>6, <1>7 DEF Settled, Accounted
<1>9. /\ c.ok = x.ok /\ c.next = x.next
      /\ c.meshes = {e \in x.meshes : e.resource \in walk.active}
      /\ \A other \in Owned : c.host[other] = x.host[other]
  BY <1>8, ReclaimedFields
<1> HIDE DEF c, r
<1>10. CASE ~q.ok
  <2>1. r = q
    BY <1>4, <1>10
  <2> QED BY <1>3, <1>10, <2>1 DEF r
<1>11. CASE q.ok
  <2>1. r = c /\ r.ok /\ r.host[id] = walk.children /\ r.next = walk.w.next
    BY <1>2, <1>4, <1>5, <1>6, <1>7, <1>9, <1>11 DEF Same
  <2>2. r.meshes = {e \in walk.w.meshes : e.resource \in walk.active}
    BY <1>2, <1>6, <1>9, <2>1 DEF Same
  <2>3. \A e \in walk.w.meshes : e.resource \in DOMAIN walk.w.host /\ e.resource \notin Owned
    BY <1>1 DEF Places, OwnOf, Own
  <2>4. /\ walk.active \subseteq walk.children /\ walk.children \subseteq walk.active \cup Owned
        /\ \A child \in walk.active : \E e \in walk.w.meshes : e.resource = child
             /\ e.mesh \in Range(published.manifest.meshes) /\ e.mesh.authored
        /\ \A m \in Range(published.manifest.meshes) : m.authored =>
             \E e \in walk.w.meshes : e.mesh = m /\ e.resource \in walk.active
    BY DEF WalkInv
  <2>5. \A child \in walk.children : child \in Nat /\ child < walk.w.next
    BY <1>1, <2>3, <2>4 DEF Places, Issued
  <2>6. \A e \in w.meshes : e.resource \in walk.children => e \in r.meshes
    BY <1>1, <2>2, <2>3, <2>4 DEF Later
  <2>7. \A e, f \in walk.w.meshes : e.resource = f.resource => e = f
    BY <1>1 DEF Places, Own
  <2>8. MeshesOf(r.meshes, walk.children) = Authored(published.manifest)
    <3>1. ASSUME NEW e \in r.meshes, e.resource \in walk.children
          PROVE  e.mesh \in Authored(published.manifest)
      BY <2>2, <2>4, <2>7 DEF Authored
    <3>2. ASSUME NEW m \in Authored(published.manifest)
          PROVE  \E e \in r.meshes : e.resource \in walk.children /\ e.mesh = m
      BY <2>2, <2>4 DEF Authored
    <3> QED BY <3>1, <3>2 DEF MeshesOf
  <2>9. Rebuilt(r, w, id)
    BY <2>1, <2>5, <2>6, <2>8 DEF Rebuilt
  <2>10. \A other \in Owned : other # id => r.host[other] = w.host[other]
    BY <1>1, <1>2, <1>7, <1>9, <2>1 DEF Same, Later
  <2> QED BY <2>1, <2>9, <2>10 DEF r, id
<1> QED BY <1>10, <1>11

\* What a submit makes of the structure: it fails, finds one of the
\* application's or a current one, or has the host build one.
LEMMA FallbackCases ==
  ASSUME SceneInv, NEW w, Settled(w, Owned), NEW f \in FallbackBuilds(w)
  PROVE  \/ f.result = "built" /\ Native # {} /\ f.top = NoHandle /\ f.w = w
         \/ f.result \in {"failed", "absent"} /\ Later(f.w, w, Owned)
         \/ \E top \in Candidates :
              f.result = "built" /\ Native = {} /\ Current(top) /\ f.top = NoHandle /\ f.w = w
         \/ \E top \in Candidates :
              /\ f.result = "built" /\ Native = {} /\ f.top = top
              /\ Rebuilt(f.w, w, structures[top].resource)
              /\ \A id \in Owned : id # structures[top].resource => f.w.host[id] = w.host[id]
<1>1. Later(w, w, Owned)
  BY LaterSame DEF Settled, Accounted, Issued
<1>2. CASE Native # {}
  BY <1>2 DEF FallbackBuilds
<1>3. CASE Native = {} /\ Tops = {}
  BY <1>1, <1>3 DEF FallbackBuilds
<1>4. CASE Native = {} /\ Tops # {}
  <2>1. PICK top \in Candidates : f = Fallback(w, top)
    BY <1>4 DEF FallbackBuilds
  <2>2. top \in DOMAIN structures
    BY DEF Candidates, SceneBuilt, Tops
  <2> DEFINE walk == Walk(w, published.manifest.meshes)
             built == BuildFallback(walk.w, top, walk)
             meshes == published.manifest.meshes
  <2>3. WalkInv(walk, w, Range(meshes))
    <3>1. /\ Len(meshes) \in Nat
          /\ \A k \in 1 .. Len(meshes) : Len(meshes[k].textures) \in Nat
          /\ Range(meshes) = {meshes[k] : k \in 1 .. Len(meshes)}
      BY ListedLengths DEF SceneInv
    <3> HIDE DEF meshes
    <3> QED BY <3>1, WalkDone DEF meshes
  <2>4. f = FallbackOf(w, top, walk)
    BY <2>1 DEF Fallback
  <2> HIDE DEF walk
  <2>5. Later(walk.w, w, Owned)
    BY <2>3 DEF WalkInv
  <2>6. walk.w.ok => /\ ~built.ok => Later(built, w, Owned)
                     /\ built.ok =>
                          /\ Rebuilt(built, w, structures[top].resource)
                          /\ \A id \in Owned : id # structures[top].resource =>
                               built.host[id] = w.host[id]
    BY <2>2, <2>3, FallbackBuilt
  <2> HIDE DEF built
  <2>7. \/ Current(top) /\ f = [result |-> "built", w |-> w, top |-> NoHandle]
        \/ f = [result |-> "failed", w |-> walk.w, top |-> NoHandle]
        \/ f = [result |-> "absent", w |-> walk.w, top |-> NoHandle]
        \/ walk.w.ok /\ ~built.ok /\ f = [result |-> "failed", w |-> built, top |-> NoHandle]
        \/ walk.w.ok /\ built.ok /\ f = [result |-> "built", w |-> built, top |-> top]
    BY <2>4 DEF FallbackOf, built
  <2>8. CASE Current(top) /\ f = [result |-> "built", w |-> w, top |-> NoHandle]
    BY <1>4, <2>8
  <2>9. CASE f = [result |-> "failed", w |-> walk.w, top |-> NoHandle]
    BY <2>5, <2>9
  <2>10. CASE f = [result |-> "absent", w |-> walk.w, top |-> NoHandle]
    BY <2>5, <2>10
  <2>11. CASE walk.w.ok /\ ~built.ok /\ f = [result |-> "failed", w |-> built, top |-> NoHandle]
    BY <2>6, <2>11
  <2>12. CASE walk.w.ok /\ built.ok /\ f = [result |-> "built", w |-> built, top |-> top]
    BY <1>4, <2>6, <2>12
  <2> QED BY <2>7, <2>8, <2>9, <2>10, <2>11, <2>12
<1> QED BY <1>2, <1>3, <1>4

Shows(s) == MeshesOf(sceneMeshes, host[structures[s].resource])

\* At most one structure is built from the scene; built from the scene
\* published last, it shows that one.
FromSceneInv ==
  /\ published.sequence \in Nat
  /\ \A s \in DOMAIN structures : structures[s].fromScene =>
       /\ s \in TopLevels /\ Built(s)
       /\ structures[s].sequence \in Nat /\ structures[s].sequence <= published.sequence
       /\ \A child \in host[structures[s].resource] : child \in Nat /\ child < nextResource
       /\ structures[s].sequence = published.sequence => Shows(s) = Authored(published.manifest)
  /\ \A s, t \in DOMAIN structures : structures[s].fromScene /\ structures[t].fromScene => s = t

\* A submit traces what it read.
SubmitInv ==
  submit # NoSubmit =>
    /\ submit.top # NoHandle => submit.top \in Tops /\ Built(submit.top)
    /\ Native = {} =>
         \A s \in DOMAIN structures : structures[s].fromScene =>
           Shows(s) = Authored(submit.scene.manifest)

ShownInv == FromSceneInv /\ SubmitInv

KeepsGeometry ==
  \A e \in sceneMeshes, s \in DOMAIN structures' :
    structures'[s].fromScene /\ e.resource \in host'[structures'[s].resource]
      => e \in sceneMeshes'
ShowsScene ==
  traced'.result = "acknowledged" /\ Native' = {} =>
    Shown' = Authored(submit.scene.manifest)

LEMMA LaterShows ==
  ASSUME FromSceneInv, NEW w, NEW n, Later(w, Working(n), Owned), Becomes(w)
  PROVE  /\ sceneMeshes \subseteq sceneMeshes' /\ nextResource' \in Nat /\ nextResource <= nextResource'
         /\ \A id \in Owned : host'[id] = host[id]
         /\ \A s \in DOMAIN structures : structures[s].fromScene =>
              MeshesOf(sceneMeshes', host[structures[s].resource]) = Shows(s)
<1>1. /\ Working(n).host = host /\ Working(n).next = nextResource /\ Working(n).meshes = sceneMeshes
      /\ host' = w.host /\ nextResource' = w.next /\ sceneMeshes' = w.meshes
  BY WorkingFields DEF Becomes
<1>2. ASSUME NEW s \in DOMAIN structures, structures[s].fromScene
      PROVE  MeshesOf(w.meshes, host[structures[s].resource])
               = MeshesOf(sceneMeshes, host[structures[s].resource])
  <2>1. \A child \in host[structures[s].resource] : child \in Nat /\ child < Working(n).next
    BY <1>1, <1>2 DEF FromSceneInv
  <2>2. MeshesOf(w.meshes, host[structures[s].resource])
          = MeshesOf(Working(n).meshes, host[structures[s].resource])
    BY <2>1, LaterMeshes
  <2> QED BY <1>1, <2>2
<1> QED BY <1>1, <1>2 DEF Later, Shows

LEMMA LaterKeeps ==
  ASSUME SceneInv, FromSceneInv, NEW w, NEW n, Later(w, Working(n), Owned), Becomes(w),
         UNCHANGED <<published, structures>>
  PROVE  /\ FromSceneInv' /\ KeepsGeometry
         /\ \A s \in DOMAIN structures : structures[s].fromScene => Shows(s)' = Shows(s)
<1>1. /\ sceneMeshes \subseteq sceneMeshes' /\ nextResource' \in Nat /\ nextResource <= nextResource'
      /\ \A id \in Owned : host'[id] = host[id]
      /\ \A s \in DOMAIN structures : structures[s].fromScene =>
           MeshesOf(sceneMeshes', host[structures[s].resource]) = Shows(s)
  BY LaterShows
<1>2. \A s \in DOMAIN structures : host'[structures[s].resource] = host[structures[s].resource]
  BY <1>1 DEF Owned
<1>3. \A s \in DOMAIN structures : structures[s].fromScene => Shows(s)' = Shows(s)
  BY <1>1, <1>2 DEF Shows
<1>4. KeepsGeometry
  BY <1>1 DEF KeepsGeometry
<1>5. nextResource \in Nat
  BY DEF SceneInv, Steady, Issued
<1>6. FromSceneInv'
  BY <1>1, <1>2, <1>3, <1>5 DEF FromSceneInv, Built
<1> QED BY <1>3, <1>4, <1>6

LEMMA SubmitShows ==
  ASSUME SceneInv, ShownInv, NEW grants, SubmitScene(grants)
  PROVE  ShownInv' /\ KeepsGeometry /\ ShowsScene
<1>1. CASE published.sequence = 0
  <2>1. UNCHANGED <<published, structures, host, nextResource, sceneMeshes, submit>>
        /\ traced'.result = "deferred"
    BY <1>1 DEF SubmitScene, cacheVars
  <2> QED BY <2>1 DEF ShownInv, FromSceneInv, SubmitInv, Shows, Built, Tops, Native, KeepsGeometry,
                     ShowsScene
<1>2. CASE published.sequence # 0
  <2> DEFINE w == Working(grants)
  <2>1. PICK f \in FallbackBuilds(w) :
          /\ Becomes(f.w)
          /\ IF f.result # "built"
             THEN /\ UNCHANGED <<structures, submit>>
                  /\ traced' = [result |-> f.result, structure |-> NoHandle]
             ELSE /\ structures' = FromScene(f.top)
                  /\ submit' = [scene |-> published, top |-> f.top]
                  /\ traced' = NotTraced
    BY <1>2 DEF SubmitScene
  <2>2. /\ published' = published /\ submit = NoSubmit
        /\ Settled(w, Owned) /\ Later(w, w, Owned)
        /\ w.host = host /\ w.next = nextResource /\ w.meshes = sceneMeshes
    BY WorkingFields, WorkingSettled, LaterSame DEF SubmitScene, Settled, Accounted, Issued
  <2>3. \/ f.result = "built" /\ Native # {} /\ f.top = NoHandle /\ f.w = w
        \/ f.result \in {"failed", "absent"} /\ Later(f.w, w, Owned)
        \/ \E top \in Candidates :
             f.result = "built" /\ Native = {} /\ Current(top) /\ f.top = NoHandle /\ f.w = w
        \/ \E top \in Candidates :
             /\ f.result = "built" /\ Native = {} /\ f.top = top
             /\ Rebuilt(f.w, w, structures[top].resource)
             /\ \A id \in Owned : id # structures[top].resource => f.w.host[id] = w.host[id]
    BY <2>2, FallbackCases
  <2>4. ShowsScene
    <3>1. traced'.result # "acknowledged"
      BY <2>1, <2>3 DEF NotTraced
    <3> QED BY <3>1 DEF ShowsScene
  <2>5. UNCHANGED structures /\ Later(f.w, w, Owned) => FromSceneInv' /\ KeepsGeometry
             /\ \A s \in DOMAIN structures : structures[s].fromScene => Shows(s)' = Shows(s)
    BY <2>1, <2>2, LaterKeeps DEF ShownInv
  <2>6. \A top \in Candidates : top \in Tops /\ top # NoHandle
    BY SceneAssumption DEF Candidates, SceneBuilt, Tops
  \* An application's structure is there: nothing is built.
  <2>7. CASE f.result = "built" /\ Native # {} /\ f.top = NoHandle /\ f.w = w
    <3>1. structures' = structures /\ submit'.top = NoHandle
      BY <2>1, <2>7 DEF FromScene
    <3>2. Native' # {}
      BY <2>7, <3>1 DEF Native, Tops, Built
    <3>3. SubmitInv'
      BY <3>1, <3>2 DEF SubmitInv
    <3> QED BY <2>2, <2>4, <2>5, <2>7, <3>1, <3>3 DEF ShownInv
  \* A request was refused, or there is nothing to show.
  <2>8. CASE f.result \in {"failed", "absent"} /\ Later(f.w, w, Owned)
    <3>1. UNCHANGED <<structures, submit>>
      BY <2>1, <2>8
    <3>2. SubmitInv'
      BY <2>2, <3>1 DEF SubmitInv
    <3> QED BY <2>4, <2>5, <2>8, <3>1, <3>2 DEF ShownInv
  \* The structure shows the scene already.
  <2>9. ASSUME NEW top \in Candidates,
               f.result = "built", Native = {}, Current(top), f.top = NoHandle, f.w = w
        PROVE  ShownInv' /\ KeepsGeometry /\ ShowsScene
    <3>1. structures' = structures /\ submit' = [scene |-> published, top |-> NoHandle]
      BY <2>1, <2>9 DEF FromScene
    <3>2. FromSceneInv' /\ KeepsGeometry
          /\ \A s \in DOMAIN structures : structures[s].fromScene => Shows(s)' = Shows(s)
      BY <2>2, <2>5, <2>9, <3>1
    <3>3. \A s \in DOMAIN structures : structures[s].fromScene =>
            s = top /\ Shows(s) = Authored(published.manifest)
      BY <2>6, <2>9 DEF Current, Tops, ShownInv, FromSceneInv
    <3>4. SubmitInv'
      BY <3>1, <3>2, <3>3 DEF SubmitInv
    <3> QED BY <2>4, <3>2, <3>4 DEF ShownInv
  \* The host built it.
  <2>10. ASSUME NEW top \in Candidates,
                f.result = "built", Native = {}, f.top = top,
                Rebuilt(f.w, w, structures[top].resource)
         PROVE  ShownInv' /\ KeepsGeometry /\ ShowsScene
    <3> DEFINE id == structures[top].resource
    <3>1. /\ structures' = [structures EXCEPT ![top].built = TRUE, ![top].fromScene = TRUE,
                                              ![top].sequence = published.sequence]
          /\ submit' = [scene |-> published, top |-> top]
      BY <2>1, <2>6, <2>10 DEF FromScene
    <3>2. top \in DOMAIN structures /\ top \in TopLevels
          /\ DOMAIN structures[top] = {"resource", "built", "fromScene", "sequence", "shape"}
      BY <2>6 DEF Tops, SceneInv, StructuresApart
    <3>3. /\ DOMAIN structures' = DOMAIN structures
          /\ structures'[top].resource = id /\ structures'[top].built = TRUE
          /\ structures'[top].fromScene = TRUE /\ structures'[top].sequence = published.sequence
          /\ \A s \in DOMAIN structures : s # top => structures'[s] = structures[s]
      BY <3>1, <3>2
    \* No other was built from the scene.
    <3>4. \A s \in DOMAIN structures : structures[s].fromScene => s = top
      <4>1. \A s \in DOMAIN structures : structures[s].fromScene => s \in SceneBuilt
        BY DEF ShownInv, FromSceneInv, SceneBuilt, Tops
      <4>2. SceneBuilt # {} => top \in SceneBuilt
        BY DEF Candidates
      <4>3. top \in SceneBuilt => structures[top].fromScene
        BY DEF SceneBuilt
      <4> QED BY <3>2, <4>1, <4>2, <4>3 DEF ShownInv, FromSceneInv
    <3>5. \A s \in DOMAIN structures' : structures'[s].fromScene => s = top
      BY <3>3, <3>4
    <3>6. host' = f.w.host /\ nextResource' = f.w.next /\ sceneMeshes' = f.w.meshes
      BY <2>1 DEF Becomes
    <3> HIDE DEF id, w
    <3>7. /\ \A child \in host'[id] : child \in Nat /\ child < nextResource'
          /\ \A e \in sceneMeshes : e.resource \in host'[id] => e \in sceneMeshes'
          /\ MeshesOf(sceneMeshes', host'[id]) = Authored(published.manifest)
      BY <2>2, <2>10, <3>6 DEF Rebuilt, id
    <3>8. KeepsGeometry
      BY <3>3, <3>5, <3>7 DEF KeepsGeometry
    <3>9. \A s \in DOMAIN structures' : structures'[s].fromScene =>
            Shows(s)' = Authored(published.manifest)
      BY <3>3, <3>5, <3>7 DEF Shows
    <3>10. published.sequence \in Nat
      BY DEF ShownInv, FromSceneInv
    <3>11. FromSceneInv'
      BY <2>2, <3>2, <3>3, <3>5, <3>7, <3>9, <3>10 DEF FromSceneInv, Built
    <3>12. SubmitInv'
      BY <3>1, <3>2, <3>3, <3>9 DEF SubmitInv, Tops, Built
    <3> QED BY <2>4, <3>8, <3>11, <3>12 DEF ShownInv
  <2> QED BY <2>3, <2>7, <2>8, <2>4, <2>9, <2>10
<1> QED BY <1>1, <1>2

LEMMA TraceShows ==
  ASSUME SceneInv, ShownInv, NEW grants, TraceScene(grants)
  PROVE  ShownInv' /\ KeepsGeometry /\ ShowsScene
<1> DEFINE w == Working(grants)
<1>1. PICK s \in Traceable(submit.top) : Becomes(Traced(w, s)) /\ traced'.structure = s
  BY DEF TraceScene
<1>2. submit # NoSubmit /\ submit' = NoSubmit /\ UNCHANGED <<published, structures>>
  BY DEF TraceScene
<1>3. Later(Traced(w, s), w, Owned)
  <2>1. Settled(w, Owned) /\ w.made = {} /\ Len(published.manifest.lights) \in Nat
    BY WorkingFields, WorkingSettled, ListedLengths DEF SceneInv
  <2> HIDE DEF w
  <2> QED BY <2>1, TracedLater
<1>4. /\ FromSceneInv' /\ KeepsGeometry
      /\ \A t \in DOMAIN structures : structures[t].fromScene => Shows(t)' = Shows(t)
  BY <1>1, <1>2, <1>3, LaterKeeps DEF ShownInv
<1>5. SubmitInv'
  BY <1>2 DEF SubmitInv
<1>6. ShowsScene
  <2> SUFFICES ASSUME Native' = {}
               PROVE  Shown' = Authored(submit.scene.manifest)
    BY DEF ShowsScene
  <2>1. Native = {}
    BY <1>2 DEF Native, Tops, Built
  <2>2. s \in Tops /\ Built(s)
    BY <1>1, <1>2 DEF Traceable, ShownInv, SubmitInv
  <2>3. s \in DOMAIN structures /\ structures[s].fromScene
    BY <2>1, <2>2 DEF Native, Tops
  <2>4. Shows(s) = Authored(submit.scene.manifest)
    BY <1>2, <2>1, <2>3 DEF ShownInv, SubmitInv
  <2>5. Shown' = Shows(s)'
    BY <1>1 DEF Shown, Shows, MeshesOf
  <2> QED BY <1>4, <2>3, <2>4, <2>5 DEF Authored
<1> QED BY <1>4, <1>5, <1>6 DEF ShownInv

\* The application's calls wait for the submit.
LEMMA Unsubmits ==
  ASSUME Unsubmitted
  PROVE  SubmitInv' /\ ShowsScene
BY DEF Unsubmitted, SubmitInv, ShowsScene, NotTraced

LEMMA PublishShows ==
  ASSUME ShownInv, NEW m, Publish(m)
  PROVE  ShownInv' /\ KeepsGeometry /\ ShowsScene
<1>1. /\ UNCHANGED <<structures, host, nextResource, sceneMeshes, submit>>
      /\ published'.sequence = published.sequence + 1 /\ traced' = NotTraced
  BY DEF Publish, cacheVars
<1>2. FromSceneInv'
  BY <1>1 DEF ShownInv, FromSceneInv, Shows, Built
<1>3. SubmitInv'
  BY <1>1 DEF ShownInv, SubmitInv, Shows, Built, Tops, Native
<1> QED BY <1>1, <1>2, <1>3 DEF ShownInv, KeepsGeometry, ShowsScene, NotTraced

LEMMA DestroyDeviceShows ==
  ASSUME ShownInv, DestroyDevice
  PROVE  ShownInv' /\ KeepsGeometry /\ ShowsScene
<1>1. DOMAIN structures = {} /\ structures' = structures /\ published' = published /\ Unsubmitted
  BY DEF DestroyDevice
<1> QED BY <1>1, Unsubmits DEF ShownInv, FromSceneInv, KeepsGeometry

LEMMA CreateStructureShows ==
  ASSUME SceneInv, ShownInv, NEW s, CreateStructure(s)
  PROVE  ShownInv' /\ KeepsGeometry /\ ShowsScene
<1> DEFINE w == NewResource(Working(1))
<1>1. /\ s \notin DOMAIN structures /\ Unsubmitted /\ published' = published /\ Becomes(w)
      /\ structures' = Put(structures, s, [resource |-> nextResource, built |-> FALSE,
           fromScene |-> FALSE, sequence |-> 0, shape |-> NoHandle])
  BY DEF CreateStructure
<1>2. InHand(Working(1), Owned)
  BY WorkingSettled, WorkingFields DEF InHand, Settled
<1>3. Later(w, Working(1), Owned)
  BY <1>2, NewResourceLater
<1> HIDE DEF w
<1>4. /\ sceneMeshes \subseteq sceneMeshes' /\ nextResource' \in Nat /\ nextResource <= nextResource'
      /\ \A id \in Owned : host'[id] = host[id]
      /\ \A t \in DOMAIN structures : structures[t].fromScene =>
           MeshesOf(sceneMeshes', host[structures[t].resource]) = Shows(t)
  BY <1>1, <1>3, LaterShows DEF ShownInv
<1>5. /\ DOMAIN structures' = DOMAIN structures \cup {s} /\ ~structures'[s].fromScene
      /\ \A t \in DOMAIN structures : structures'[t] = structures[t]
  BY <1>1 DEF Put
<1>6. \A t \in DOMAIN structures : host'[structures[t].resource] = host[structures[t].resource]
  BY <1>4 DEF Owned
<1>7. \A t \in DOMAIN structures : structures[t].fromScene => Shows(t)' = Shows(t)
  BY <1>4, <1>5, <1>6 DEF Shows
<1>8. nextResource \in Nat
  BY DEF SceneInv, Steady, Issued
<1>9. FromSceneInv'
  <2>1. \A t \in DOMAIN structures' : structures'[t].fromScene =>
          t \in DOMAIN structures /\ structures'[t] = structures[t]
    BY <1>5
  <2>2. \A t \in DOMAIN structures : structures[t].fromScene =>
          \A child \in host'[structures[t].resource] : child \in Nat /\ child < nextResource'
    BY <1>4, <1>6, <1>8 DEF ShownInv, FromSceneInv
  <2>3. \A t, r \in DOMAIN structures' : structures'[t].fromScene /\ structures'[r].fromScene => t = r
    BY <2>1 DEF ShownInv, FromSceneInv
  <2>4. \A t \in DOMAIN structures' : structures'[t].fromScene =>
          /\ t \in TopLevels /\ structures'[t].built
          /\ structures'[t].sequence \in Nat /\ structures'[t].sequence <= published.sequence
          /\ \A child \in host'[structures'[t].resource] : child \in Nat /\ child < nextResource'
    BY <2>1, <2>2 DEF ShownInv, FromSceneInv, Built
  <2>5. \A t \in DOMAIN structures' : structures'[t].fromScene =>
          (structures'[t].sequence = published.sequence => Shows(t)' = Authored(published.manifest))
    BY <1>7, <2>1 DEF ShownInv, FromSceneInv
  <2>6. published.sequence \in Nat
    BY DEF ShownInv, FromSceneInv
  <2> QED BY <1>1, <2>3, <2>4, <2>5, <2>6 DEF FromSceneInv, Built
<1> QED BY <1>1, <1>4, <1>9, Unsubmits DEF ShownInv, KeepsGeometry

LEMMA DestroyStructureShows ==
  ASSUME SceneInv, ShownInv, NEW s, DestroyStructure(s)
  PROVE  ShownInv' /\ KeepsGeometry /\ ShowsScene
<1> DEFINE w == Destroyed(Working(0), {structures[s].resource})
<1>1. /\ s \in DOMAIN structures /\ structures' = Drop(structures, s) /\ Becomes(w)
      /\ published' = published /\ Unsubmitted
  BY DEF DestroyStructure
<1>2. /\ IsWork(Working(0)) /\ Working(0).next = nextResource /\ Working(0).meshes = sceneMeshes
      /\ Working(0).host = host /\ Working(0).pinned = pinned
  BY WorkingFields
<1>3. /\ w.next = nextResource /\ w.meshes = sceneMeshes
      /\ DOMAIN w.host = DOMAIN host \ ({structures[s].resource} \ pinned)
      /\ \A id \in DOMAIN w.host : w.host[id] = host[id]
  BY <1>2, DestroyedFields
<1> HIDE DEF w
<1>4. /\ nextResource' = nextResource /\ sceneMeshes' = sceneMeshes /\ host' = w.host
  BY <1>1, <1>3 DEF Becomes
<1>5. /\ DOMAIN structures' = DOMAIN structures \ {s}
      /\ \A t \in DOMAIN structures' : structures'[t] = structures[t]
  BY <1>1 DEF Drop
<1>6. \A t \in DOMAIN structures' : host'[structures[t].resource] = host[structures[t].resource]
  <2> TAKE t \in DOMAIN structures'
  <2>1. t \in DOMAIN structures /\ structures[t].resource # structures[s].resource
    BY <1>1, <1>5 DEF SceneInv, StructuresApart
  <2>2. structures[t].resource \in DOMAIN host
    BY <2>1 DEF SceneInv, Steady, Places, Owned
  <2> QED BY <1>3, <1>4, <2>1, <2>2
<1>7. \A t \in DOMAIN structures' : structures[t].fromScene => Shows(t)' = Shows(t)
  BY <1>4, <1>5, <1>6 DEF Shows
<1>8. FromSceneInv'
  BY <1>1, <1>4, <1>5, <1>6, <1>7 DEF ShownInv, FromSceneInv, Built
<1> QED BY <1>1, <1>4, <1>8, Unsubmits DEF ShownInv, KeepsGeometry

LEMMA BuildShows ==
  ASSUME SceneInv, ShownInv, NEW s \in DOMAIN structures, NEW children, NEW shape,
         BuildStructure(s, children, shape)
  PROVE  ShownInv' /\ KeepsGeometry /\ ShowsScene
<1> DEFINE id == structures[s].resource
           w == [Working(0) EXCEPT !.host[id] = children]
<1>1. Becomes(w) /\ published' = published /\ Unsubmitted
  BY DEF BuildStructure
<1>2. w.host = [host EXCEPT ![id] = children] /\ w.next = nextResource /\ w.meshes = sceneMeshes
  BY DEF Working
<1> HIDE DEF w
<1>3. nextResource' = nextResource /\ sceneMeshes' = sceneMeshes /\ host' = [host EXCEPT ![id] = children]
  BY <1>1, <1>2 DEF Becomes
<1>4. /\ DOMAIN structures' = DOMAIN structures /\ ~structures'[s].fromScene
      /\ \A t \in DOMAIN structures : t # s => structures'[t] = structures[t]
  BY DEF BuildStructure, SceneInv, StructuresApart
<1>5. \A t \in DOMAIN structures : t # s => structures[t].resource # id
  BY DEF SceneInv, StructuresApart
<1> HIDE DEF id
<1>6. \A t \in DOMAIN structures : t # s =>
        host'[structures[t].resource] = host[structures[t].resource]
  BY <1>3, <1>5
<1>7. \A t \in DOMAIN structures : t # s => Shows(t)' = Shows(t)
  BY <1>3, <1>4, <1>6 DEF Shows
<1>8. FromSceneInv'
  BY <1>1, <1>3, <1>4, <1>6, <1>7 DEF ShownInv, FromSceneInv, Built
<1> QED BY <1>1, <1>3, <1>8, Unsubmits DEF ShownInv, KeepsGeometry

LEMMA ShownInitial == SceneInit => ShownInv
BY DEF SceneInit, ShownInv, FromSceneInv, SubmitInv, EmptyTable, NoScene

LEMMA ShownStep ==
  ASSUME SceneInv, ShownInv, SceneNext
  PROVE  ShownInv' /\ KeepsGeometry /\ ShowsScene
<1>1. CASE Publisher
  BY <1>1, PublishShows DEF Publisher
<1>2. CASE \E grants \in 0 .. MaxRequests : SubmitScene(grants)
  BY <1>2, SubmitShows
<1>3. CASE \E grants \in 0 .. TraceRequests : TraceScene(grants)
  BY <1>3, TraceShows
<1>4. CASE CreateDevice
  <2>1. UNCHANGED <<published, structures, host, nextResource, sceneMeshes>> /\ Unsubmitted
    BY <1>4 DEF CreateDevice, cacheVars
  <2> QED BY <2>1, Unsubmits DEF ShownInv, FromSceneInv, Shows, Built, KeepsGeometry
<1>5. CASE DestroyDevice
  BY <1>5, DestroyDeviceShows
<1>6. CASE \E s \in TopLevels \cup BottomLevels : CreateStructure(s) \/ DestroyStructure(s)
  BY <1>6, CreateStructureShows, DestroyStructureShows
<1>7. CASE \E b \in BottomLevels, shape \in Shapes : BuildPrimitive(b, shape)
  BY <1>7, BuildShows DEF BuildPrimitive
<1>8. CASE \E t \in TopLevels, bottoms \in SUBSET BottomLevels : BuildInstance(t, bottoms)
  BY <1>8, BuildShows DEF BuildInstance, Tops
<1> QED BY <1>1, <1>2, <1>3, <1>4, <1>5, <1>6, <1>7, <1>8 DEF SceneNext, Application

LEMMA ShownStutter ==
  ASSUME ShownInv, UNCHANGED sceneVars
  PROVE  ShownInv'
BY DEF sceneVars, ShownInv, FromSceneInv, SubmitInv, Shows, Built, Tops, Native

\* At most one structure is the scene's, and it shows the scene it was built
\* from, until a submit builds it anew.
THEOREM SceneShown == SceneSpec => []ShownInv
<1>1. SceneInv /\ ShownInv /\ [SceneNext]_sceneVars => ShownInv'
  BY ShownStep, ShownStutter
<1> QED BY <1>1, ShownInitial, SceneInvariance, PTL DEF SceneSpec

\* The cleaning of bridgeFallbackInstanceAccelerationStructureBuildLocked
\* spares what its structure instances, and nothing cleans when the host
\* refuses the build.
THEOREM SceneKeepsGeometry == SceneSpec => SceneGeometryKept
<1>1. SceneInv /\ ShownInv /\ [SceneNext]_sceneVars => [KeepsGeometry]_sceneVars
  BY ShownStep
<1>2. SceneSpec => [][KeepsGeometry]_sceneVars
  BY <1>1, SceneInvariance, SceneShown, PTL DEF SceneSpec
<1> QED BY <1>2 DEF SceneGeometryKept, KeepsGeometry

\* What vkQueueSubmit traces, when the host acknowledges it, is the geometry
\* published when the submit read the scene file.
THEOREM SceneTracesShow == SceneSpec => TracesShowScene
<1>1. SceneInv /\ ShownInv /\ [SceneNext]_sceneVars => [ShowsScene]_sceneVars
  BY ShownStep
<1>2. SceneSpec => [][ShowsScene]_sceneVars
  BY <1>1, SceneInvariance, SceneShown, PTL DEF SceneSpec
<1> QED BY <1>2 DEF TracesShowScene, ShowsScene

=============================================================================
