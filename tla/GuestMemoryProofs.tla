------------------------- MODULE GuestMemoryProofs -------------------------
(***************************************************************************)
(* No write to the guest's device memory is lost, and no copy the driver   *)
(* makes leaves a command a stale one to read: only a write through a      *)
(* mapping that nothing marked may be missed.  The application waits for   *)
(* its fences before it touches memory again, neither maps nor draws what  *)
(* it shares with CUDA (Liberties = {}), and binds nothing over an image.  *)
(* A sparse buffer's list of ranges is a page table, whatever the sizes of *)
(* buffers and memories; and a texel of a sparse image has memory on the   *)
(* host exactly if its tile, or the mip tail, is bound.                    *)
(***************************************************************************)
EXTENDS GuestMemory, GuestSparse, WellFoundedInduction, TLAPS

Apart == \A x \in Buffers \cup Images, i \in Images : x # i => Placement[x] # Placement[i]

Currents == [Cells -> SUBSET Holders]

\* What a place on the host lacks of a cell, the driver was never told of.
Held(current, place, c) == place \in current[c] \/ "unmarked" \in current[c]

\* What commands on Metal need: a buffer's cell that the driver knows to be
\* written since its last upload is in the dirty range.
Tracked(s) ==
  \A b \in Buffers : Placement[b] \in CellsOf(s.dirty) \/ Held(s.current, "metal", Placement[b])

\* An image that need not be marked dirty: its texture is as good as its cell.
Pictured(s, i) == s.fd \/ Held(s.current, "texture", Placement[i])

\* An allocation no unfinished command writes: one place always holds it all.
Fine(s) ==
  /\ s \in MemoryStates
  /\ s.fd => s.refs = 0 /\ \A c \in Cells : "pages" \in s.current[c]
  /\ ~s.fd => Tracked(s) /\ \A c \in Cells : "bytes" \in s.current[c]

\* An allocation whose resource x awaits its readback.
Due(s, x) ==
  /\ s \in MemoryStates /\ ~s.fd /\ Tracked(s)
  /\ x \in Images => /\ "texture" \in s.current[Placement[x]]
                     /\ \A c \in Cells \ {Placement[x]} : "bytes" \in s.current[c]
  /\ x \notin Images => \A c \in Cells : "metal" \in s.current[c]

\* An upload makes no copy stale.
Keeps(s, q) == \A c \in Cells : \A p \in s.current[c] : p \in q.current[c]

\* What is written to one image takes nothing from another.
Pictures(s, q, X) == \A j \in Images : j \notin X /\ Pictured(s, j) => Pictured(q, j)

----------------------------------------------------------------------------
(* Ranges, copies and records.                                             *)

LEMMA Ranged ==
  /\ Clean \in Ranges /\ Whole \in Ranges
  /\ CellsOf(Whole) = Cells /\ CellsOf(Clean) = {}
  /\ \A x \in Buffers \cup Images :
       /\ Cell(x) \in Ranges /\ Placement[x] \in Cells
       /\ CellsOf(Cell(x)) = {Placement[x]}
BY MemoryAssumption DEF Clean, Whole, Ranges, CellsOf, Cell, Cells

LEMMA Hulls ==
  ASSUME NEW r \in Ranges, NEW s \in Ranges
  PROVE  Hull(r, s) \in Ranges /\ CellsOf(r) \cup CellsOf(s) \subseteq CellsOf(Hull(r, s))
BY MemoryAssumption DEF Ranges, Hull, CellsOf

LEMMA Stored ==
  ASSUME NEW current \in Currents, NEW place \in Holders, NEW r
  PROVE  LET after == Store(current, place, r)
         IN  /\ after \in Currents
             /\ \A c \in Cells :
                  /\ c \notin CellsOf(r) => after[c] = current[c]
                  /\ c \in CellsOf(r) => after[c] = {place}
                  /\ place \in current[c] => place \in after[c]
BY DEF Currents, Store

LEMMA Transferred ==
  ASSUME NEW current \in Currents, NEW from \in Holders, NEW to \in Holders, NEW r
  PROVE  LET after == Transfer(current, from, to, r)
         IN  /\ after \in Currents
             /\ \A c \in Cells :
                  /\ c \notin CellsOf(r) => after[c] = current[c]
                  /\ from \in current[c] => \A p \in current[c] : p \in after[c]
                  /\ from \in current[c] /\ c \in CellsOf(r) => to \in after[c]
                  /\ \A p \in current[c] : p # to => p \in after[c]
BY DEF Currents, Transfer

LEMMA SetCurrent ==
  ASSUME NEW s \in MemoryStates, NEW current \in Currents
  PROVE  LET q == [s EXCEPT !.current = current]
         IN  /\ q \in MemoryStates /\ q.current = current /\ q.fd = s.fd /\ q.mapped = s.mapped
             /\ q.refs = s.refs /\ q.dirty = s.dirty
             /\ q.unflushed = s.unflushed
BY DEF MemoryStates, Currents

LEMMA SetDirty ==
  ASSUME NEW s \in MemoryStates, NEW dirt \in Ranges
  PROVE  LET q == [s EXCEPT !.dirty = dirt]
         IN  /\ q \in MemoryStates /\ q.current = s.current /\ q.fd = s.fd /\ q.mapped = s.mapped
             /\ q.refs = s.refs /\ q.dirty = dirt
             /\ q.unflushed = s.unflushed
BY DEF MemoryStates

\* Copies of an allocation that differ from it in several fields.
Sent(s, current) == [s EXCEPT !.current = current, !.dirty = Clean]
Recorded(s, x) == [s EXCEPT !.current = Store(@, "bytes", Cell(x)), !.dirty = Hull(@, Cell(x))]
Unmapped(s, dirt) == [s EXCEPT !.refs = 0, !.mapped = Clean, !.unflushed = {}, !.dirty = dirt]
Resulted(s, place, x) == [s EXCEPT !.current = Store(@, place, Cell(x))]
Emptied(s) == [s EXCEPT !.dirty = Clean, !.unflushed = {}]

LEMMA SetUploaded ==
  ASSUME NEW s \in MemoryStates, NEW current \in Currents
  PROVE  LET q == Sent(s, current)
         IN  /\ q \in MemoryStates /\ q.current = current /\ q.fd = s.fd /\ q.mapped = s.mapped
             /\ q.refs = s.refs /\ q.dirty = Clean
             /\ q.unflushed = s.unflushed
BY Ranged DEF MemoryStates, Currents, Sent

LEMMA InPlaces ==
  "bytes" \in Holders /\ "pages" \in Holders /\ "metal" \in Holders /\ "texture" \in Holders
BY DEF Places, Holders

LEMMA CurrentOf == \A s \in MemoryStates : s.current \in Currents
BY DEF MemoryStates, Currents

\* A write to one cell.
LEMMA StoredCell ==
  ASSUME NEW s \in MemoryStates, NEW place \in Holders, NEW r, NEW cell \in Cells,
         CellsOf(r) = {cell}
  PROVE  LET after == Store(s.current, place, r)
         IN  /\ after \in Currents /\ place \in after[cell]
             /\ \A c \in Cells : c # cell => after[c] = s.current[c]
<1> DEFINE current == s.current
           after == Store(current, place, r)
<1>1. current \in Currents
  BY CurrentOf
<1> HIDE DEF current
<1>2. /\ after \in Currents
      /\ \A c \in Cells : /\ c \notin CellsOf(r) => after[c] = current[c]
                          /\ c \in CellsOf(r) => after[c] = {place}
  BY <1>1, Stored
<1> HIDE DEF after
<1>3. place \in after[cell] /\ \A c \in Cells : c # cell => after[c] = current[c]
  BY <1>2
<1> QED BY <1>2, <1>3 DEF after, current

\* What a command reads.
LEMMA Reads ==
  ASSUME NEW current, NEW place, NEW r, \A c \in CellsOf(r) : place \in current[c]
  PROVE  Stale(current, place, r) = {}
BY DEF Stale

LEMMA Misses ==
  ASSUME NEW current, NEW place \in {"metal", "texture"}, NEW r,
         \A c \in CellsOf(r) : Held(current, place, c)
  PROVE  Stale(current, place, r) \subseteq {"unseen"}
BY DEF Stale, Held

LEMMA KeepsHeld ==
  ASSUME NEW s, NEW q, Keeps(s, q)
  PROVE  \A c \in Cells : \A place : Held(s.current, place, c) => Held(q.current, place, c)
BY DEF Keeps, Held

LEMMA KeepsPictures ==
  ASSUME NEW s, NEW q, Keeps(s, q), q.fd = s.fd, NEW X
  PROVE  Pictures(s, q, X)
BY KeepsHeld, Ranged DEF Pictures, Pictured

----------------------------------------------------------------------------
(* What the paths of the driver leave of an allocation.                    *)

LEMMA Refreshed ==
  ASSUME NEW s, Fine(s), NEW r \in Ranges
  PROVE  /\ Fine(RefreshFrom(s, r)) /\ RefreshFrom(s, r).fd = s.fd
         /\ CellsOf(r) \subseteq Cells /\ Stale(RefreshFrom(s, r).current, "bytes", r) = {}
         /\ \A c \in CellsOf(r) : "bytes" \in RefreshFrom(s, r).current[c]
         /\ Keeps(s, RefreshFrom(s, r))
<1>1. s \in MemoryStates /\ s.current \in Currents /\ CellsOf(r) \subseteq Cells
  BY CurrentOf, MemoryAssumption DEF Fine, CellsOf, Ranges, Cells
<1>2. CASE ~s.fd
  <2>1. RefreshFrom(s, r) = s /\ \A c \in CellsOf(r) : "bytes" \in s.current[c]
    BY <1>1, <1>2 DEF RefreshFrom, Fine
  <2> QED BY <1>1, <2>1, Reads DEF Keeps
<1>3. CASE s.fd
  <2> DEFINE after == Transfer(s.current, "pages", "bytes", r)
             q == [s EXCEPT !.current = after]
  <2>1. RefreshFrom(s, r) = q
    BY <1>3 DEF RefreshFrom
  <2>2. s.refs = 0 /\ \A c \in Cells : "pages" \in s.current[c]
    BY <1>3 DEF Fine
  <2>3. /\ after \in Currents
        /\ \A c \in Cells : \A p \in s.current[c] : p \in after[c]
        /\ \A c \in CellsOf(r) : "bytes" \in after[c]
    BY <1>1, <2>2, InPlaces, Transferred
  <2> HIDE DEF after
  <2>4. q \in MemoryStates /\ q.fd = s.fd /\ q.refs = s.refs /\ q.current = after
    BY <1>1, <2>3, SetCurrent
  <2>5. (\A c \in Cells : "pages" \in q.current[c]) /\ Keeps(s, q)
    BY <2>2, <2>3, <2>4 DEF Keeps
  <2> HIDE DEF q
  <2>6. Stale(q.current, "bytes", r) = {}
    BY <2>3, <2>4, Reads
  <2> QED BY <1>1, <1>3, <2>1, <2>2, <2>3, <2>4, <2>5, <2>6 DEF Fine
<1> QED BY <1>2, <1>3

LEMMA Uploaded ==
  ASSUME NEW s, Fine(s), NEW b \in Buffers
  PROVE  /\ Fine(UploadBuffer(s, Cell(b))) /\ UploadBuffer(s, Cell(b)).fd = s.fd
         /\ Held(UploadBuffer(s, Cell(b)).current, "metal", Placement[b])
         /\ Stale(UploadBuffer(s, Cell(b)).current, "metal", Cell(b)) \subseteq {"unseen"}
         /\ ~s.fd => UploadBuffer(s, Cell(b)) = UploadDirty(s)
         /\ Keeps(s, UploadBuffer(s, Cell(b)))
<1>1. s \in MemoryStates /\ s.current \in Currents /\ s.dirty \in Ranges
  BY CurrentOf DEF Fine, MemoryStates
<1>2. CASE ~s.fd
  <2> DEFINE current == Transfer(s.current, "bytes", "metal", s.dirty)
             q == Sent(s, current)
  <2>1. UploadBuffer(s, Cell(b)) = q
    BY <1>2 DEF UploadBuffer, UploadDirty, Sent
  <2>2. /\ \A c \in Cells : "bytes" \in s.current[c]
        /\ \A a \in Buffers : Placement[a] \in Cells
        /\ Tracked(s)
    BY <1>2, Ranged DEF Fine
  <2>3. /\ current \in Currents
        /\ \A c \in Cells : /\ \A p \in s.current[c] : p \in current[c]
                            /\ c \in CellsOf(s.dirty) => "metal" \in current[c]
    BY <1>1, <2>2, InPlaces, Transferred
  <2>4. q \in MemoryStates /\ q.fd = s.fd /\ q.current = current /\ q.dirty = Clean
    <3> HIDE DEF current
    <3> QED BY <1>1, <2>3, SetUploaded
  <2>5. \A c \in Cells : "bytes" \in current[c]
    BY <2>2, <2>3
  <2>6. \A a \in Buffers : Held(current, "metal", Placement[a])
    <3> HIDE DEF current, q
    <3> QED BY <2>2, <2>3 DEF Tracked, Held
  <2>7. Keeps(s, q)
    BY <1>1, <1>2, <2>4, Transferred, InPlaces DEF Fine, Keeps
  <2>8. /\ Fine(q) /\ Held(q.current, "metal", Placement[b])
        /\ Stale(q.current, "metal", Cell(b)) \subseteq {"unseen"}
    <3> HIDE DEF current, q
    <3>1. Fine(q)
      BY <1>2, <2>4, <2>5, <2>6 DEF Fine, Tracked
    <3>2. \A c \in CellsOf(Cell(b)) : Held(q.current, "metal", c)
      BY <2>4, <2>6, Ranged
    <3> QED BY <2>4, <2>6, <3>1, <3>2, Misses
  <2>9. q = UploadDirty(s)
    BY DEF Sent, UploadDirty
  <2> HIDE DEF q, current
  <2> QED BY <1>2, <2>1, <2>4, <2>7, <2>8, <2>9
<1>3. CASE s.fd
  <2> DEFINE p == RefreshFrom(s, Cell(b))
             current == Transfer(p.current, "bytes", "metal", Cell(b))
             q == [p EXCEPT !.current = current]
  <2>1. UploadBuffer(s, Cell(b)) = q
    BY <1>3 DEF UploadBuffer
  <2>2. Fine(p) /\ p.fd /\ "bytes" \in p.current[Placement[b]]
    BY <1>3, Refreshed, Ranged
  <2>3. p \in MemoryStates /\ p.current \in Currents /\ Keeps(s, p)
    BY <2>2, CurrentOf, Refreshed, Ranged DEF Fine
  <2>4. q \in MemoryStates /\ q.fd = p.fd /\ q.refs = p.refs /\ q.current = current
    BY <2>3, SetCurrent, Transferred, InPlaces
  <2>5. \A c \in Cells : "pages" \in current[c]
    BY <2>2, <2>3, Transferred, InPlaces DEF Fine
  <2>6. "metal" \in current[Placement[b]]
    <3>1. Placement[b] \in Cells /\ Placement[b] \in CellsOf(Cell(b))
      BY Ranged
    <3> HIDE DEF p
    <3> QED BY <2>2, <2>3, <3>1, Transferred, InPlaces
  <2>7. \A c \in Cells : \A pl \in p.current[c] : pl \in current[c]
    <3> TAKE c \in Cells
    <3>1. c \in CellsOf(Cell(b)) => c = Placement[b]
      BY Ranged
    <3> HIDE DEF p
    <3> QED BY <2>2, <2>3, <3>1, Transferred, InPlaces
  <2> HIDE DEF p, current, q
  <2>8. Keeps(s, q)
    BY <2>3, <2>4, <2>7 DEF Keeps
  <2>9. Stale(q.current, "metal", Cell(b)) = {}
    BY <2>4, <2>6, Ranged, Reads
  <2> QED BY <1>3, <2>1, <2>2, <2>4, <2>5, <2>6, <2>8, <2>9 DEF Fine, Held
<1> QED BY <1>2, <1>3

LEMMA WrittenFine ==
  ASSUME NEW s, Fine(s), NEW b \in Buffers, Apart
  PROVE  /\ Fine(Written(s, Cell(b))) /\ Written(s, Cell(b)).fd = s.fd
         /\ Pictures(s, Written(s, Cell(b)), {b})
<1> DEFINE stored == Store(s.current, "bytes", Cell(b))
           p == [s EXCEPT !.current = stored]
           both == Transfer(stored, "bytes", "pages", Cell(b))
           q == [p EXCEPT !.current = both]
<1>1. s \in MemoryStates /\ s.current \in Currents /\ s.dirty \in Ranges
  BY CurrentOf DEF Fine, MemoryStates
<1>2. stored \in Currents /\ p \in MemoryStates /\ p.current = stored /\ p.fd = s.fd
      /\ p.refs = s.refs /\ p.dirty = s.dirty /\ p.mapped = s.mapped
  BY <1>1, Stored, SetCurrent, InPlaces
<1>3. both \in Currents /\ q \in MemoryStates /\ q.current = both /\ q.fd = s.fd /\ q.refs = s.refs
  BY <1>2, Transferred, SetCurrent, InPlaces
<1>4. CASE ~s.fd
  <2>1. Written(s, Cell(b)) = [p EXCEPT !.dirty = Hull(p.dirty, Cell(b))]
    BY <1>2, <1>4 DEF Written, SyncTo
  <2>2. Hull(p.dirty, Cell(b)) \in Ranges
        /\ CellsOf(p.dirty) \cup {Placement[b]} \subseteq CellsOf(Hull(p.dirty, Cell(b)))
    BY <1>1, <1>2, Hulls, Ranged
  <2>3. \A c \in Cells : "bytes" \in stored[c]
    BY <1>1, <1>4, Stored, InPlaces DEF Fine
  <2>4. \A a \in Buffers \cup Images :
          Placement[a] # Placement[b] => stored[Placement[a]] = s.current[Placement[a]]
    <3> TAKE a \in Buffers \cup Images
    <3>1. Placement[a] \in Cells /\ Placement[b] \in Cells /\ CellsOf(Cell(b)) = {Placement[b]}
      BY Ranged
    <3>2. "bytes" \in Holders
      BY InPlaces
    <3>3. \A c \in Cells : c # Placement[b] => stored[c] = s.current[c]
      BY <1>1, <3>1, <3>2, StoredCell
    <3> HIDE DEF stored
    <3> QED BY <3>1, <3>3
  <2> HIDE DEF p, stored
  <2>5. Fine([p EXCEPT !.dirty = Hull(p.dirty, Cell(b))])
    BY <1>2, <1>4, <2>2, <2>3, <2>4, SetDirty DEF Fine, Tracked, Held
  <2>6. \A j \in Images : j # b => stored[Placement[j]] = s.current[Placement[j]]
    BY <2>4 DEF Apart
  <2>7. Pictures(s, [p EXCEPT !.dirty = Hull(p.dirty, Cell(b))], {b})
    BY <1>2, <2>2, <2>6, SetDirty DEF Pictures, Pictured, Held
  <2> QED BY <1>2, <2>1, <2>2, <2>5, <2>7, SetDirty
<1>5. CASE s.fd
  <2>1. Written(s, Cell(b)) = [q EXCEPT !.dirty = Clean]
    BY <1>2, <1>5 DEF Written, SyncTo
  <2>2. \A c \in Cells : "pages" \in both[c]
    <3> TAKE c \in Cells
    <3>1. CASE c \in CellsOf(Cell(b))
      <4>1. "bytes" \in stored[c]
        BY <1>1, <3>1, Stored, InPlaces
      <4> HIDE DEF stored
      <4> QED BY <1>2, <3>1, <4>1, Transferred, InPlaces
    <3>2. CASE c \notin CellsOf(Cell(b))
      <4>1. "pages" \in stored[c]
        BY <1>1, <1>5, <3>2, Stored, InPlaces DEF Fine
      <4> HIDE DEF stored
      <4> QED BY <1>2, <3>2, <4>1, Transferred, InPlaces
    <3> QED BY <3>1, <3>2
  <2>3. Clean \in Ranges
    BY Ranged
  <2> HIDE DEF q, both
  <2>4. LET d == [q EXCEPT !.dirty = Clean]
        IN  d \in MemoryStates /\ d.fd = s.fd /\ d.refs = s.refs /\ d.current = both
    BY <1>3, <2>3, SetDirty
  <2> QED BY <1>5, <2>1, <2>2, <2>4 DEF Fine, Pictures, Pictured
<1> QED BY <1>4, <1>5

\* A result in the cell of x, passed on to the file.
LEMMA Synced ==
  ASSUME NEW s, Fine(s), NEW x \in Buffers \cup Images, Apart, NEW after \in Currents,
         "bytes" \in after[Placement[x]],
         \A c \in Cells \ {Placement[x]} : after[c] = s.current[c],
         x \in Buffers => "metal" \in after[Placement[x]]
  PROVE  LET q == SyncTo([s EXCEPT !.current = after], Cell(x))
         IN  /\ Fine(q) /\ q.fd = s.fd /\ Pictures(s, q, {x})
             /\ \A p \in after[Placement[x]] : p \in q.current[Placement[x]]
<1> DEFINE p == [s EXCEPT !.current = after]
           both == Transfer(after, "bytes", "pages", Cell(x))
           q == [p EXCEPT !.current = both]
<1>1. s \in MemoryStates /\ s.current \in Currents
  BY CurrentOf DEF Fine
<1>2. p \in MemoryStates /\ p.current = after /\ p.fd = s.fd
      /\ p.refs = s.refs /\ p.dirty = s.dirty /\ p.mapped = s.mapped
  BY <1>1, SetCurrent
<1>3. both \in Currents /\ q \in MemoryStates /\ q.current = both /\ q.fd = s.fd /\ q.refs = s.refs
  BY <1>2, Transferred, SetCurrent, InPlaces
<1>4. Placement[x] \in Cells /\ CellsOf(Cell(x)) = {Placement[x]}
      /\ \A b \in Buffers : Placement[b] \in Cells
  BY Ranged
<1>5. CASE ~s.fd
  <2>1. SyncTo(p, Cell(x)) = p
    BY <1>2, <1>5 DEF SyncTo
  <2>2. \A c \in Cells : "bytes" \in after[c]
    BY <1>5 DEF Fine
  <2>3. Tracked(p)
    <3>1. \A b \in Buffers : Placement[b] = Placement[x] => "metal" \in after[Placement[b]]
      BY DEF Apart
    <3> HIDE DEF p
    <3> QED BY <1>2, <1>4, <1>5, <3>1 DEF Fine, Tracked, Held
  <2>4. Fine(p)
    <3> HIDE DEF p
    <3> QED BY <1>2, <1>5, <2>2, <2>3 DEF Fine
  <2>5. Pictures(s, p, {x})
    <3>1. \A j \in Images : j # x => Placement[j] \in Cells \ {Placement[x]}
      BY Ranged DEF Apart
    <3> HIDE DEF p
    <3> QED BY <1>2, <3>1 DEF Pictures, Pictured, Held
  <2> QED BY <1>2, <2>1, <2>4, <2>5
<1>6. CASE s.fd
  <2>1. SyncTo(p, Cell(x)) = q
    BY <1>2, <1>6 DEF SyncTo
  <2>2. \A c \in Cells : "pages" \in both[c]
    <3> TAKE c \in Cells
    <3>1. CASE c = Placement[x]
      BY <1>4, <3>1, Transferred, InPlaces
    <3>2. CASE c # Placement[x]
      BY <1>4, <1>6, <3>2, Transferred, InPlaces DEF Fine
    <3> QED BY <3>1, <3>2
  <2>3. \A pl \in after[Placement[x]] : pl \in both[Placement[x]]
    BY <1>4, Transferred, InPlaces
  <2>4. Fine(q)
    <3> HIDE DEF q, both
    <3> QED BY <1>3, <1>6, <2>2 DEF Fine
  <2> HIDE DEF q, both
  <2>5. Pictures(s, q, {x})
    BY <1>3, <1>6 DEF Pictures, Pictured
  <2> QED BY <1>3, <2>1, <2>3, <2>4, <2>5
<1> QED BY <1>5, <1>6

\* The driver's own write to an image, and Metal's result read back.
LEMMA ImageStored ==
  ASSUME NEW s, Fine(s), NEW i \in Images, Apart
  PROVE  LET q == SyncTo([s EXCEPT !.current = Store(@, "bytes", Cell(i))], Cell(i))
         IN  /\ Fine(q) /\ q.fd = s.fd /\ "bytes" \in q.current[Placement[i]]
             /\ Pictures(s, q, {i})
<1> DEFINE after == Store(s.current, "bytes", Cell(i))
<1>1. s \in MemoryStates
  BY DEF Fine
<1>2. Placement[i] \in Cells /\ CellsOf(Cell(i)) = {Placement[i]}
  BY Ranged
<1>3. after \in Currents /\ "bytes" \in after[Placement[i]]
      /\ \A c \in Cells \ {Placement[i]} : after[c] = s.current[c]
  <2>1. "bytes" \in Holders /\ "texture" \in Holders
    BY InPlaces
  <2>2. Placement[i] \in Cells /\ CellsOf(Cell(i)) = {Placement[i]}
    BY <1>2
  <2>3. \A c \in Cells : c # Placement[i] => after[c] = s.current[c]
    BY <1>1, <2>1, <2>2, StoredCell
  <2> QED BY <1>1, <2>1, <2>2, <2>3, StoredCell
<1>4. i \notin Buffers
  BY MemoryAssumption
<1> HIDE DEF after
<1>5. LET q == SyncTo([s EXCEPT !.current = after], Cell(i))
      IN  /\ Fine(q) /\ q.fd = s.fd /\ Pictures(s, q, {i})
          /\ \A p \in after[Placement[i]] : p \in q.current[Placement[i]]
  BY <1>3, <1>4, Synced
<1> QED BY <1>3, <1>5 DEF after

LEMMA ReadBackFine ==
  ASSUME NEW s, Fine(s), NEW x \in Buffers \cup Images, Apart,
         NEW place \in {"metal", "texture"}, x \in Buffers => place = "metal"
  PROVE  /\ Fine(ReadBack(s, place, x)) /\ ReadBack(s, place, x).fd = s.fd
         /\ Pictures(s, ReadBack(s, place, x), {x})
<1> DEFINE stored == Store(s.current, place, Cell(x))
           after == Transfer(stored, place, "bytes", Cell(x))
<1>1. s \in MemoryStates /\ place \in Holders
  BY InPlaces DEF Fine
<1>2. Placement[x] \in Cells /\ CellsOf(Cell(x)) = {Placement[x]}
  BY Ranged
<1>3. stored \in Currents /\ place \in stored[Placement[x]]
      /\ \A c \in Cells \ {Placement[x]} : stored[c] = s.current[c]
  <2>1. \A c \in Cells : c # Placement[x] => stored[c] = s.current[c]
    BY <1>1, <1>2, StoredCell
  <2> QED BY <1>1, <1>2, <2>1, StoredCell
<1>4. after \in Currents /\ "bytes" \in after[Placement[x]] /\ place \in after[Placement[x]]
      /\ \A c \in Cells \ {Placement[x]} : after[c] = s.current[c]
  <2> HIDE DEF stored
  <2>1. Placement[x] \in CellsOf(Cell(x)) /\ \A c \in Cells \ {Placement[x]} : c \notin CellsOf(Cell(x))
    BY <1>2
  <2>2. place \in Holders /\ "bytes" \in Holders
    BY <1>1, InPlaces
  <2>3. /\ after \in Currents
        /\ \A c \in Cells :
             /\ c \notin CellsOf(Cell(x)) => after[c] = stored[c]
             /\ place \in stored[c] => \A p \in stored[c] : p \in after[c]
             /\ place \in stored[c] /\ c \in CellsOf(Cell(x)) => "bytes" \in after[c]
    BY <1>3, <2>2, Transferred
  <2> HIDE DEF after
  <2> QED BY <1>2, <1>3, <2>1, <2>3
<1> HIDE DEF after, stored
<1>5. LET q == SyncTo([s EXCEPT !.current = after], Cell(x))
      IN  Fine(q) /\ q.fd = s.fd /\ Pictures(s, q, {x})
  BY <1>4, Synced
<1> QED BY <1>5 DEF ReadBack, after, stored

\* What Metal's textures are made of: the driver's bytes, brought up to date.
LEMMA Textured ==
  ASSUME NEW s, Fine(s), NEW i \in Images, "bytes" \in s.current[Placement[i]]
  PROVE  LET q == [s EXCEPT !.current = Transfer(@, "bytes", "texture", Cell(i))]
         IN  /\ Fine(q) /\ q.fd = s.fd /\ Stale(q.current, "texture", Cell(i)) = {}
             /\ "texture" \in q.current[Placement[i]] /\ Keeps(s, q)
<1> DEFINE after == Transfer(s.current, "bytes", "texture", Cell(i))
           q == [s EXCEPT !.current = after]
<1>1. s \in MemoryStates /\ s.current \in Currents
  BY CurrentOf DEF Fine
<1>2. Placement[i] \in Cells /\ CellsOf(Cell(i)) = {Placement[i]}
      /\ \A b \in Buffers : Placement[b] \in Cells
  BY Ranged
<1>3. after \in Currents /\ "texture" \in after[Placement[i]]
      /\ \A c \in Cells : \A p \in s.current[c] : p # "texture" => p \in after[c]
  BY <1>1, <1>2, Transferred, InPlaces
<1>4. q \in MemoryStates /\ q.current = after /\ q.fd = s.fd
      /\ q.refs = s.refs /\ q.dirty = s.dirty /\ q.mapped = s.mapped
  BY <1>1, <1>3, SetCurrent
<1>5. Fine(q) /\ Stale(q.current, "texture", Cell(i)) = {}
  <2> HIDE DEF q, after
  <2>1. ~s.fd => Tracked(q)
    BY <1>2, <1>3, <1>4 DEF Fine, Tracked, Held
  <2>2. Stale(q.current, "texture", Cell(i)) = {}
    BY <1>2, <1>3, <1>4, Reads
  <2> QED BY <1>2, <1>3, <1>4, <2>1, <2>2 DEF Fine
<1>6. \A c \in Cells : \A p \in s.current[c] : p \in after[c]
  <2> TAKE c \in Cells
  <2> QED BY <1>1, <1>2, Transferred, InPlaces
<1> HIDE DEF after, q
<1>7. Keeps(s, q)
  BY <1>4, <1>6 DEF Keeps
<1> QED BY <1>3, <1>4, <1>5, <1>7 DEF q, after

LEMMA ImageUploaded ==
  ASSUME NEW s, Fine(s), NEW i \in Images
  PROVE  /\ Fine(UploadImage(s, i)) /\ UploadImage(s, i).fd = s.fd
         /\ Stale(UploadImage(s, i).current, "texture", Cell(i)) = {}
         /\ Keeps(s, UploadImage(s, i))
<1> DEFINE p == RefreshFrom(s, Cell(i))
<1>1. Cell(i) \in Ranges /\ CellsOf(Cell(i)) = {Placement[i]}
  BY Ranged
<1>2. Fine(p) /\ p.fd = s.fd /\ "bytes" \in p.current[Placement[i]] /\ Keeps(s, p)
  BY <1>1, Refreshed
<1> HIDE DEF p
<1>3. LET q == [p EXCEPT !.current = Transfer(@, "bytes", "texture", Cell(i))]
      IN  Fine(q) /\ q.fd = p.fd /\ Stale(q.current, "texture", Cell(i)) = {} /\ Keeps(p, q)
  BY <1>2, Textured
<1>4. UploadImage(s, i) = [p EXCEPT !.current = Transfer(@, "bytes", "texture", Cell(i))]
  BY DEF UploadImage, p
<1>5. \A q : Keeps(s, p) /\ Keeps(p, q) => Keeps(s, q)
  BY DEF Keeps
<1> QED BY <1>2, <1>3, <1>4, <1>5

\* vkCmdCopyImageToBuffer and the upload of the UI's vertices, on memory that
\* is not shared, do what the other paths do.
LEMMA SamePaths ==
  ASSUME NEW s, Fine(s), ~s.fd, NEW b \in Buffers, NEW i \in Images
  PROVE  /\ SyncTo(Recorded(s, b), Cell(b)) = Written(s, Cell(b))
         /\ ImageWritten(s, i) = SyncTo([s EXCEPT !.current = Store(@, "bytes", Cell(i))], Cell(i))
<1>1. s \in MemoryStates
  BY DEF Fine
<1> DEFINE p == [s EXCEPT !.current = Store(@, "bytes", Cell(b))]
           q == Recorded(s, b)
<1>2. p.fd = s.fd /\ q.fd = s.fd /\ p.dirty = s.dirty /\ q = [p EXCEPT !.dirty = Hull(@, Cell(b))]
  BY <1>1 DEF MemoryStates, Recorded
<1>3. SyncTo(q, Cell(b)) = q /\ SyncTo(p, Cell(b)) = p
  BY <1>2 DEF SyncTo
<1>4. Written(s, Cell(b)) = q
  BY <1>2, <1>3 DEF Written
<1>5. [s EXCEPT !.current = Store(@, "bytes", Cell(i))].fd = s.fd
  BY <1>1 DEF MemoryStates
<1> QED BY <1>3, <1>4, <1>5 DEF ImageWritten, SyncTo

\* Exporting fills the new file.
LEMMA Exported ==
  ASSUME NEW s, Fine(s), ~s.fd, s.refs = 0
  PROVE  LET e == SyncTo([s EXCEPT !.fd = TRUE], Whole)
             q == Emptied(e)
         IN  Fine(q) /\ q.fd
<1> DEFINE p == [s EXCEPT !.fd = TRUE]
           after == Transfer(s.current, "bytes", "pages", Whole)
           e == [p EXCEPT !.current = after]
           q == Emptied(e)
<1>1. s \in MemoryStates /\ s.current \in Currents
  BY CurrentOf DEF Fine
<1>2. p \in MemoryStates /\ p.fd /\ p.current = s.current /\ p.refs = 0
  BY <1>1 DEF MemoryStates
<1>3. after \in Currents /\ \A c \in Cells : "pages" \in after[c]
  BY <1>1, Ranged, Transferred, InPlaces DEF Fine
<1>4. SyncTo(p, Whole) = e
  BY <1>2 DEF SyncTo
<1> HIDE DEF p, after
<1>5. e \in MemoryStates /\ e.fd /\ e.current = after /\ e.refs = 0
  BY <1>2, <1>3, SetCurrent
<1> HIDE DEF e
<1>6. q \in MemoryStates /\ q.fd /\ q.current = after /\ q.refs = 0
  BY <1>5, Ranged DEF MemoryStates, Emptied
<1> HIDE DEF q
<1>7. Fine(q)
  BY <1>3, <1>6 DEF Fine
<1> QED BY <1>4, <1>6, <1>7 DEF p, q

\* The two results that wait for a fence, and their readback.
LEMMA Added ==
  ASSUME NEW s, Fine(s), ~s.fd, NEW b \in Buffers, Apart
  PROVE  LET u == [s EXCEPT !.current = Transfer(@, "bytes", "metal", Whole)]
             q == Resulted(u, "metal", b)
         IN  Stale(u.current, "metal", Cell(b)) = {} /\ Due(q, b) /\ Pictures(s, q, {b})
<1> DEFINE sent == Transfer(s.current, "bytes", "metal", Whole)
           u == [s EXCEPT !.current = sent]
           after == Store(sent, "metal", Cell(b))
           q == [u EXCEPT !.current = after]
<1>1. s \in MemoryStates /\ s.current \in Currents
  BY CurrentOf DEF Fine
<1>2. Placement[b] \in Cells /\ CellsOf(Cell(b)) = {Placement[b]} /\ CellsOf(Whole) = Cells
      /\ \A a \in Buffers : Placement[a] \in Cells
  BY Ranged
<1>3. sent \in Currents /\ \A c \in Cells : "metal" \in sent[c]
  BY <1>1, <1>2, Transferred, InPlaces DEF Fine
<1>4. u \in MemoryStates /\ u.current = sent /\ u.fd = s.fd
      /\ u.dirty = s.dirty /\ u.mapped = s.mapped
  BY <1>1, <1>3, SetCurrent
<1> HIDE DEF u, sent
<1>5. after \in Currents /\ \A c \in Cells : "metal" \in after[c]
  BY <1>3, Stored, InPlaces
<1> HIDE DEF after
<1>6. q \in MemoryStates /\ q.current = after /\ q.fd = s.fd
      /\ q.dirty = s.dirty /\ q.mapped = s.mapped
  BY <1>4, <1>5, SetCurrent
<1>7. Stale(u.current, "metal", Cell(b)) = {}
  BY <1>2, <1>3, <1>4, Reads
<1> HIDE DEF q
<1>8. b \notin Images
  BY MemoryAssumption
<1>9. Due(q, b)
  BY <1>2, <1>5, <1>6, <1>8 DEF Due, Fine, Tracked, Held
<1>10. Pictures(s, q, {b})
  <2>1. \A c \in Cells : \A p \in s.current[c] : p \in sent[c]
    BY <1>1, <1>2, Transferred, InPlaces DEF Fine, sent
  <2>2. \A j \in Images : j # b => Placement[j] \in Cells \ {Placement[b]}
    BY Ranged DEF Apart
  <2>3. \A c \in Cells \ {Placement[b]} : after[c] = sent[c]
    BY <1>2, <1>3, Stored, InPlaces DEF after
  <2> QED BY <1>6, <2>1, <2>2, <2>3 DEF Pictures, Pictured, Held
<1> QED BY <1>4, <1>7, <1>9, <1>10 DEF u, q, after, sent, Resulted

LEMMA Drawn ==
  ASSUME NEW s, Fine(s), ~s.fd, NEW i \in Images, Apart
  PROVE  LET q == [s EXCEPT !.current = Store(@, "texture", Cell(i))]
         IN  Due(q, i) /\ Pictures(s, q, {i})
<1> DEFINE after == Store(s.current, "texture", Cell(i))
           q == [s EXCEPT !.current = after]
<1>1. s \in MemoryStates /\ s.current \in Currents
  BY CurrentOf DEF Fine
<1>2. Placement[i] \in Cells /\ CellsOf(Cell(i)) = {Placement[i]}
      /\ \A a \in Buffers : Placement[a] \in Cells \ {Placement[i]}
  BY Ranged, MemoryAssumption DEF Apart
<1>3. after \in Currents /\ "texture" \in after[Placement[i]]
      /\ \A c \in Cells \ {Placement[i]} : after[c] = s.current[c]
  <2>1. "bytes" \in Holders /\ "texture" \in Holders
    BY InPlaces
  <2>2. Placement[i] \in Cells /\ CellsOf(Cell(i)) = {Placement[i]}
    BY <1>2
  <2>3. \A c \in Cells : c # Placement[i] => after[c] = s.current[c]
    BY <1>1, <2>1, <2>2, StoredCell
  <2> QED BY <1>1, <2>1, <2>2, <2>3, StoredCell
<1>4. q \in MemoryStates /\ q.current = after /\ q.fd = s.fd
      /\ q.dirty = s.dirty /\ q.mapped = s.mapped
  BY <1>1, <1>3, SetCurrent
<1> HIDE DEF q, after
<1>5. Tracked(q)
  BY <1>2, <1>3, <1>4 DEF Fine, Tracked, Held
<1>6. Due(q, i)
  BY <1>3, <1>4, <1>5 DEF Due, Fine
<1>7. Pictures(s, q, {i})
  <2>1. \A j \in Images : j # i => Placement[j] \in Cells \ {Placement[i]}
    BY Ranged DEF Apart
  <2> QED BY <1>3, <1>4, <2>1 DEF Pictures, Pictured, Held
<1> QED BY <1>6, <1>7 DEF q, after

LEMMA ReadBackDue ==
  ASSUME NEW s, NEW x \in Buffers \cup Images, Due(s, x)
  PROVE  /\ Fine(Completed(s, x)) /\ ~Completed(s, x).fd
         /\ Pictures(s, Completed(s, x), {})
<1>1. s \in MemoryStates /\ s.current \in Currents
  BY CurrentOf DEF Due
<1>2. Placement[x] \in Cells /\ CellsOf(Cell(x)) = {Placement[x]} /\ CellsOf(Whole) = Cells
      /\ \A a \in Buffers : Placement[a] \in Cells
  BY Ranged
<1>3. ASSUME NEW after \in Currents, \A c \in Cells : "bytes" \in after[c],
             \A c \in Cells : \A p \in s.current[c] : p # "bytes" => p \in after[c]
      PROVE  LET q == [s EXCEPT !.current = after]
             IN  Fine(q) /\ ~q.fd /\ Pictures(s, q, {})
  <2> DEFINE q == [s EXCEPT !.current = after]
  <2>1. q \in MemoryStates /\ q.current = after /\ ~q.fd
        /\ q.dirty = s.dirty /\ q.mapped = s.mapped
    BY <1>1, SetCurrent DEF Due
  <2> HIDE DEF q
  <2>2. Tracked(q)
    BY <1>2, <1>3, <2>1 DEF Due, Tracked, Held
  <2>3. Fine(q) /\ ~q.fd
    BY <1>3, <2>1, <2>2 DEF Fine
  <2>4. Pictures(s, q, {})
    BY <1>3, <2>1, Ranged DEF Pictures, Pictured, Held, Due
  <2> QED BY <2>3, <2>4 DEF q
<1>4. CASE x \in Images
  <2> DEFINE after == Transfer(s.current, "texture", "bytes", Cell(x))
  <2>1. after \in Currents /\ \A c \in Cells : \A p \in s.current[c] : p # "bytes" => p \in after[c]
    BY <1>1, Transferred, InPlaces
  <2>2. \A c \in Cells : "bytes" \in after[c]
    BY <1>1, <1>2, <1>4, Transferred, InPlaces DEF Due
  <2> HIDE DEF after
  <2>3. LET q == [s EXCEPT !.current = after] IN Fine(q) /\ ~q.fd /\ Pictures(s, q, {})
    BY <1>3, <2>1, <2>2
  <2> QED BY <1>4, <2>3 DEF Completed, after
<1>5. CASE x \notin Images
  <2> DEFINE after == Transfer(s.current, "metal", "bytes", Whole)
  <2>1. after \in Currents /\ \A c \in Cells : \A p \in s.current[c] : p # "bytes" => p \in after[c]
    BY <1>1, Transferred, InPlaces
  <2>2. \A c \in Cells : "bytes" \in after[c]
    BY <1>1, <1>2, <1>5, Transferred, InPlaces DEF Due
  <2> HIDE DEF after
  <2>3. LET q == [s EXCEPT !.current = after] IN Fine(q) /\ ~q.fd /\ Pictures(s, q, {})
    BY <1>3, <2>1, <2>2
  <2> QED BY <1>5, <2>3 DEF Completed, after
<1> QED BY <1>4, <1>5

----------------------------------------------------------------------------
(* The invariant.                                                          *)

\* What the theorems ask of the application: it waits for a submit before it
\* touches the memory again, does not map, draw or copy images in memory it
\* shares with CUDA, and places nothing where an image is.  It may keep memory
\* mapped, map it again and write to it at any time.
Usual == Liberties = {} /\ Apart

\* An image that is not dirty, its texture needs nothing.
ImagesHeld == \A j \in DOMAIN dirty : dirty[j] \/ Pictured(memory[bound[j]], j)

\* The result of at most one submit awaits readback in an allocation, and
\* that submit's resource says what it lacks; all others lack nothing.
MemoryInv ==
  /\ MemoryTypeOK /\ ImagesHeld
  /\ \A m \in DOMAIN memory : ~Pending(m) => Fine(memory[m])
  /\ \A f \in DOMAIN pending : Due(memory[bound[pending[f].of]], pending[f].of)
  /\ \A f, g \in DOMAIN pending : bound[pending[f].of] = bound[pending[g].of] => f = g
  /\ observed \subseteq {"unseen"}

\* Contents that may follow "memory" while the same submits are unfinished and
\* no image but those of X is written.
Kept(mem, X) ==
  /\ mem \in [DOMAIN memory -> MemoryStates]
  /\ \A m \in DOMAIN memory : IF Pending(m) THEN mem[m] = memory[m] ELSE Fine(mem[m])
  /\ \A j \in DOMAIN dirty :
       j \notin X /\ Pictured(memory[bound[j]], j) => Pictured(mem[bound[j]], j)

\* The images of X are dirty now, or shown as they are; the others are what
\* they were.
Fixed(X) ==
  /\ dirty' \in [DOMAIN dirty -> BOOLEAN]
  /\ \A j \in DOMAIN dirty :
       dirty'[j] \/ Pictured(memory'[bound[j]], j) \/ (j \notin X /\ ~dirty[j])

LEMMA KeptSame == MemoryInv => \A X : Kept(memory, X)
BY DEF MemoryInv, MemoryTypeOK, IsTable, Kept

LEMMA KeptWith ==
  ASSUME MemoryInv, NEW X, NEW mem, Kept(mem, X), NEW m \in DOMAIN memory, ~Pending(m),
         NEW s, Fine(s), Pictures(mem[m], s, X)
  PROVE  Kept([mem EXCEPT ![m] = s], X) /\ [mem EXCEPT ![m] = s][m] = s
<1> DEFINE after == [mem EXCEPT ![m] = s]
<1>1. /\ s \in MemoryStates /\ mem \in [DOMAIN memory -> MemoryStates]
      /\ after \in [DOMAIN memory -> MemoryStates]
      /\ after[m] = s /\ \A n \in DOMAIN memory \ {m} : after[n] = mem[n]
  BY DEF Kept, Fine
<1> HIDE DEF after
<1>2. \A n \in DOMAIN memory : IF Pending(n) THEN after[n] = memory[n] ELSE Fine(after[n])
  BY <1>1 DEF Kept
<1>3. \A j \in DOMAIN dirty : j \in Images /\ bound[j] \in DOMAIN memory
  BY DEF MemoryInv, MemoryTypeOK, IsTable
<1>4. \A j \in DOMAIN dirty :
        j \notin X /\ Pictured(memory[bound[j]], j) => Pictured(after[bound[j]], j)
  BY <1>1, <1>3 DEF Kept, Pictures
<1>5. Kept(after, X)
  BY <1>1, <1>2, <1>4 DEF Kept
<1> QED BY <1>1, <1>5 DEF after

\* What a command does to the marks: nothing, one image is written, or it is
\* shown.
LEMMA MarksSame ==
  ASSUME MemoryInv, dirty' = dirty, NEW X, X \cap Images = {}
  PROVE  Fixed(X)
<1>1. dirty \in [DOMAIN dirty -> BOOLEAN] /\ DOMAIN dirty \subseteq Images
  BY DEF MemoryInv, MemoryTypeOK, IsTable
<1> QED BY <1>1 DEF Fixed

LEMMA MarkedDirty ==
  ASSUME MemoryInv, NEW i, dirty' = [dirty EXCEPT ![i] = TRUE]
  PROVE  Fixed({i})
<1>1. dirty \in [DOMAIN dirty -> BOOLEAN]
  BY DEF MemoryInv, MemoryTypeOK, IsTable
<1>2. dirty' \in [DOMAIN dirty -> BOOLEAN]
      /\ \A j \in DOMAIN dirty : IF j = i THEN dirty'[j] = TRUE ELSE dirty'[j] = dirty[j]
  BY <1>1
<1> QED BY <1>2 DEF Fixed

LEMMA Replayed ==
  ASSUME MemoryInv, NEW X, Kept(memory', X), UNCHANGED <<bound, pending>>,
         Fixed(X), observed' \subseteq {"unseen"}
  PROVE  MemoryInv'
<1>1. DOMAIN memory' = DOMAIN memory /\ memory' \in [DOMAIN memory -> MemoryStates]
  BY DEF Kept
<1>2. DOMAIN dirty' = DOMAIN dirty /\ dirty' \in [DOMAIN dirty -> BOOLEAN]
  BY DEF Fixed
<1>8. ImagesHeld'
  <2>1. \A j \in DOMAIN dirty : dirty'[j] \/ Pictured(memory'[bound[j]], j)
    BY DEF MemoryInv, ImagesHeld, Kept, Fixed
  <2> QED BY <1>2, <2>1 DEF ImagesHeld, Pictured
<1>3. MemoryTypeOK'
  BY <1>1, <1>2 DEF MemoryInv, MemoryTypeOK, IsTable
<1>4. ASSUME NEW m \in DOMAIN memory', ~Pending(m)'
      PROVE  Fine(memory'[m])
  <2>1. m \in DOMAIN memory /\ ~Pending(m)
    BY <1>1, <1>4 DEF Pending
  <2> QED BY <2>1 DEF Kept
<1>5. ASSUME NEW f \in DOMAIN pending
      PROVE  Due(memory'[bound[pending[f].of]], pending[f].of)
  <2>1. bound[pending[f].of] \in DOMAIN memory /\ Pending(bound[pending[f].of])
    BY DEF MemoryInv, MemoryTypeOK, IsTable, Pending
  <2>2. memory'[bound[pending[f].of]] = memory[bound[pending[f].of]]
    BY <2>1 DEF Kept
  <2> QED BY <2>2 DEF MemoryInv
<1>6. \A m \in DOMAIN memory' : ~Pending(m)' => Fine(memory[m])'
  BY <1>4
<1>7. \A f \in DOMAIN pending' : Due(memory[bound[pending[f].of]], pending[f].of)'
  BY <1>5
<1> QED BY <1>3, <1>6, <1>7, <1>8 DEF MemoryInv

LEMMA OneReplayed ==
  ASSUME MemoryInv, NEW m \in DOMAIN memory, ~Pending(m), NEW s, Fine(s),
         NEW X, Pictures(memory[m], s, X),
         memory' = [memory EXCEPT ![m] = s], UNCHANGED <<bound, pending>>,
         Fixed(X), observed' \subseteq {"unseen"}
  PROVE  MemoryInv'
<1>1. Kept(memory, X)
  BY KeptSame
<1>2. Kept([memory EXCEPT ![m] = s], X)
  BY <1>1, KeptWith
<1> QED BY <1>2, Replayed

\* A call that leaves an allocation's contents alone.
LEMMA SameContents ==
  ASSUME MemoryInv, NEW m \in DOMAIN memory, ~Pending(m), NEW s, Fine(s),
         s.current = memory[m].current, s.fd = memory[m].fd,
         memory' = [memory EXCEPT ![m] = s], UNCHANGED <<bound, pending>>,
         dirty' = dirty, observed' = {}
  PROVE  MemoryInv'
<1>1. Pictures(memory[m], s, {})
  BY DEF Pictures, Pictured
<1>2. Fixed({})
  BY MarksSame
<1> QED BY <1>1, <1>2, OneReplayed

\* What a resource can be used for says about its memory.
LEMMA Used ==
  ASSUME MemoryInv, Usual, NEW x, Usable(x)
  PROVE  /\ bound[x] \in DOMAIN memory /\ x \in Buffers \cup Images
         /\ ~Pending(bound[x]) /\ Fine(memory[bound[x]])
         /\ PrivateTo(x) => ~memory[bound[x]].fd
         /\ dirty \in [DOMAIN dirty -> BOOLEAN]
BY DEF MemoryInv, MemoryTypeOK, IsTable, Usual, Usable, Settled, PrivateTo, Private

----------------------------------------------------------------------------
(* The application and CUDA.                                               *)

LEMMA NewFine == \A shared \in BOOLEAN : Fine(NewMemory(shared))
<1> SUFFICES ASSUME NEW shared \in BOOLEAN
             PROVE  Fine(NewMemory(shared))
  OBVIOUS
<1>1. NewMemory(shared) \in MemoryStates
  BY Ranged, MemoryAssumption DEF NewMemory, MemoryStates, Places, Holders
<1>2. \A b \in Buffers : Placement[b] \in Cells
  BY Ranged
<1> QED BY <1>1, <1>2 DEF Fine, Tracked, NewMemory, Held

LEMMA Allocated ==
  ASSUME MemoryInv, NEW m \in Memories, NEW imported \in BOOLEAN, AllocateMemory(m, imported)
  PROVE  MemoryInv'
<1> DEFINE s == NewMemory(imported)
<1>1. Fine(s) /\ s \in MemoryStates
  BY NewFine DEF Fine
<1> HIDE DEF s
<1>2. /\ m \notin DOMAIN memory /\ memory' = Put(memory, m, s)
      /\ bound' = bound /\ dirty' = dirty /\ pending' = pending /\ observed' = {}
  BY DEF AllocateMemory, s
<1>3. /\ DOMAIN memory' = DOMAIN memory \cup {m} /\ memory'[m] = s
      /\ \A n \in DOMAIN memory : memory'[n] = memory[n]
      /\ IsTable(memory', Memories, MemoryStates)
  BY <1>1, <1>2 DEF Put, MemoryInv, MemoryTypeOK, IsTable
<1>4. MemoryTypeOK'
  BY <1>2, <1>3 DEF MemoryInv, MemoryTypeOK, IsTable
<1>5. \A f \in DOMAIN pending : memory'[bound[pending[f].of]] = memory[bound[pending[f].of]]
  BY <1>3 DEF MemoryInv, MemoryTypeOK, IsTable
<1>6. \A n \in DOMAIN memory' : ~Pending(n)' => Fine(memory[n])'
  BY <1>1, <1>2, <1>3 DEF MemoryInv, Pending
<1>7. \A f \in DOMAIN pending' : Due(memory[bound[pending[f].of]], pending[f].of)'
  BY <1>2, <1>5 DEF MemoryInv
<1>8. \A j \in DOMAIN dirty : memory'[bound[j]] = memory[bound[j]]
  BY <1>3 DEF MemoryInv, MemoryTypeOK, IsTable
<1>9. ImagesHeld'
  BY <1>2, <1>8 DEF MemoryInv, ImagesHeld, Pictured
<1> QED BY <1>2, <1>4, <1>6, <1>7, <1>9 DEF MemoryInv

LEMMA Freed ==
  ASSUME MemoryInv, NEW m \in Memories, FreeMemory(m)
  PROVE  MemoryInv'
<1>1. /\ \A x \in DOMAIN bound : bound[x] # m
      /\ DOMAIN memory' = DOMAIN memory \ {m}
      /\ \A n \in DOMAIN memory' : memory'[n] = memory[n]
      /\ bound' = bound /\ dirty' = dirty /\ pending' = pending /\ observed' = {}
  BY DEF FreeMemory, Drop
<1>2. IsTable(memory', Memories, MemoryStates)
  BY DEF FreeMemory, Drop, MemoryInv, MemoryTypeOK, IsTable
<1>3. IsTable(bound, Buffers \cup Images, DOMAIN memory')
  BY <1>1 DEF MemoryInv, MemoryTypeOK, IsTable
<1>4. MemoryTypeOK'
  BY <1>1, <1>2, <1>3 DEF MemoryInv, MemoryTypeOK
<1>5. \A f \in DOMAIN pending : memory'[bound[pending[f].of]] = memory[bound[pending[f].of]]
  BY <1>1, <1>3 DEF MemoryInv, MemoryTypeOK, IsTable
<1>6. \A n \in DOMAIN memory' : ~Pending(n)' => Fine(memory[n])'
  BY <1>1 DEF MemoryInv, Pending
<1>7. \A f \in DOMAIN pending' : Due(memory[bound[pending[f].of]], pending[f].of)'
  BY <1>1, <1>5 DEF MemoryInv
<1>8. \A j \in DOMAIN dirty : memory'[bound[j]] = memory[bound[j]]
  BY <1>1, <1>3 DEF MemoryInv, MemoryTypeOK, IsTable
<1>9. ImagesHeld'
  BY <1>1, <1>8 DEF MemoryInv, ImagesHeld, Pictured
<1> QED BY <1>1, <1>4, <1>6, <1>7, <1>9 DEF MemoryInv

\* An allocation with a new image differs from before in the texture alone.
Grew(s, q) ==
  /\ q \in MemoryStates /\ Keeps(s, q)
  /\ q.fd = s.fd /\ q.refs = s.refs /\ q.dirty = s.dirty

LEMMA GrewFine ==
  ASSUME NEW s, NEW q, Grew(s, q)
  PROVE  /\ Fine(s) => Fine(q)
         /\ \A x \in Buffers \cup Images : Due(s, x) => Due(q, x)
         /\ \A i \in Images : Pictured(s, i) => Pictured(q, i)
<1>1. q \in MemoryStates /\ q.fd = s.fd /\ q.refs = s.refs /\ q.dirty = s.dirty
      /\ \A c \in Cells : \A p \in s.current[c] : p \in q.current[c]
  BY DEF Grew, Keeps
<1>2. \A x \in Buffers \cup Images : Placement[x] \in Cells
  BY Ranged
<1>3. Tracked(s) => Tracked(q)
  BY <1>1, <1>2 DEF Tracked, Held
<1>4. Fine(s) => Fine(q)
  BY <1>1, <1>3 DEF Fine
<1>5. \A x \in Buffers \cup Images : Due(s, x) => Due(q, x)
  BY <1>1, <1>2, <1>3 DEF Due
<1>6. \A i \in Images : Pictured(s, i) => Pictured(q, i)
  BY <1>1, <1>2 DEF Pictured, Held
<1> QED BY <1>4, <1>5, <1>6

\* A resource that no unfinished submit names comes or goes.
LEMMA Rebound ==
  ASSUME MemoryInv, IsTable(bound', Buffers \cup Images, DOMAIN memory),
         IsTable(dirty', Images, BOOLEAN), DOMAIN dirty' = Images \cap DOMAIN bound',
         \A f \in DOMAIN pending :
           pending[f].of \in DOMAIN bound' /\ bound'[pending[f].of] = bound[pending[f].of],
         IsTable(memory', Memories, MemoryStates), DOMAIN memory' = DOMAIN memory,
         \A m \in DOMAIN memory : Grew(memory[m], memory'[m]),
         \A j \in DOMAIN dirty' : dirty'[j] \/ Pictured(memory'[bound'[j]], j),
         UNCHANGED pending, observed' = {}
  PROVE  MemoryInv'
<1>1. IsTable(pending, Fences, [of : DOMAIN bound'])
  BY DEF MemoryInv, MemoryTypeOK, IsTable
<1>2. MemoryTypeOK'
  BY <1>1 DEF MemoryInv, MemoryTypeOK
<1>3. ASSUME NEW n \in DOMAIN memory', ~Pending(n)'
      PROVE  Fine(memory'[n])
  <2>1. n \in DOMAIN memory /\ ~Pending(n)
    BY <1>3 DEF Pending
  <2>2. Fine(memory[n]) /\ Grew(memory[n], memory'[n])
    BY <2>1 DEF MemoryInv
  <2> QED BY <2>2, GrewFine
<1>4. ASSUME NEW f \in DOMAIN pending
      PROVE  Due(memory'[bound'[pending[f].of]], pending[f].of)
  <2>1. /\ bound'[pending[f].of] = bound[pending[f].of] /\ bound[pending[f].of] \in DOMAIN memory
        /\ pending[f].of \in Buffers \cup Images
    BY DEF MemoryInv, MemoryTypeOK, IsTable
  <2>2. Due(memory[bound[pending[f].of]], pending[f].of)
    BY DEF MemoryInv
  <2> DEFINE x == pending[f].of
             m == bound[x]
  <2>3. Grew(memory[m], memory'[m]) /\ x \in Buffers \cup Images /\ Due(memory[m], x)
    BY <2>1, <2>2
  <2>4. bound'[x] = m
    BY <2>1
  <2> HIDE DEF x, m
  <2>5. Due(memory'[m], x)
    <3> DEFINE before == memory[m]
               after == memory'[m]
    <3>1. Grew(before, after) /\ x \in Buffers \cup Images /\ Due(before, x)
      BY <2>3
    <3> HIDE DEF before, after
    <3>2. \A y \in Buffers \cup Images : Due(before, y) => Due(after, y)
      BY <3>1, GrewFine
    <3>3. Due(after, x)
      BY <3>1, <3>2
    <3> QED BY <3>3 DEF after
  <2> QED BY <2>4, <2>5 DEF x
<1>5. (\A f, g \in DOMAIN pending : bound[pending[f].of] = bound[pending[g].of] => f = g)'
  BY DEF MemoryInv
<1>6. ImagesHeld'
  BY DEF ImagesHeld, Pictured
<1>7. \A n \in DOMAIN memory' : ~Pending(n)' => Fine(memory[n])'
  BY <1>3
<1>8. \A f \in DOMAIN pending' : Due(memory[bound[pending[f].of]], pending[f].of)'
  BY <1>4
<1> QED BY <1>2, <1>5, <1>6, <1>7, <1>8 DEF MemoryInv

LEMMA Textures ==
  ASSUME NEW s \in MemoryStates, NEW i \in Images
  PROVE  Grew(s, NewTexture(s, i)) /\ Pictured(NewTexture(s, i), i)
<1> DEFINE after == [s.current EXCEPT ![Placement[i]] = s.current[Placement[i]] \cup {"texture"}]
<1>1. s.current \in Currents /\ Placement[i] \in Cells
  BY CurrentOf, Ranged
<1>2. /\ after \in Currents /\ "texture" \in after[Placement[i]]
      /\ \A c \in Cells : \A p \in s.current[c] : p \in after[c]
  BY <1>1, InPlaces DEF Currents
<1> HIDE DEF after
<1>3. LET q == [s EXCEPT !.current = after]
      IN  /\ q \in MemoryStates /\ q.current = after /\ q.fd = s.fd
          /\ q.refs = s.refs /\ q.dirty = s.dirty
  BY <1>2, SetCurrent
<1>4. NewTexture(s, i) = [s EXCEPT !.current = after]
  BY DEF NewTexture, after
<1> QED BY <1>2, <1>3, <1>4 DEF Grew, Keeps, Pictured, Held

LEMMA BoundOne ==
  ASSUME MemoryInv, NEW m \in Memories, NEW x \in Buffers \cup Images, BindMemory(x, m)
  PROVE  MemoryInv'
<1>1. /\ x \notin DOMAIN bound /\ DOMAIN bound' = DOMAIN bound \cup {x}
      /\ \A y \in DOMAIN bound : bound'[y] = bound[y]
      /\ bound'[x] = m /\ m \in DOMAIN memory
      /\ memory' = IF x \in Images THEN [memory EXCEPT ![m] = NewTexture(memory[m], x)] ELSE memory
      /\ UNCHANGED pending /\ observed' = {}
  BY DEF BindMemory, Put
<1>2. IsTable(bound', Buffers \cup Images, DOMAIN memory)
  <2>1. bound' = Put(bound, x, m) /\ m \in DOMAIN memory
    BY DEF BindMemory
  <2>2. IsTable(bound, Buffers \cup Images, DOMAIN memory)
    BY DEF MemoryInv, MemoryTypeOK
  <2> QED BY <2>1, <2>2 DEF Put, IsTable
<1>3. IsTable(dirty', Images, BOOLEAN) /\ DOMAIN dirty' = Images \cap DOMAIN bound'
  <2>1. IsTable(dirty, Images, BOOLEAN) /\ DOMAIN dirty = Images \cap DOMAIN bound
    BY DEF MemoryInv, MemoryTypeOK
  <2>2. dirty' = IF x \in Images THEN Put(dirty, x, FALSE) ELSE dirty
    BY DEF BindMemory
  <2> QED BY <1>1, <2>1, <2>2 DEF Put, IsTable
<1>4. \A f \in DOMAIN pending : pending[f].of \in DOMAIN bound
  BY DEF MemoryInv, MemoryTypeOK, IsTable
<1>5. memory \in [DOMAIN memory -> MemoryStates] /\ DOMAIN memory \subseteq Memories
  BY DEF MemoryInv, MemoryTypeOK, IsTable
<1>6. x \in Images => Grew(memory[m], NewTexture(memory[m], x)) /\ Pictured(NewTexture(memory[m], x), x)
  BY <1>1, <1>5, Textures
<1>7. /\ DOMAIN memory' = DOMAIN memory
      /\ \A n \in DOMAIN memory : n # m \/ x \notin Images => memory'[n] = memory[n]
      /\ x \in Images => memory'[m] = NewTexture(memory[m], x)
  BY <1>1, <1>5
<1>8. \A n \in DOMAIN memory : Grew(memory[n], memory[n])
  BY <1>5 DEF Grew, Keeps
<1>9. \A n \in DOMAIN memory : Grew(memory[n], memory'[n])
  BY <1>6, <1>7, <1>8
<1>10. IsTable(memory', Memories, MemoryStates)
  <2>1. memory' \in [DOMAIN memory -> MemoryStates]
    BY <1>1, <1>5, <1>6 DEF Grew
  <2> QED BY <1>5, <1>7, <2>1 DEF IsTable
<1>11. ASSUME NEW j \in DOMAIN dirty'
       PROVE  dirty'[j] \/ Pictured(memory'[bound'[j]], j)
  <2>1. CASE j = x
    BY <1>1, <1>3, <1>6, <1>7, <2>1
  <2>2. CASE j # x
    <3>1. j \in DOMAIN dirty /\ dirty'[j] = dirty[j] /\ j \in Images /\ j \in DOMAIN bound
      <4>1. dirty' = IF x \in Images THEN Put(dirty, x, FALSE) ELSE dirty
        BY DEF BindMemory
      <4>2. DOMAIN dirty = Images \cap DOMAIN bound
        BY DEF MemoryInv, MemoryTypeOK
      <4> QED BY <2>2, <4>1, <4>2 DEF Put
    <3>2. bound'[j] = bound[j] /\ bound[j] \in DOMAIN memory
      BY <1>1, <3>1 DEF MemoryInv, MemoryTypeOK, IsTable
    <3>3. dirty[j] \/ Pictured(memory[bound[j]], j)
      BY <3>1 DEF MemoryInv, ImagesHeld
    <3> QED BY <1>9, <3>1, <3>2, <3>3, GrewFine
  <2> QED BY <2>1, <2>2
<1> QED BY <1>1, <1>2, <1>3, <1>4, <1>7, <1>9, <1>10, <1>11, Rebound

LEMMA Destroyed ==
  ASSUME MemoryInv, NEW x \in Buffers \cup Images, DestroyResource(x)
  PROVE  MemoryInv'
<1>1. /\ \A f \in DOMAIN pending : pending[f].of # x
      /\ DOMAIN bound' = DOMAIN bound \ {x}
      /\ \A y \in DOMAIN bound' : bound'[y] = bound[y]
      /\ UNCHANGED <<memory, pending>> /\ observed' = {}
  BY DEF DestroyResource, Drop
<1>2. IsTable(bound', Buffers \cup Images, DOMAIN memory)
  BY DEF DestroyResource, Drop, MemoryInv, MemoryTypeOK, IsTable
<1>3. IsTable(dirty', Images, BOOLEAN) /\ DOMAIN dirty' = Images \cap DOMAIN bound'
  BY <1>1 DEF DestroyResource, Drop, MemoryInv, MemoryTypeOK, IsTable
<1>4. \A f \in DOMAIN pending : pending[f].of \in DOMAIN bound
  BY DEF MemoryInv, MemoryTypeOK, IsTable
<1>5. IsTable(memory, Memories, MemoryStates) /\ \A n \in DOMAIN memory : Grew(memory[n], memory[n])
  BY DEF MemoryInv, MemoryTypeOK, IsTable, Grew, Keeps
<1>6. ASSUME NEW j \in DOMAIN dirty'
      PROVE  dirty'[j] \/ Pictured(memory'[bound'[j]], j)
  <2>1. j \in DOMAIN dirty /\ j \in DOMAIN bound' /\ dirty'[j] = dirty[j]
    BY <1>3 DEF DestroyResource, Drop
  <2>2. dirty[j] \/ Pictured(memory[bound[j]], j)
    BY <2>1 DEF MemoryInv, ImagesHeld
  <2> QED BY <1>1, <2>1, <2>2
<1> QED BY <1>1, <1>2, <1>3, <1>4, <1>5, <1>6, Rebound

\* Memory the application may touch, and what a mapping says of it.
LEMMA Touched ==
  ASSUME MemoryInv, Usual, NEW m \in DOMAIN memory, Settled(m)
  PROVE  /\ ~Pending(m) /\ Fine(memory[m]) /\ memory[m] \in MemoryStates
         /\ memory[m].current \in Currents
         /\ IsMapped(memory[m]) => ~memory[m].fd /\ Tracked(memory[m])
         /\ dirty \in [DOMAIN dirty -> BOOLEAN]
<1>1. ~Pending(m) /\ Fine(memory[m]) /\ memory[m] \in MemoryStates /\ dirty \in [DOMAIN dirty -> BOOLEAN]
  BY DEF MemoryInv, MemoryTypeOK, IsTable, Usual, Settled, Fine
<1>2. IsMapped(memory[m]) => ~memory[m].fd /\ Tracked(memory[m])
  BY <1>1, MemoryAssumption DEF Fine, IsMapped
<1> QED BY <1>1, <1>2, CurrentOf

LEMMA HostWritten ==
  ASSUME MemoryInv, Usual, NEW m \in Memories, NEW c \in Cells, HostWrite(m, c)
  PROVE  MemoryInv'
<1> DEFINE s == memory[m]
           mark == IF Marked(m, c) THEN {} ELSE {"unmarked"}
           after == [s.current EXCEPT ![c] = {"bytes"} \cup mark]
           unflushed == IF s.fd THEN s.unflushed \cup {c} ELSE s.unflushed
           q == [s EXCEPT !.current = after, !.unflushed = unflushed]
<1>1. /\ m \in DOMAIN memory /\ ~Pending(m) /\ Fine(s) /\ s \in MemoryStates /\ s.current \in Currents
      /\ ~s.fd /\ Tracked(s)
  BY Touched DEF HostWrite
<1>2. /\ Marked(m, c) => c \in CellsOf(s.dirty) /\ c \notin ImageCells(m)
      /\ ~Marked(m, c) => "unmarked" \in mark
  BY <1>1 DEF Marked
<1>3. /\ after \in Currents /\ "bytes" \in after[c] /\ (~Marked(m, c) => "unmarked" \in after[c])
      /\ \A d \in Cells \ {c} : after[d] = s.current[d]
  <2>1. {"bytes"} \cup mark \in SUBSET Holders
    BY InPlaces DEF Holders
  <2> HIDE DEF mark
  <2> QED BY <1>1, <1>2, <2>1 DEF Currents
<1>4. memory' = [memory EXCEPT ![m] = q]
  BY DEF HostWrite
<1> HIDE DEF s, after, mark
<1>5. unflushed \in SUBSET Cells
  BY <1>1 DEF MemoryStates
<1> HIDE DEF unflushed
<1>6. /\ q \in MemoryStates /\ q.current = after /\ q.fd = s.fd /\ q.dirty = s.dirty
  BY <1>1, <1>3, <1>5 DEF MemoryStates, Currents
<1> HIDE DEF q
<1>7. \A x \in Buffers \cup Images : Placement[x] \in Cells
  BY Ranged
<1>8. Tracked(q)
  BY <1>1, <1>2, <1>3, <1>6, <1>7 DEF Tracked, Held
<1>9. Fine(q)
  BY <1>1, <1>3, <1>6, <1>8 DEF Fine
<1>10. Kept(memory', {})
  <2>1. memory \in [DOMAIN memory -> MemoryStates]
    BY DEF MemoryInv, MemoryTypeOK, IsTable
  <2>2. /\ memory' \in [DOMAIN memory -> MemoryStates] /\ memory'[m] = q
        /\ \A n \in DOMAIN memory \ {m} : memory'[n] = memory[n]
    BY <1>1, <1>4, <1>6, <2>1
  <2>3. \A n \in DOMAIN memory : IF Pending(n) THEN memory'[n] = memory[n] ELSE Fine(memory'[n])
    BY <1>1, <1>9, <2>2 DEF MemoryInv
  <2>4. ASSUME NEW j \in DOMAIN dirty, Pictured(memory[bound[j]], j)
        PROVE  Pictured(memory'[bound[j]], j)
    <3>1. j \in Images /\ j \in DOMAIN bound /\ bound[j] \in DOMAIN memory
      BY DEF MemoryInv, MemoryTypeOK, IsTable
    <3>2. CASE bound[j] # m
      BY <2>2, <2>4, <3>1, <3>2
    <3>3. CASE bound[j] = m
      <4>1. Placement[j] \in ImageCells(m)
        BY <3>1, <3>3 DEF ImageCells
      <4>2. Held(s.current, "texture", Placement[j])
        BY <1>1, <2>4, <3>3 DEF Pictured, s
      <4>3. Held(after, "texture", Placement[j])
        BY <1>2, <1>3, <1>7, <3>1, <4>1, <4>2 DEF Held
      <4> QED BY <1>6, <2>2, <3>3, <4>3 DEF Pictured
    <3> QED BY <3>2, <3>3
  <2> QED BY <2>2, <2>3, <2>4 DEF Kept
<1>11. UNCHANGED <<bound, pending>> /\ dirty' = dirty /\ observed' = {}
  BY DEF HostWrite
<1> QED BY <1>10, <1>11, MarksSame, Replayed

LEMMA CudaWritten ==
  ASSUME MemoryInv, Usual, NEW m \in Memories, NEW c \in Cells, CudaWrite(m, c)
  PROVE  MemoryInv'
<1> DEFINE s == memory[m]
           after == [s.current EXCEPT ![c] = {"pages"}]
           q == [s EXCEPT !.current = after]
<1>1. /\ m \in DOMAIN memory /\ ~Pending(m) /\ Fine(s) /\ s \in MemoryStates /\ s.current \in Currents
      /\ s.fd
  BY Touched DEF CudaWrite
<1>2. after \in Currents /\ \A d \in Cells : "pages" \in after[d]
  BY <1>1, InPlaces DEF Currents, Fine
<1>3. memory' = [memory EXCEPT ![m] = q]
  BY DEF CudaWrite
<1> HIDE DEF s, after
<1>4. q \in MemoryStates /\ q.current = after /\ q.fd = s.fd /\ q.refs = s.refs
  BY <1>1, <1>2, SetCurrent
<1> HIDE DEF q
<1>5. Fine(q)
  BY <1>1, <1>2, <1>4 DEF Fine
<1>6. UNCHANGED <<bound, pending>> /\ dirty' = dirty /\ observed' = {}
  BY DEF CudaWrite
<1>7. Pictures(s, q, {})
  BY <1>1, <1>4 DEF Pictures, Pictured
<1> QED BY <1>1, <1>3, <1>5, <1>6, <1>7, MarksSame, OneReplayed DEF s

LEMMA SetUnmapped ==
  ASSUME NEW s \in MemoryStates, NEW dirt \in Ranges
  PROVE  LET q == Unmapped(s, dirt)
         IN  /\ q \in MemoryStates /\ q.current = s.current /\ q.fd = s.fd
             /\ q.dirty = dirt
<1> DEFINE p == [s EXCEPT !.refs = 0, !.mapped = Clean]
           q == [p EXCEPT !.unflushed = {}, !.dirty = dirt]
<1>1. 0 \in 0 .. MaxMaps
  BY MemoryAssumption
<1>2. p \in MemoryStates /\ p.current = s.current /\ p.fd = s.fd
  BY <1>1, Ranged DEF MemoryStates
<1>3. q = Unmapped(s, dirt)
  BY Zenon DEF Unmapped
<1> HIDE DEF p
<1>4. /\ q \in MemoryStates /\ q.current = p.current /\ q.fd = p.fd
      /\ q.dirty = dirt
  BY <1>2 DEF MemoryStates
<1> QED BY <1>2, <1>3, <1>4

LEMMA MappedOne ==
  ASSUME MemoryInv, Usual, NEW m \in Memories, NEW r \in Ranges, MapMemory(m, r)
  PROVE  MemoryInv'
<1> DEFINE s == memory[m]
           first == [s EXCEPT !.mapped = r, !.refs = 1, !.dirty = Hull(s.dirty, r)]
           again == [s EXCEPT !.refs = s.refs + 1]
<1>1. /\ m \in DOMAIN memory /\ ~Pending(m) /\ Fine(s) /\ s \in MemoryStates
      /\ dirty \in [DOMAIN dirty -> BOOLEAN]
      /\ UNCHANGED <<bound, pending>> /\ dirty' = dirty /\ observed' = {}
  BY Touched DEF MapMemory
<1>2. ~s.fd /\ Tracked(s)
  BY <1>1 DEF MapMemory, Private, Usual, Fine
<1>3. CASE ~IsMapped(s)
  <2>1. memory' = [memory EXCEPT ![m] = first]
    BY <1>3 DEF MapMemory
  <2>2. /\ Hull(s.dirty, r) \in Ranges /\ CellsOf(s.dirty) \subseteq CellsOf(Hull(s.dirty, r))
        /\ CellsOf(r) \subseteq CellsOf(Hull(s.dirty, r))
    BY <1>1, Hulls DEF MemoryStates
  <2> HIDE DEF s
  <2>3. /\ first \in MemoryStates /\ first.current = s.current /\ first.fd = s.fd
        /\ first.mapped = r /\ first.dirty = Hull(s.dirty, r)
    <3> DEFINE dirt == Hull(s.dirty, r)
               p == [s EXCEPT !.mapped = r, !.refs = 1]
               q == [p EXCEPT !.dirty = dirt]
    <3>1. dirt \in Ranges /\ s \in MemoryStates /\ 1 \in 0 .. MaxMaps
      BY <1>1, <2>2, MemoryAssumption
    <3>2. first = q
      BY Zenon
    <3> HIDE DEF first, dirt
    <3>3. p \in MemoryStates /\ p.current = s.current /\ p.fd = s.fd /\ p.mapped = r
      BY <3>1 DEF MemoryStates
    <3> HIDE DEF p
    <3>4. /\ q \in MemoryStates /\ q.current = p.current /\ q.fd = p.fd
          /\ q.mapped = p.mapped /\ q.dirty = dirt
      BY <3>1, <3>3 DEF MemoryStates
    <3> HIDE DEF q
    <3> QED BY <3>2, <3>3, <3>4 DEF dirt
  <2> HIDE DEF first
  <2>4. Tracked(first)
    BY <1>2, <2>2, <2>3 DEF Tracked
  <2>5. Fine(first)
    BY <1>1, <1>2, <2>3, <2>4 DEF Fine
  <2> QED BY <1>1, <2>1, <2>3, <2>5, SameContents DEF s
<1>4. CASE IsMapped(s)
  <2>1. memory' = [memory EXCEPT ![m] = again] /\ s.refs < MaxMaps
    BY <1>4 DEF MapMemory
  <2> HIDE DEF s
  <2>2. /\ again \in MemoryStates /\ again.current = s.current /\ again.fd = s.fd
        /\ again.mapped = s.mapped /\ again.dirty = s.dirty
    BY <1>1, <2>1, MemoryAssumption DEF MemoryStates
  <2> HIDE DEF again
  <2>3. Fine(again)
    BY <1>1, <1>2, <2>2 DEF Fine, Tracked
  <2> QED BY <1>1, <2>1, <2>2, <2>3, SameContents DEF s
<1> QED BY <1>3, <1>4

LEMMA UnmappedOne ==
  ASSUME MemoryInv, Usual, NEW m \in Memories, UnmapMemory(m)
  PROVE  MemoryInv'
<1> DEFINE s == memory[m]
           last == Unmapped(s, s.dirty)
           less == [s EXCEPT !.refs = s.refs - 1]
<1>1. /\ m \in DOMAIN memory /\ ~Pending(m) /\ Fine(s) /\ s \in MemoryStates /\ IsMapped(s)
      /\ ~s.fd /\ Tracked(s) /\ dirty \in [DOMAIN dirty -> BOOLEAN]
      /\ UNCHANGED <<bound, pending>> /\ dirty' = dirty /\ observed' = {}
  BY Touched DEF UnmapMemory
<1>2. SyncTo(s, s.dirty) = s
  BY <1>1 DEF SyncTo
<1>3. memory' = [memory EXCEPT ![m] = IF s.refs > 1 THEN less ELSE last]
  BY <1>1, <1>2 DEF UnmapMemory, Unmapped
<1> HIDE DEF s
<1>4. /\ s.refs > 1 => less \in MemoryStates
      /\ less.current = s.current /\ less.fd = s.fd
      /\ less.mapped = s.mapped /\ less.dirty = s.dirty
  BY <1>1, MemoryAssumption DEF MemoryStates
<1>5. /\ last \in MemoryStates /\ last.current = s.current /\ last.fd = s.fd
      /\ last.dirty = s.dirty
  <2>1. s.dirty \in Ranges
    BY <1>1 DEF MemoryStates
  <2> QED BY <1>1, <2>1, SetUnmapped
<1> HIDE DEF less, last
<1>6. s.refs > 1 => Fine(less)
  BY <1>1, <1>4 DEF Fine, Tracked
<1>7. Fine(last)
  BY <1>1, <1>5 DEF Fine, Tracked
<1> DEFINE q == IF s.refs > 1 THEN less ELSE last
<1>8. Fine(q) /\ q.current = s.current /\ q.fd = s.fd
  BY <1>4, <1>5, <1>6, <1>7
<1>9. memory' = [memory EXCEPT ![m] = q]
  BY <1>3
<1> HIDE DEF q
<1> QED BY <1>1, <1>8, <1>9, SameContents DEF s

LEMMA Flushed ==
  ASSUME MemoryInv, Usual, NEW m \in Memories, NEW r \in Ranges, FlushMemory(m, r)
  PROVE  MemoryInv'
<1> DEFINE s == memory[m]
           left == s.unflushed \ CellsOf(r)
           q == [s EXCEPT !.dirty = s.dirty, !.unflushed = left]
<1>1. /\ m \in DOMAIN memory /\ ~Pending(m) /\ Fine(s) /\ s \in MemoryStates
      /\ ~s.fd /\ Tracked(s) /\ dirty \in [DOMAIN dirty -> BOOLEAN]
      /\ UNCHANGED <<bound, pending>> /\ dirty' = dirty /\ observed' = {}
  BY Touched DEF FlushMemory
<1>2. SyncTo(s, r) = s
  BY <1>1 DEF SyncTo
<1>3. left \in SUBSET Cells
  BY <1>1 DEF MemoryStates
<1>4. memory' = [memory EXCEPT ![m] = q]
  BY <1>1, <1>2 DEF FlushMemory
<1> HIDE DEF s, left
<1>5. /\ q \in MemoryStates /\ q.current = s.current /\ q.fd = s.fd
      /\ q.mapped = s.mapped /\ q.dirty = s.dirty
  BY <1>1, <1>3 DEF MemoryStates
<1> HIDE DEF q
<1>6. Fine(q)
  BY <1>1, <1>5 DEF Fine, Tracked
<1> QED BY <1>1, <1>4, <1>5, <1>6, SameContents DEF s

LEMMA Invalidated ==
  ASSUME MemoryInv, Usual, NEW m \in Memories, NEW r \in Ranges, InvalidateMemory(m, r)
  PROVE  MemoryInv'
<1>1. /\ m \in DOMAIN memory /\ ~Pending(m) /\ Fine(memory[m]) /\ ~memory[m].fd
      /\ dirty \in [DOMAIN dirty -> BOOLEAN]
      /\ UNCHANGED <<bound, pending>> /\ dirty' = dirty /\ observed' = {}
  BY Touched DEF InvalidateMemory
<1>2. memory' = [memory EXCEPT ![m] = memory[m]]
  BY <1>1 DEF InvalidateMemory, RefreshFrom
<1> QED BY <1>1, <1>2, SameContents

LEMMA ExportedOne ==
  ASSUME MemoryInv, Usual, NEW m \in Memories, GetMemoryFd(m)
  PROVE  MemoryInv'
<1> DEFINE s == memory[m]
           e == SyncTo([s EXCEPT !.fd = TRUE], Whole)
           q == Emptied(e)
<1>1. /\ m \in DOMAIN memory /\ ~Pending(m) /\ Fine(s) /\ s \in MemoryStates
      /\ dirty \in [DOMAIN dirty -> BOOLEAN]
      /\ UNCHANGED <<bound, pending>> /\ dirty' = dirty /\ observed' = {}
  BY Touched DEF GetMemoryFd
<1>2. ~s.fd /\ s.refs = 0
  BY <1>1, MemoryAssumption DEF GetMemoryFd, Private, Usual, IsMapped, MemoryStates
<1>3. memory' = [memory EXCEPT ![m] = q]
  BY <1>2 DEF GetMemoryFd, Emptied
<1>4. Fine(q) /\ q.fd
  BY <1>1, <1>2, Exported
<1> HIDE DEF q
<1>5. Pictures(s, q, {})
  BY <1>4 DEF Pictures, Pictured
<1> QED BY <1>1, <1>3, <1>4, <1>5, MarksSame, OneReplayed

LEMMA HostStep == MemoryInv /\ Usual /\ Host => MemoryInv'
BY Allocated, Freed, BoundOne, HostWritten, CudaWritten, MappedOne, UnmappedOne, Flushed,
   Invalidated, ExportedOne DEF Host

----------------------------------------------------------------------------
(* The commands.                                                           *)

LEMMA Filled ==
  ASSUME MemoryInv, Usual, NEW b \in Buffers, FillBuffer(b)
  PROVE  MemoryInv'
<1> DEFINE m == bound[b]
           s == Written(memory[m], Cell(b))
<1>1. Usable(b) /\ UNCHANGED <<bound, pending>> /\ dirty' = dirty /\ observed' = {}
  BY DEF FillBuffer, Ran
<1>2. memory' = [memory EXCEPT ![m] = s]
  BY DEF FillBuffer, Ran
<1>3. m \in DOMAIN memory /\ ~Pending(m) /\ Fine(memory[m]) /\ dirty' \in [DOMAIN dirty -> BOOLEAN]
  BY <1>1, Used
<1> HIDE DEF m
<1>4. Fine(s) /\ Pictures(memory[m], s, {b})
  BY <1>3, WrittenFine DEF Usual
<1> HIDE DEF s
<1>5. Fixed({b})
  BY <1>1, MarksSame, MemoryAssumption
<1> QED BY <1>1, <1>2, <1>3, <1>4, <1>5, OneReplayed

LEMMA Built ==
  ASSUME MemoryInv, Usual, NEW b \in Buffers, BuildFromBuffer(b)
  PROVE  MemoryInv'
<1> DEFINE m == bound[b]
           s == UploadBuffer(memory[m], Cell(b))
<1>1. Usable(b) /\ UNCHANGED <<bound, pending>> /\ dirty' = dirty
      /\ observed' = Stale(s.current, "metal", Cell(b))
  BY DEF BuildFromBuffer, Ran
<1>2. memory' = [memory EXCEPT ![m] = s]
  BY DEF BuildFromBuffer, Ran
<1>3. m \in DOMAIN memory /\ ~Pending(m) /\ Fine(memory[m]) /\ dirty' \in [DOMAIN dirty -> BOOLEAN]
  BY <1>1, Used
<1> HIDE DEF m
<1>4. Fine(s) /\ Stale(s.current, "metal", Cell(b)) \subseteq {"unseen"}
      /\ Pictures(memory[m], s, {})
  BY <1>3, Uploaded, KeepsPictures
<1> HIDE DEF s
<1>5. Fixed({})
  BY <1>1, MarksSame
<1> QED BY <1>1, <1>2, <1>3, <1>4, <1>5, OneReplayed

\* Two writes in a row.
LEMMA TwoReplayed ==
  ASSUME MemoryInv, NEW m \in DOMAIN memory, NEW n \in DOMAIN memory, ~Pending(m), ~Pending(n),
         NEW s, Fine(s), NEW t, Fine(t), NEW X,
         Pictures(memory[m], s, X), Pictures([memory EXCEPT ![m] = s][n], t, X),
         memory' = [[memory EXCEPT ![m] = s] EXCEPT ![n] = t], UNCHANGED <<bound, pending>>,
         Fixed(X), observed' \subseteq {"unseen"}
  PROVE  MemoryInv'
<1> DEFINE one == [memory EXCEPT ![m] = s]
<1>1. Kept(memory, X)
  BY KeptSame
<1>2. Kept(one, X) /\ Pictures(one[n], t, X)
  BY <1>1, KeptWith
<1> HIDE DEF one
<1>3. Kept([one EXCEPT ![n] = t], X)
  BY <1>2, KeptWith
<1>4. memory' = [one EXCEPT ![n] = t]
  BY DEF one
<1> QED BY <1>3, <1>4, Replayed

\* What the second write finds.
LEMMA Between ==
  ASSUME MemoryInv, NEW m \in DOMAIN memory, NEW n \in DOMAIN memory, ~Pending(m), ~Pending(n),
         NEW s, Fine(s)
  PROVE  /\ Fine([memory EXCEPT ![m] = s][n]) /\ [memory EXCEPT ![m] = s][m] = s
         /\ n # m => [memory EXCEPT ![m] = s][n] = memory[n]
BY DEF MemoryInv, MemoryTypeOK, IsTable

LEMMA Copied ==
  ASSUME MemoryInv, Usual, NEW a \in Buffers, NEW b \in Buffers, CopyBuffer(a, b)
  PROVE  MemoryInv'
<1> DEFINE m == bound[a]
           n == bound[b]
           s == RefreshFrom(memory[m], Cell(a))
           one == [memory EXCEPT ![m] = s]
           t == Written(one[n], Cell(b))
<1>1. Usable(a) /\ Usable(b) /\ UNCHANGED <<bound, pending>> /\ dirty' = dirty
      /\ observed' = Stale(one[m].current, "bytes", Cell(a))
  BY DEF CopyBuffer, Ran, ReadBytes
<1>2. memory' = [one EXCEPT ![n] = t]
  BY DEF CopyBuffer, Ran, ReadBytes
<1>3. m \in DOMAIN memory /\ ~Pending(m) /\ Fine(memory[m])
      /\ n \in DOMAIN memory /\ ~Pending(n) /\ dirty' \in [DOMAIN dirty -> BOOLEAN]
  BY <1>1, Used
<1> HIDE DEF m, n
<1>4. Fine(s) /\ Stale(s.current, "bytes", Cell(a)) = {} /\ Pictures(memory[m], s, {b})
  BY <1>3, Refreshed, Ranged, KeepsPictures
<1> HIDE DEF s
<1>5. one[m] = s /\ Fine(one[n])
  BY <1>3, <1>4, Between
<1>6. memory' = [[memory EXCEPT ![m] = s] EXCEPT ![n] = t]
  BY <1>2
<1>10. one = [memory EXCEPT ![m] = s]
  OBVIOUS
<1> HIDE DEF one
<1>7. Fine(t) /\ Pictures(one[n], t, {b})
  BY <1>5, WrittenFine DEF Usual
<1> HIDE DEF t
<1>8. observed' = {}
  BY <1>1, <1>4, <1>5
<1>9. Fixed({b})
  BY <1>1, MarksSame, MemoryAssumption
<1> QED BY <1>1, <1>3, <1>4, <1>6, <1>7, <1>8, <1>9, <1>10, TwoReplayed

LEMMA DispatchedToBuffer ==
  ASSUME MemoryInv, Usual, NEW a \in Buffers, NEW b \in Buffers, DispatchToBuffer(a, b)
  PROVE  MemoryInv'
<1> DEFINE m == bound[a]
           n == bound[b]
           s == UploadBuffer(memory[m], Cell(a))
           first == [memory EXCEPT ![m] = s]
           t == UploadBuffer(first[n], Cell(b))
           both == [first EXCEPT ![n] = t]
           u == ReadBack(both[n], "metal", b)
<1>1. Usable(a) /\ Usable(b) /\ UNCHANGED <<bound, pending>> /\ dirty' = dirty
      /\ observed' = Stale(both[m].current, "metal", Cell(a))
                       \cup Stale(both[n].current, "metal", Cell(b))
  BY DEF DispatchToBuffer, Ran
<1>2. memory' = [both EXCEPT ![n] = u]
  BY DEF DispatchToBuffer, Ran
<1>3. m \in DOMAIN memory /\ ~Pending(m) /\ Fine(memory[m])
      /\ n \in DOMAIN memory /\ ~Pending(n)
  BY <1>1, Used
<1> HIDE DEF m, n
<1>4. Fine(s) /\ Held(s.current, "metal", Placement[a]) /\ Pictures(memory[m], s, {b})
  BY <1>3, Uploaded, KeepsPictures
<1> HIDE DEF s
<1>5. first[m] = s /\ Fine(first[n]) /\ Kept(first, {b})
  BY <1>3, <1>4, Between, KeptSame, KeptWith
<1>6. DOMAIN first = DOMAIN memory
  OBVIOUS
<1> HIDE DEF first
<1>7. /\ Fine(t) /\ Stale(t.current, "metal", Cell(b)) \subseteq {"unseen"}
      /\ Keeps(first[n], t) /\ Pictures(first[n], t, {b})
  BY <1>5, Uploaded, KeepsPictures
<1> HIDE DEF t
<1>8. Kept(both, {b}) /\ both[n] = t /\ (m # n => both[m] = s) /\ DOMAIN both = DOMAIN memory
  BY <1>3, <1>5, <1>6, <1>7, KeptWith
<1> HIDE DEF both
<1>9. Fine(u) /\ Pictures(both[n], u, {b})
  BY <1>7, <1>8, ReadBackFine DEF Usual
<1> HIDE DEF u
<1>10. Kept(memory', {b})
  BY <1>2, <1>3, <1>8, <1>9, KeptWith
<1>11. Stale(both[m].current, "metal", Cell(a)) \subseteq {"unseen"}
  <2>1. Held(both[m].current, "metal", Placement[a])
    <3>1. CASE m = n
      BY <1>4, <1>5, <1>7, <1>8, <3>1, KeepsHeld, Ranged
    <3>2. CASE m # n
      BY <1>4, <1>8, <3>2
    <3> QED BY <3>1, <3>2
  <2>2. \A c \in CellsOf(Cell(a)) : Held(both[m].current, "metal", c)
    BY <2>1, Ranged
  <2> QED BY <2>2, Misses
<1>12. observed' \subseteq {"unseen"}
  BY <1>1, <1>7, <1>8, <1>11
<1>13. Fixed({b})
  BY <1>1, MarksSame, MemoryAssumption
<1> QED BY <1>1, <1>3, <1>10, <1>12, <1>13, Replayed

LEMMA DispatchedToImage ==
  ASSUME MemoryInv, Usual, NEW a \in Buffers, NEW i \in Images, DispatchToImage(a, i)
  PROVE  MemoryInv'
<1> DEFINE m == bound[a]
           n == bound[i]
           s == UploadBuffer(memory[m], Cell(a))
           first == [memory EXCEPT ![m] = s]
           t == UploadImage(first[n], i)
           both == [first EXCEPT ![n] = t]
           u == ReadBack(both[n], "texture", i)
<1>1. Usable(a) /\ Usable(i) /\ UNCHANGED <<bound, pending>> /\ dirty' = [dirty EXCEPT ![i] = TRUE]
      /\ observed' = Stale(both[m].current, "metal", Cell(a))
                       \cup Stale(both[n].current, "texture", Cell(i))
  BY DEF DispatchToImage, Ran
<1>2. memory' = [both EXCEPT ![n] = u]
  BY DEF DispatchToImage, Ran
<1>3. m \in DOMAIN memory /\ ~Pending(m) /\ Fine(memory[m])
      /\ n \in DOMAIN memory /\ ~Pending(n)
  BY <1>1, Used
<1> HIDE DEF m, n
<1>4. Fine(s) /\ Held(s.current, "metal", Placement[a]) /\ Pictures(memory[m], s, {i})
  BY <1>3, Uploaded, KeepsPictures
<1> HIDE DEF s
<1>5. first[m] = s /\ Fine(first[n]) /\ Kept(first, {i})
  BY <1>3, <1>4, Between, KeptSame, KeptWith
<1>6. DOMAIN first = DOMAIN memory
  OBVIOUS
<1> HIDE DEF first
<1>7. /\ Fine(t) /\ Stale(t.current, "texture", Cell(i)) = {}
      /\ Keeps(first[n], t) /\ Pictures(first[n], t, {i})
  BY <1>5, ImageUploaded, KeepsPictures
<1> HIDE DEF t
<1>8. Kept(both, {i}) /\ both[n] = t /\ (m # n => both[m] = s) /\ DOMAIN both = DOMAIN memory
  BY <1>3, <1>5, <1>6, <1>7, KeptWith
<1> HIDE DEF both
<1>9. Fine(u) /\ Pictures(both[n], u, {i})
  BY <1>7, <1>8, ReadBackFine, MemoryAssumption DEF Usual
<1> HIDE DEF u
<1>10. Kept(memory', {i})
  BY <1>2, <1>3, <1>8, <1>9, KeptWith
<1>11. Stale(both[m].current, "metal", Cell(a)) \subseteq {"unseen"}
  <2>1. Held(both[m].current, "metal", Placement[a])
    <3>1. CASE m = n
      BY <1>4, <1>5, <1>7, <1>8, <3>1, KeepsHeld, Ranged
    <3>2. CASE m # n
      BY <1>4, <1>8, <3>2
    <3> QED BY <3>1, <3>2
  <2>2. \A c \in CellsOf(Cell(a)) : Held(both[m].current, "metal", c)
    BY <2>1, Ranged
  <2> QED BY <2>2, Misses
<1>12. observed' \subseteq {"unseen"}
  BY <1>1, <1>7, <1>8, <1>11
<1>13. Fixed({i})
  BY <1>1, MarkedDirty
<1> QED BY <1>1, <1>3, <1>10, <1>12, <1>13, Replayed

LEMMA Cleared ==
  ASSUME MemoryInv, Usual, NEW i \in Images, ClearImage(i) \/ TraceRays(i)
  PROVE  MemoryInv'
<1> DEFINE m == bound[i]
           s == memory[m]
           stored == ImageWritten(s, i)
           traced == ReadBack(s, "texture", i)
<1>1. Usable(i) /\ UNCHANGED <<bound, pending>> /\ dirty' = [dirty EXCEPT ![i] = TRUE]
      /\ observed' = {}
  BY DEF ClearImage, TraceRays, Ran
<1>2. m \in DOMAIN memory /\ ~Pending(m) /\ Fine(s) /\ Fixed({i})
  BY <1>1, Used, MarkedDirty
<1>3. CASE ClearImage(i)
  <2>1. memory' = [memory EXCEPT ![m] = stored] /\ ~s.fd
    BY <1>1, <1>3, Used DEF ClearImage, Ran
  <2> HIDE DEF s, m
  <2>2. stored = SyncTo([s EXCEPT !.current = Store(@, "bytes", Cell(i))], Cell(i))
    BY <1>2, <2>1 DEF Fine, MemoryStates, ImageWritten, SyncTo
  <2>3. Fine(stored) /\ Pictures(s, stored, {i})
    <3> HIDE DEF stored
    <3> QED BY <1>2, <2>2, ImageStored DEF Usual
  <2> HIDE DEF stored
  <2> QED BY <1>1, <1>2, <2>1, <2>3, OneReplayed DEF s
<1>4. CASE TraceRays(i)
  <2>1. memory' = [memory EXCEPT ![m] = traced]
    BY <1>4 DEF TraceRays, Ran
  <2> HIDE DEF s, m
  <2>2. Fine(traced) /\ Pictures(s, traced, {i})
    BY <1>2, ReadBackFine, MemoryAssumption DEF Usual
  <2> HIDE DEF traced
  <2> QED BY <1>1, <1>2, <2>1, <2>2, OneReplayed DEF s
<1> QED BY <1>3, <1>4

LEMMA CopiedToImage ==
  ASSUME MemoryInv, Usual, NEW x \in Buffers \cup Images, NEW i \in Images, CopyToImage(x, i)
  PROVE  MemoryInv'
<1> DEFINE m == bound[i]
           s == memory[m]
           stored == ImageWritten(s, i)
<1>1. Usable(x) /\ Usable(i) /\ PrivateTo(x) /\ PrivateTo(i)
      /\ UNCHANGED <<bound, pending>> /\ dirty' = [dirty EXCEPT ![i] = TRUE]
      /\ observed' = Stale(memory[bound[x]].current, "bytes", Cell(x))
  BY DEF CopyToImage, Ran
<1>2. memory' = [memory EXCEPT ![m] = stored]
  BY DEF CopyToImage, Ran
<1>3. m \in DOMAIN memory /\ ~Pending(m) /\ Fine(s) /\ ~s.fd /\ Fixed({i})
  BY <1>1, Used, MarkedDirty
<1>4. Fine(memory[bound[x]]) /\ ~memory[bound[x]].fd
  BY <1>1, Used
<1>5. observed' = {}
  BY <1>1, <1>4, Used, Ranged, Reads DEF Fine
<1> HIDE DEF s, m
<1>6. stored = SyncTo([s EXCEPT !.current = Store(@, "bytes", Cell(i))], Cell(i))
  BY <1>3 DEF Fine, MemoryStates, ImageWritten, SyncTo
<1>7. Fine(stored) /\ Pictures(s, stored, {i})
  <2> HIDE DEF stored
  <2> QED BY <1>3, <1>6, ImageStored DEF Usual
<1> HIDE DEF stored
<1> QED BY <1>1, <1>2, <1>3, <1>5, <1>7, OneReplayed DEF s

LEMMA CopiedToBuffer ==
  ASSUME MemoryInv, Usual, NEW b \in Buffers, NEW i \in Images, CopyImageToBuffer(i, b)
  PROVE  MemoryInv'
<1> DEFINE n == bound[b]
           s == memory[n]
           stored == SyncTo(Recorded(s, b), Cell(b))
<1>1. Usable(b) /\ Usable(i) /\ PrivateTo(b) /\ PrivateTo(i)
      /\ UNCHANGED <<bound, pending>> /\ dirty' = dirty
      /\ observed' = Stale(memory[bound[i]].current, "bytes", Cell(i))
  BY DEF CopyImageToBuffer, Ran
<1>2. memory' = [memory EXCEPT ![n] = stored]
  BY DEF CopyImageToBuffer, Ran, Recorded
<1>3. n \in DOMAIN memory /\ ~Pending(n) /\ Fine(s) /\ ~s.fd /\ Fixed({b})
  BY <1>1, Used, MarksSame, MemoryAssumption
<1>4. Fine(memory[bound[i]]) /\ ~memory[bound[i]].fd
  BY <1>1, Used
<1>5. observed' = {}
  BY <1>1, <1>4, Used, Ranged, Reads DEF Fine
<1> HIDE DEF s, n
<1>6. stored = Written(s, Cell(b))
  BY <1>3, SamePaths
<1> HIDE DEF stored
<1>7. Fine(stored) /\ Pictures(s, stored, {b})
  BY <1>3, <1>6, WrittenFine DEF Usual
<1> QED BY <1>1, <1>2, <1>3, <1>5, <1>7, OneReplayed DEF s

LEMMA DrewUI ==
  ASSUME MemoryInv, Usual, NEW b \in Buffers, NEW i \in Images, NEW scene \in BOOLEAN,
         DrawUI(b, i, scene)
  PROVE  MemoryInv'
<1> DEFINE m == bound[b]
           n == bound[i]
           s == memory[m]
           uploaded == UploadDirty(s)
           one == [memory EXCEPT ![m] = uploaded]
           drawn == SyncTo([one[n] EXCEPT !.current = Store(@, "bytes", Cell(i))], Cell(i))
           target == IF scene THEN drawn ELSE one[n]
           textured == [target EXCEPT !.current = Transfer(@, "bytes", "texture", Cell(i))]
           shown == IF dirty[i] \/ scene THEN textured ELSE target
<1>1. /\ Usable(b) /\ Usable(i) /\ PrivateTo(b) /\ (scene \/ PrivateTo(i))
      /\ UNCHANGED <<bound, pending>> /\ dirty' = [dirty EXCEPT ![i] = FALSE]
      /\ observed' = Stale(uploaded.current, "metal", Cell(b))
                       \cup Stale(shown.current, "texture", Cell(i))
  BY DEF DrawUI, Ran
<1>2. memory' = [one EXCEPT ![n] = shown]
  BY DEF DrawUI, Ran
<1>3. /\ m \in DOMAIN memory /\ ~Pending(m) /\ Fine(s) /\ ~s.fd
      /\ n \in DOMAIN memory /\ ~Pending(n) /\ Fine(memory[n]) /\ (~scene => ~memory[n].fd)
  BY <1>1, Used
<1>13. dirty[i] \/ Pictured(memory[n], i)
  <2>1. i \in DOMAIN dirty
    BY <1>1 DEF Usable, MemoryInv, MemoryTypeOK
  <2> QED BY <2>1 DEF MemoryInv, ImagesHeld
<1> HIDE DEF m, n, s
<1>4. uploaded = UploadBuffer(s, Cell(b))
  BY <1>3, Uploaded
<1> HIDE DEF uploaded
<1>5. /\ Fine(uploaded) /\ uploaded.fd = s.fd
      /\ Stale(uploaded.current, "metal", Cell(b)) \subseteq {"unseen"}
      /\ Keeps(s, uploaded) /\ Pictures(s, uploaded, {i})
  BY <1>3, <1>4, Uploaded, KeepsPictures
<1>6. /\ Fine(one[n]) /\ Kept(one, {i}) /\ one[n].fd = memory[n].fd
      /\ Keeps(memory[n], one[n]) /\ DOMAIN one = DOMAIN memory
  <2>1. Fine(one[n]) /\ Kept(one, {i}) /\ DOMAIN one = DOMAIN memory /\ one[m] = uploaded
        /\ (n # m => one[n] = memory[n])
    BY <1>3, <1>5, Between, KeptSame, KeptWith DEF s
  <2>2. CASE n = m
    BY <1>5, <2>1, <2>2 DEF s
  <2>3. CASE n # m
    BY <2>1, <2>3 DEF Keeps
  <2> QED BY <2>1, <2>2, <2>3
<1> HIDE DEF one
<1>7. Placement[i] \in Cells /\ CellsOf(Cell(i)) = {Placement[i]}
  BY Ranged
<1>8. /\ Fine(target) /\ (dirty[i] \/ scene => "bytes" \in target.current[Placement[i]])
      /\ Pictures(one[n], target, {i})
  <2>1. CASE scene
    <3>1. Fine(drawn) /\ "bytes" \in drawn.current[Placement[i]] /\ Pictures(one[n], drawn, {i})
      BY <1>6, ImageStored DEF Usual
    <3> HIDE DEF drawn
    <3> QED BY <2>1, <3>1
  <2>2. CASE ~scene
    BY <1>3, <1>6, <1>7, <2>2 DEF Fine, Pictures
  <2> QED BY <2>1, <2>2
<1>9. ~scene => target = one[n]
  OBVIOUS
<1> HIDE DEF target
<1>10. /\ Fine(shown) /\ Held(shown.current, "texture", Placement[i])
       /\ Pictures(one[n], shown, {i})
  <2>1. CASE dirty[i] \/ scene
    <3>1. Fine(textured) /\ "texture" \in textured.current[Placement[i]]
          /\ Pictures(target, textured, {i})
      BY <1>8, <2>1, Textured, KeepsPictures
    <3> HIDE DEF textured
    <3> QED BY <1>8, <2>1, <3>1 DEF Held, Pictures
  <2>2. CASE ~(dirty[i] \/ scene)
    <3>1. Held(memory[n].current, "texture", Placement[i])
      BY <1>3, <1>13, <2>2 DEF Pictured
    <3>2. Held(target.current, "texture", Placement[i])
      BY <1>6, <1>7, <1>9, <2>2, <3>1, KeepsHeld
    <3> QED BY <1>8, <2>2, <3>2
  <2> QED BY <2>1, <2>2
<1> HIDE DEF shown
<1>14. Stale(shown.current, "texture", Cell(i)) \subseteq {"unseen"}
  <2>1. \A c \in CellsOf(Cell(i)) : Held(shown.current, "texture", c)
    BY <1>7, <1>10
  <2> QED BY <2>1, Misses
<1>11. Kept(memory', {i})
  BY <1>2, <1>3, <1>6, <1>10, KeptWith
<1>12. observed' \subseteq {"unseen"}
  BY <1>1, <1>5, <1>14
<1>15. Fixed({i})
  <2>1. dirty \in [DOMAIN dirty -> BOOLEAN]
    BY DEF MemoryInv, MemoryTypeOK, IsTable
  <2>2. memory'[n] = shown
    BY <1>2, <1>3, <1>6
  <2>3. Pictured(memory'[bound[i]], i)
    BY <1>10, <2>2 DEF Pictured, n
  <2>4. dirty' \in [DOMAIN dirty -> BOOLEAN]
        /\ \A j \in DOMAIN dirty : j # i => dirty'[j] = dirty[j]
    BY <1>1, <2>1
  <2> QED BY <2>3, <2>4 DEF Fixed
<1> QED BY <1>1, <1>11, <1>12, <1>15, Replayed

\* A submit either waits for its fence or is read back at once.
LEMMA SubmittedOne ==
  ASSUME MemoryInv, NEW x \in DOMAIN bound, ~Pending(bound[x]), NEW s, Due(s, x), NEW f,
         Pictures(memory[bound[x]], s, {x}),
         Submitted([memory EXCEPT ![bound[x]] = s], x, f, {}), dirty' = dirty
  PROVE  MemoryInv'
<1> DEFINE m == bound[x]
<1>1. /\ m \in DOMAIN memory /\ x \in Buffers \cup Images /\ s \in MemoryStates
      /\ dirty' \in [DOMAIN dirty -> BOOLEAN]
      /\ observed' = {} /\ bound' = bound
  BY DEF MemoryInv, MemoryTypeOK, IsTable, Due, Submitted
<1>2. CASE f \in Fences \ DOMAIN pending /\ memory' = [memory EXCEPT ![m] = s]
           /\ pending' = Put(pending, f, [of |-> x])
  <2>1. /\ DOMAIN memory' = DOMAIN memory /\ memory'[m] = s
        /\ \A k \in DOMAIN memory : k # m => memory'[k] = memory[k]
        /\ memory' \in [DOMAIN memory -> MemoryStates]
    BY <1>1, <1>2 DEF MemoryInv, MemoryTypeOK, IsTable
  <2>2. /\ DOMAIN pending' = DOMAIN pending \cup {f} /\ pending'[f].of = x
        /\ \A g \in DOMAIN pending : pending'[g] = pending[g]
        /\ IsTable(pending', Fences, [of : DOMAIN bound])
    BY <1>2 DEF Put, MemoryInv, MemoryTypeOK, IsTable
  <2>3. MemoryTypeOK'
    BY <1>1, <2>1, <2>2 DEF MemoryInv, MemoryTypeOK, IsTable
  <2>4. \A g \in DOMAIN pending : bound[pending[g].of] # m /\ bound[pending[g].of] \in DOMAIN memory
    BY DEF Pending, MemoryInv, MemoryTypeOK, IsTable
  <2>5. ASSUME NEW k \in DOMAIN memory', ~Pending(k)'
        PROVE  Fine(memory'[k])
    <3>1. ~ \E g \in DOMAIN pending' : bound'[pending'[g].of] = k
      BY <2>5 DEF Pending
    <3>2. k # m
      BY <1>1, <2>2, <3>1
    <3>3. ~Pending(k)
      BY <1>1, <2>2, <3>1 DEF Pending
    <3> QED BY <2>1, <3>2, <3>3 DEF MemoryInv
  <2>6. ASSUME NEW g \in DOMAIN pending'
        PROVE  Due(memory'[bound'[pending'[g].of]], pending'[g].of)
    <3>1. CASE g = f
      BY <1>1, <2>1, <2>2, <3>1
    <3>2. CASE g \in DOMAIN pending
      BY <1>1, <2>1, <2>2, <2>4, <3>2 DEF MemoryInv
    <3> QED BY <2>2, <3>1, <3>2
  <2>7. \A g, h \in DOMAIN pending' : bound'[pending'[g].of] = bound'[pending'[h].of] => g = h
    BY <1>1, <2>2, <2>4 DEF MemoryInv
  <2>8. \A k \in DOMAIN memory' : ~Pending(k)' => Fine(memory[k])'
    BY <2>5
  <2>9. \A g \in DOMAIN pending' : Due(memory[bound[pending[g].of]], pending[g].of)'
    BY <2>6
  <2>10. ASSUME NEW j \in DOMAIN dirty
         PROVE  dirty[j] \/ Pictured(memory'[bound[j]], j)
    <3>1. j \in Images /\ bound[j] \in DOMAIN memory /\ (dirty[j] \/ Pictured(memory[bound[j]], j))
      BY DEF MemoryInv, MemoryTypeOK, IsTable, ImagesHeld
    <3>2. CASE bound[j] # m
      BY <2>1, <3>1, <3>2
    <3>3. CASE j = x
      BY <1>1, <2>1, <3>1, <3>3 DEF Due, Pictured, Held
    <3>4. CASE j # x /\ bound[j] = m
      BY <2>1, <3>1, <3>4 DEF Pictures
    <3> QED BY <3>2, <3>3, <3>4
  <2>11. ImagesHeld'
    BY <1>1, <2>10 DEF ImagesHeld, Pictured
  <2> QED BY <1>1, <2>3, <2>7, <2>8, <2>9, <2>11 DEF MemoryInv
<1>3. CASE memory' = [[memory EXCEPT ![m] = s] EXCEPT ![m] = Completed(@, x)] /\ pending' = pending
  <2> DEFINE t == Completed(s, x)
  <2>1. memory' = [memory EXCEPT ![m] = t]
    <3>1. [memory EXCEPT ![m] = s][m] = s
      BY <1>1
    <3> QED BY <1>3, <3>1
  <2>2. Fine(t) /\ Pictures(s, t, {})
    BY <1>1, ReadBackDue
  <2> HIDE DEF t
  <2>3. ~Pending(m)
    OBVIOUS
  <2>4. Pictures(memory[m], t, {x})
    BY <2>2 DEF Pictures
  <2>5. Fixed({x})
    <3>1. x \in Images => "texture" \in s.current[Placement[x]]
      BY DEF Due
    <3>2. x \in Images => Pictured(t, x)
      BY <2>2, <3>1 DEF Pictures, Pictured, Held
    <3>3. dirty \in [DOMAIN dirty -> BOOLEAN] /\ DOMAIN dirty \subseteq Images
      BY DEF MemoryInv, MemoryTypeOK, IsTable
    <3>4. memory'[m] = t
      BY <1>1, <2>1
    <3> QED BY <1>1, <3>2, <3>3, <3>4 DEF Fixed
  <2> HIDE DEF m
  <2> QED BY <1>1, <1>3, <2>1, <2>2, <2>3, <2>4, <2>5, OneReplayed
<1> QED BY <1>2, <1>3 DEF Submitted

LEMMA SubmittedAdd ==
  ASSUME MemoryInv, Usual, NEW b \in Buffers, NEW f, SubmitAdd(b, f)
  PROVE  MemoryInv'
<1> DEFINE s == memory[bound[b]]
           u == [s EXCEPT !.current = Transfer(@, "bytes", "metal", Whole)]
           q == Resulted(u, "metal", b)
<1>1. /\ Usable(b) /\ PrivateTo(b) /\ b \in DOMAIN bound
      /\ Submitted([memory EXCEPT ![bound[b]] = q], b, f, Stale(u.current, "metal", Cell(b)))
      /\ dirty' = dirty
  BY DEF SubmitAdd, Usable, Resulted
<1>2. ~Pending(bound[b]) /\ Fine(s) /\ ~s.fd
  BY <1>1, Used
<1> HIDE DEF s
<1>3. Stale(u.current, "metal", Cell(b)) = {} /\ Due(q, b) /\ Pictures(s, q, {b})
  BY <1>2, Added DEF Usual
<1> HIDE DEF q, u
<1> QED BY <1>1, <1>2, <1>3, SubmittedOne DEF s

LEMMA SubmittedTriangle ==
  ASSUME MemoryInv, Usual, NEW i \in Images, NEW f, SubmitTriangle(i, f)
  PROVE  MemoryInv'
<1> DEFINE s == memory[bound[i]]
           q == [s EXCEPT !.current = Store(@, "texture", Cell(i))]
<1>1. /\ Usable(i) /\ PrivateTo(i) /\ i \in DOMAIN bound
      /\ Submitted([memory EXCEPT ![bound[i]] = q], i, f, {}) /\ dirty' = dirty
  BY DEF SubmitTriangle, Usable
<1>2. ~Pending(bound[i]) /\ Fine(s) /\ ~s.fd
  BY <1>1, Used
<1> HIDE DEF s
<1>3. Due(q, i) /\ Pictures(s, q, {i})
  BY <1>2, Drawn DEF Usual
<1> HIDE DEF q
<1> QED BY <1>1, <1>2, <1>3, SubmittedOne DEF s

LEMMA Waited ==
  ASSUME MemoryInv, NEW f \in Fences, WaitForFence(f)
  PROVE  MemoryInv'
<1> DEFINE x == pending[f].of
           m == bound[x]
           t == Completed(memory[m], x)
<1>1. /\ f \in DOMAIN pending /\ x \in DOMAIN bound /\ x \in Buffers \cup Images
      /\ m \in DOMAIN memory /\ Due(memory[m], x)
      /\ UNCHANGED <<bound, dirty>> /\ observed' = {}
  BY DEF WaitForFence, MemoryInv, MemoryTypeOK, IsTable
<1>2. memory' = [memory EXCEPT ![m] = t] /\ DOMAIN pending' = DOMAIN pending \ {f}
      /\ \A g \in DOMAIN pending' : pending'[g] = pending[g]
  BY DEF WaitForFence, Drop
<1>3. IsTable(pending', Fences, [of : DOMAIN bound])
  BY DEF WaitForFence, Drop, MemoryInv, MemoryTypeOK, IsTable
<1>4. Fine(t) /\ t \in MemoryStates /\ Pictures(memory[m], t, {})
  BY <1>1, ReadBackDue DEF Fine
<1>5. \A g \in DOMAIN pending' : bound[pending[g].of] # m /\ bound[pending[g].of] \in DOMAIN memory
  BY <1>1, <1>2 DEF MemoryInv, MemoryTypeOK, IsTable
<1> HIDE DEF t
<1>6. /\ DOMAIN memory' = DOMAIN memory /\ memory'[m] = t
      /\ \A k \in DOMAIN memory : k # m => memory'[k] = memory[k]
      /\ memory' \in [DOMAIN memory -> MemoryStates]
  BY <1>1, <1>2, <1>4 DEF MemoryInv, MemoryTypeOK, IsTable
<1>7. MemoryTypeOK'
  BY <1>1, <1>3, <1>6 DEF MemoryInv, MemoryTypeOK, IsTable
<1>8. ASSUME NEW k \in DOMAIN memory', ~Pending(k)'
      PROVE  Fine(memory'[k])
  <2>1. k # m => ~Pending(k)
    BY <1>1, <1>2, <1>8 DEF Pending
  <2> QED BY <1>4, <1>6, <2>1 DEF MemoryInv
<1>9. ASSUME NEW g \in DOMAIN pending'
      PROVE  Due(memory'[bound'[pending'[g].of]], pending'[g].of)
  BY <1>1, <1>2, <1>5, <1>6, <1>9 DEF MemoryInv
<1>10. \A k \in DOMAIN memory' : ~Pending(k)' => Fine(memory[k])'
  BY <1>8
<1>11. \A g \in DOMAIN pending' : Due(memory[bound[pending[g].of]], pending[g].of)'
  BY <1>9
<1>12. (\A g, h \in DOMAIN pending : bound[pending[g].of] = bound[pending[h].of] => g = h)'
  BY <1>1, <1>2 DEF MemoryInv
<1>13. ASSUME NEW j \in DOMAIN dirty
       PROVE  dirty[j] \/ Pictured(memory'[bound[j]], j)
  <2>1. j \in Images /\ bound[j] \in DOMAIN memory /\ (dirty[j] \/ Pictured(memory[bound[j]], j))
    BY DEF MemoryInv, MemoryTypeOK, IsTable, ImagesHeld
  <2>2. bound[j] = m /\ Pictured(memory[m], j) => Pictured(t, j)
    BY <1>4, <2>1 DEF Pictures
  <2> QED BY <1>6, <2>1, <2>2
<1>14. ImagesHeld'
  BY <1>1, <1>13 DEF ImagesHeld, Pictured
<1> QED BY <1>1, <1>7, <1>10, <1>11, <1>12, <1>14 DEF MemoryInv

----------------------------------------------------------------------------
(* The theorems.                                                           *)

LEMMA MemoryStart == MemoryInit => MemoryInv
BY DEF MemoryInit, MemoryInv, MemoryTypeOK, IsTable, EmptyTable, Pending, ImagesHeld

LEMMA MemoryStep == MemoryInv /\ Usual /\ [MemoryNext]_memoryVars => MemoryInv'
<1> SUFFICES ASSUME MemoryInv, Usual, [MemoryNext]_memoryVars
             PROVE  MemoryInv'
  OBVIOUS
<1>1. CASE Host
  BY <1>1, HostStep
<1>2. CASE Replay
  BY <1>2, Destroyed, Filled, Built, Copied, DispatchedToBuffer, DispatchedToImage, Cleared,
     CopiedToImage, CopiedToBuffer DEF Replay
<1>3. CASE Present
  BY <1>3, DrewUI, SubmittedAdd, SubmittedTriangle, Waited DEF Present
<1>4. CASE UNCHANGED memoryVars
  BY <1>4 DEF memoryVars, MemoryInv, MemoryTypeOK, IsTable, Pending, ImagesHeld
<1> QED BY <1>1, <1>2, <1>3, <1>4 DEF MemoryNext

\* The tables of memories, bindings, dirty images and pending submits refer to
\* one another consistently, and the invariant above holds, mapped memory that
\* is written to at any time included.
THEOREM MemoryInvariant == ASSUME Usual PROVE MemorySpec => []MemoryInv
<1>1. MemoryInit => MemoryInv
  BY MemoryStart
<1>2. MemoryInv /\ [MemoryNext]_memoryVars => MemoryInv'
  BY MemoryStep
<1> QED BY <1>1, <1>2, PTL DEF MemorySpec

\* A cell of a memory is held by one place at least, with and without an
\* unfinished submit.
LEMMA AllHeld == MemoryInv => NothingLost
<1> SUFFICES ASSUME MemoryInv, NEW m \in DOMAIN memory, NEW c \in Cells
             PROVE  memory[m].current[c] \cap Places # {}
  BY DEF NothingLost
<1>1. CASE ~Pending(m)
  BY <1>1 DEF MemoryInv, Fine, Places
<1>2. CASE Pending(m)
  <2>1. PICK f \in DOMAIN pending : bound[pending[f].of] = m
    BY <1>2 DEF Pending
  <2>2. Due(memory[m], pending[f].of)
    BY <2>1 DEF MemoryInv
  <2> QED BY <2>2 DEF Due, Places
<1> QED BY <1>1, <1>2

\* No copy between the driver's bytes, the shared file and Metal ever
\* overwrites the only place that holds a cell's last write.
THEOREM WritesKept == ASSUME Usual PROVE MemorySpec => []NothingLost
BY MemoryInvariant, AllHeld, PTL

\* No replayed command and no upload reads a cell from a place that the driver
\* left stale: what it reads is current, or was written through a mapping with
\* nothing to mark it, which the application may do at any time.
THEOREM ReadsCurrent == ASSUME Usual PROVE MemorySpec => []CommandsReadCurrent
<1>1. MemoryInv => CommandsReadCurrent
  BY DEF MemoryInv, CommandsReadCurrent
<1> QED BY <1>1, MemoryInvariant, PTL

\* Memory whose submits were waited for can be read where it is mapped.
THEOREM ResultsVisible == ASSUME Usual PROVE MemorySpec => []HostSeesResults
<1>1. MemoryInv => HostSeesResults
  BY DEF MemoryInv, HostSeesResults, Fine
<1> QED BY <1>1, MemoryInvariant, PTL

\* CUDA finds what Vulkan wrote in the file both share.
THEOREM FilesCurrent == ASSUME Usual PROVE MemorySpec => []SharedPagesCurrent
<1>1. MemoryInv => SharedPagesCurrent
  BY DEF MemoryInv, SharedPagesCurrent, Fine
<1> QED BY <1>1, MemoryInvariant, PTL

----------------------------------------------------------------------------
(* Sparse buffers and images.                                              *)

\* The operators of GuestSparse for any list of ranges.
FoundIn(R, p) ==
  CHOOSE r \in R : Covers(r, p) /\ \A s \in R : Covers(s, p) => r.from <= s.from
ResolvedIn(R, p) ==
  IF \E r \in R : Covers(r, p)
  THEN <<FoundIn(R, p).memory, FoundIn(R, p).at + p - FoundIn(R, p).from>>
  ELSE <<"none", 0>>

LeftOf(R, from, size) ==
  {Binding(r.from, from - r.from, r.memory, r.at) :
     r \in {s \in R : s.from < from /\ End(s) > from}}
RightOf(R, from, size) ==
  {Binding(from + size, End(r) - (from + size), r.memory, r.at + (from + size) - r.from) :
     r \in {s \in R : s.from < from + size /\ End(s) > from + size}}
Untouched(R, from, size) == {r \in R : End(r) <= from \/ r.from >= from + size}
CutOf(R, from, size) == Untouched(R, from, size) \cup LeftOf(R, from, size) \cup RightOf(R, from, size)

\* Ranges of the buffer that map pages of memories in A, no page twice.
Disjoint(R) == \A r, s \in R : r # s => End(r) <= s.from \/ End(s) <= r.from
IsList(R, A) ==
  /\ R \subseteq Bindings
  /\ \A r \in R : r.memory \in A /\ End(r) <= Pages /\ r.at + r.size <= MemoryPages
  /\ Disjoint(R)

SparseInv == allocated \subseteq SparseMemories /\ IsList(ranges, allocated)

\* c maps a part of what r maps, to the same pages.
PartOf(c, r) ==
  /\ c \in Bindings /\ r.from <= c.from /\ End(c) <= End(r)
  /\ c.memory = r.memory /\ c.at - c.from = r.at - r.from

Outside(c, from, size) == End(c) <= from \/ c.from >= from + size

----------------------------------------------------------------------------
\* A lookup finds the one range that covers the page.
LEMMA Lookup ==
  ASSUME NEW R, R \subseteq Bindings, Disjoint(R), NEW r \in R, NEW p \in Nat, Covers(r, p)
  PROVE  ResolvedIn(R, p) = <<r.memory, r.at + p - r.from>>
<1>1. \A s \in R : Covers(s, p) => s = r
  BY DEF Disjoint, Covers, End, Bindings
<1>2. FoundIn(R, p) = r
  <2>1. Covers(r, p) /\ \A s \in R : Covers(s, p) => r.from <= s.from
    BY <1>1 DEF Bindings
  <2>2. /\ FoundIn(R, p) \in R
        /\ Covers(FoundIn(R, p), p)
    BY <2>1 DEF FoundIn
  <2> QED BY <1>1, <2>2
<1> QED BY <1>2 DEF ResolvedIn

\* What a bind leaves of a range lies in it, outside the bind, and maps the
\* pages it mapped before.
LEMMA CutParts ==
  ASSUME NEW R, NEW A, IsList(R, A), NEW from \in 0 .. Pages - 1, NEW size \in 1 .. Pages,
         from + size <= Pages, NEW c \in CutOf(R, from, size)
  PROVE  \E r \in R : PartOf(c, r) /\ Outside(c, from, size)
<1> USE SparseAssumption
<1>1. CASE c \in Untouched(R, from, size)
  BY <1>1 DEF Untouched, PartOf, Outside, IsList, Bindings, End
<1>2. CASE c \in LeftOf(R, from, size)
  <2>1. PICK r \in R : /\ r.from < from /\ End(r) > from
                       /\ c = Binding(r.from, from - r.from, r.memory, r.at)
    BY <1>2 DEF LeftOf
  <2>2. r \in Bindings
    BY DEF IsList
  <2>3. c \in Bindings
    BY <2>1, <2>2 DEF Bindings, Binding, End
  <2> QED BY <2>1, <2>2, <2>3 DEF PartOf, Outside, Binding, Bindings, End
<1>3. CASE c \in RightOf(R, from, size)
  <2>1. PICK r \in R : /\ r.from < from + size /\ End(r) > from + size
                       /\ c = Binding(from + size, End(r) - (from + size), r.memory,
                                      r.at + (from + size) - r.from)
    BY <1>3 DEF RightOf
  <2>2. r \in Bindings /\ End(r) <= Pages /\ r.at + r.size <= MemoryPages
    BY DEF IsList
  <2>3. c \in Bindings
    BY <2>1, <2>2 DEF Bindings, Binding, End
  <2> QED BY <2>1, <2>2, <2>3 DEF PartOf, Outside, Binding, Bindings, End
<1> QED BY <1>1, <1>2, <1>3 DEF CutOf

\* Every page outside the bind keeps a range.
LEMMA CutKeeps ==
  ASSUME NEW R, NEW A, IsList(R, A), NEW from \in 0 .. Pages - 1, NEW size \in 1 .. Pages,
         NEW p \in 0 .. Pages - 1, p < from \/ p >= from + size,
         NEW r \in R, Covers(r, p)
  PROVE  \E c \in CutOf(R, from, size) : Covers(c, p)
<1> USE SparseAssumption
<1>0. r \in Bindings
  BY DEF IsList
<1>1. CASE End(r) <= from \/ r.from >= from + size
  BY <1>1 DEF CutOf, Untouched
<1>2. CASE p < from /\ End(r) > from
  <2>1. r.from < from
    BY <1>0, <1>2 DEF Covers, Bindings
  <2>2. Binding(r.from, from - r.from, r.memory, r.at) \in LeftOf(R, from, size)
    BY <1>2, <2>1 DEF LeftOf
  <2>3. Covers(Binding(r.from, from - r.from, r.memory, r.at), p)
    BY <1>0, <1>2 DEF Covers, Binding, End, Bindings
  <2> QED BY <2>2, <2>3 DEF CutOf
<1>3. CASE p >= from + size /\ r.from < from + size
  <2> DEFINE c == Binding(from + size, End(r) - (from + size), r.memory,
                          r.at + (from + size) - r.from)
  <2>1. End(r) > from + size
    BY <1>0, <1>3 DEF Covers, Bindings, End
  <2>2. c \in RightOf(R, from, size)
    BY <1>3, <2>1 DEF RightOf
  <2>3. Covers(c, p)
    BY <1>0, <1>3 DEF Covers, Binding, End, Bindings
  <2> QED BY <2>2, <2>3 DEF CutOf
<1> QED BY <1>0, <1>1, <1>2, <1>3 DEF Covers, End, Bindings

\* A bind leaves a list of what it meets.
LEMMA CutIsList ==
  ASSUME NEW R, NEW A, IsList(R, A), NEW from \in 0 .. Pages - 1, NEW size \in 1 .. Pages,
         from + size <= Pages
  PROVE  IsList(CutOf(R, from, size), A)
<1> USE SparseAssumption
<1>1. ASSUME NEW c \in CutOf(R, from, size)
      PROVE  /\ c \in Bindings /\ c.memory \in A
             /\ End(c) <= Pages /\ c.at + c.size <= MemoryPages
  <2>1. PICK r \in R : PartOf(c, r)
    BY <1>1, CutParts
  <2>2. r \in Bindings /\ r.memory \in A /\ End(r) <= Pages /\ r.at + r.size <= MemoryPages
    BY DEF IsList
  <2> QED BY <2>1, <2>2 DEF PartOf, Bindings, End
<1>2. ASSUME NEW c \in CutOf(R, from, size), NEW d \in CutOf(R, from, size), c # d
      PROVE  End(c) <= d.from \/ End(d) <= c.from
  <2>1. PICK r \in R : PartOf(c, r) /\ Outside(c, from, size)
    BY CutParts
  <2>2. PICK s \in R : PartOf(d, s) /\ Outside(d, from, size)
    BY CutParts
  <2>3. r \in Bindings /\ s \in Bindings
    BY DEF IsList
  <2>4. CASE r # s
    BY <2>1, <2>2, <2>3, <2>4 DEF IsList, Disjoint, PartOf, Bindings, End
  <2>5. CASE r = s
    <3>1. \A b \in CutOf(R, from, size) : PartOf(b, r) =>
            \/ b = r /\ (End(r) <= from \/ r.from >= from + size)
            \/ b = Binding(r.from, from - r.from, r.memory, r.at)
               /\ r.from < from /\ End(r) > from
            \/ b = Binding(from + size, End(r) - (from + size), r.memory,
                           r.at + (from + size) - r.from)
               /\ r.from < from + size /\ End(r) > from + size
      <4> SUFFICES ASSUME NEW b \in CutOf(R, from, size), PartOf(b, r)
                   PROVE \/ b = r /\ (End(r) <= from \/ r.from >= from + size)
                         \/ b = Binding(r.from, from - r.from, r.memory, r.at)
                            /\ r.from < from /\ End(r) > from
                         \/ b = Binding(from + size, End(r) - (from + size), r.memory,
                                        r.at + (from + size) - r.from)
                            /\ r.from < from + size /\ End(r) > from + size
        OBVIOUS
      <4>1. ASSUME NEW q \in R, PartOf(b, q) PROVE q = r
        <5>1. q \in Bindings
          BY DEF IsList
        <5> QED BY <2>3, <4>1, <5>1 DEF IsList, Disjoint, PartOf, Bindings, End
      <4>2. CASE b \in Untouched(R, from, size)
        <5>1. b \in R /\ PartOf(b, b) /\ (End(b) <= from \/ b.from >= from + size)
          BY <4>2 DEF Untouched, PartOf, IsList, Bindings, End
        <5> QED BY <4>1, <5>1
      <4>3. CASE b \in LeftOf(R, from, size)
        <5>1. PICK q \in R : /\ q.from < from /\ End(q) > from
                             /\ b = Binding(q.from, from - q.from, q.memory, q.at)
          BY <4>3 DEF LeftOf
        <5>2. q \in Bindings
          BY DEF IsList
        <5>3. PartOf(b, q)
          BY <5>1, <5>2 DEF PartOf, Binding, Bindings, End
        <5> QED BY <4>1, <5>1, <5>3
      <4>4. CASE b \in RightOf(R, from, size)
        <5>1. PICK q \in R : /\ q.from < from + size /\ End(q) > from + size
                             /\ b = Binding(from + size, End(q) - (from + size), q.memory,
                                            q.at + (from + size) - q.from)
          BY <4>4 DEF RightOf
        <5>2. q \in Bindings /\ End(q) <= Pages /\ q.at + q.size <= MemoryPages
          BY DEF IsList
        <5>3. PartOf(b, q)
          BY <5>1, <5>2 DEF PartOf, Binding, Bindings, End
        <5> QED BY <4>1, <5>1, <5>3
      <4> QED BY <4>2, <4>3, <4>4 DEF CutOf
    <3> HIDE DEF CutOf
    <3>2. PartOf(c, r) /\ PartOf(d, r)
      BY <2>1, <2>2, <2>5
    <3> QED BY <1>2, <2>3, <3>1, <3>2 DEF Binding, Bindings, End
  <2> QED BY <2>4, <2>5
<1> QED BY <1>1, <1>2 DEF IsList, Disjoint

\* With the new binding it is still a list.
LEMMA BoundIsList ==
  ASSUME NEW R, NEW A, A \subseteq SparseMemories, IsList(R, A),
         NEW from \in 0 .. Pages - 1, NEW size \in 1 .. Pages,
         NEW m \in A, NEW at \in 0 .. MemoryPages - 1,
         from + size <= Pages, at + size <= MemoryPages
  PROVE  IsList(CutOf(R, from, size) \cup {Binding(from, size, m, at)}, A)
<1> USE SparseAssumption
<1> DEFINE b == Binding(from, size, m, at)
           C == CutOf(R, from, size)
<1>1. IsList(C, A)
  BY CutIsList
<1>2. /\ b \in Bindings /\ b.memory \in A /\ b.from = from /\ End(b) = from + size
      /\ End(b) <= Pages /\ b.at + b.size <= MemoryPages
  BY DEF Binding, Bindings, End
<1>3. ASSUME NEW c \in C PROVE Outside(c, from, size)
  BY CutParts
<1> HIDE DEF b, C
<1>4. ASSUME NEW c \in C PROVE End(c) <= b.from \/ End(b) <= c.from
  BY <1>1, <1>2, <1>3 DEF Outside, IsList, Bindings, End
<1>5. Disjoint(C \cup {b})
  BY <1>1, <1>4 DEF Disjoint, IsList
<1>6. IsList(C \cup {b}, A)
  BY <1>1, <1>2, <1>5 DEF IsList
<1> QED BY <1>6 DEF b, C

----------------------------------------------------------------------------
\* What a lookup finds after a bind's cut: nothing inside, and outside what
\* it found before.
LEMMA CutResolves ==
  ASSUME NEW R, NEW A, IsList(R, A), NEW from \in 0 .. Pages - 1, NEW size \in 1 .. Pages,
         from + size <= Pages, NEW p \in 0 .. Pages - 1
  PROVE  ResolvedIn(CutOf(R, from, size), p)
           = IF p \in from .. from + size - 1 THEN <<"none", 0>> ELSE ResolvedIn(R, p)
<1> USE SparseAssumption
<1> DEFINE C == CutOf(R, from, size)
<1>1. IsList(C, A)
  BY CutIsList
<1>2. ASSUME NEW c \in C, Covers(c, p)
      PROVE  /\ p \notin from .. from + size - 1
             /\ ResolvedIn(C, p) = ResolvedIn(R, p)
  <2>1. PICK r \in R : PartOf(c, r) /\ Outside(c, from, size)
    BY CutParts
  <2>2. c \in Bindings /\ r \in Bindings
    BY <1>1 DEF IsList
  <2>3. p \notin from .. from + size - 1
    BY <1>2, <2>1, <2>2 DEF Outside, Covers, Bindings, End
  <2>4. Covers(r, p)
    BY <1>2, <2>1, <2>2 DEF PartOf, Covers, Bindings, End
  <2>5. ResolvedIn(R, p) = <<r.memory, r.at + p - r.from>>
    <3> R \subseteq Bindings /\ Disjoint(R)
      BY DEF IsList
    <3> QED BY <2>4, Lookup
  <2>6. ResolvedIn(C, p) = <<c.memory, c.at + p - c.from>>
    <3> C \subseteq Bindings /\ Disjoint(C)
      BY <1>1 DEF IsList
    <3> HIDE DEF C
    <3> QED BY <1>2, Lookup
  <2>7. c.memory = r.memory /\ c.at + p - c.from = r.at + p - r.from
    <3> HIDE DEF C
    <3>1. /\ c.at \in Int /\ c.from \in Int /\ r.at \in Int /\ r.from \in Int
          /\ c.memory = r.memory /\ c.at - c.from = r.at - r.from
      BY <2>1, <2>2 DEF PartOf, Bindings
    <3>2. p \in Int
      BY SparseAssumption DEF SparseAssumption
    <3>3. \A a, b, x, y, z \in Int : a - b = x - y => a + z - b = x + z - y
      OBVIOUS
    <3> QED BY ONLY <3>1, <3>2, <3>3
  <2> QED BY <2>3, <2>5, <2>6, <2>7
<1>3. CASE \E c \in C : Covers(c, p)
  BY <1>2, <1>3
<1>4. CASE ~ \E c \in C : Covers(c, p)
  <2>1. ResolvedIn(C, p) = <<"none", 0>>
    BY <1>4 DEF ResolvedIn
  <2>2. CASE p < from \/ p >= from + size
    <3>1. ~ \E r \in R : Covers(r, p)
      BY <1>4, <2>2, CutKeeps
    <3>2. ResolvedIn(R, p) = <<"none", 0>>
      BY <3>1 DEF ResolvedIn
    <3> QED BY <2>1, <3>2
  <2> QED BY <2>1, <2>2
<1> QED BY <1>3, <1>4

\* After the bind: the new memory's pages inside, outside what it found.
LEMMA BindResolves ==
  ASSUME NEW R, NEW A, A \subseteq SparseMemories, IsList(R, A),
         NEW from \in 0 .. Pages - 1, NEW size \in 1 .. Pages,
         NEW m \in A, NEW at \in 0 .. MemoryPages - 1,
         from + size <= Pages, at + size <= MemoryPages, NEW p \in 0 .. Pages - 1
  PROVE  ResolvedIn(CutOf(R, from, size) \cup {Binding(from, size, m, at)}, p)
           = IF p \in from .. from + size - 1 THEN <<m, at + p - from>> ELSE ResolvedIn(R, p)
<1> USE SparseAssumption
<1> DEFINE b == Binding(from, size, m, at)
           C == CutOf(R, from, size)
           B == C \cup {b}
<1>1. IsList(B, A) /\ IsList(C, A)
  BY CutIsList, BoundIsList
<1>2. /\ b.memory = m /\ b.at = at /\ b.from = from
      /\ Covers(b, p) <=> p \in from .. from + size - 1
  BY DEF Binding, Covers, End
<1>3. /\ B \subseteq Bindings /\ Disjoint(B)
      /\ C \subseteq Bindings /\ Disjoint(C)
  BY <1>1 DEF IsList
<1>4. p \notin from .. from + size - 1 => ResolvedIn(C, p) = ResolvedIn(R, p)
  BY CutResolves
<1>5. b \in B /\ B = C \cup {b}
  OBVIOUS
<1> HIDE DEF B, C, b
<1>6. CASE p \in from .. from + size - 1
  <2>1. ResolvedIn(B, p) = <<b.memory, b.at + p - b.from>>
    BY <1>2, <1>3, <1>5, <1>6, Lookup
  <2> QED BY <1>2, <1>6, <2>1 DEF B, C, b
<1>7. CASE p \notin from .. from + size - 1
  <2>1. ~Covers(b, p)
    BY <1>2, <1>7
  <2>2. CASE \E c \in C : Covers(c, p)
    <3>1. PICK c \in C : Covers(c, p)
      BY <2>2
    <3>2. ResolvedIn(C, p) = <<c.memory, c.at + p - c.from>>
      BY <1>3, <3>1, Lookup
    <3>3. ResolvedIn(B, p) = <<c.memory, c.at + p - c.from>>
      BY <1>3, <1>5, <3>1, Lookup
    <3> QED BY <1>4, <1>7, <3>2, <3>3 DEF B, C, b
  <2>3. CASE ~ \E c \in C : Covers(c, p)
    <3>1. ResolvedIn(C, p) = <<"none", 0>>
      BY <2>3 DEF ResolvedIn
    <3>2. ResolvedIn(B, p) = <<"none", 0>>
      BY <1>5, <2>1, <2>3 DEF ResolvedIn
    <3> QED BY <1>4, <1>7, <3>1, <3>2 DEF B, C, b
  <2> QED BY <2>2, <2>3
<1> QED BY <1>6, <1>7

\* Without the ranges of a freed memory: its pages are unbound, no others.
LEMMA FreeResolves ==
  ASSUME NEW R, NEW A, A \subseteq SparseMemories, IsList(R, A), NEW m \in A,
         NEW p \in 0 .. Pages - 1
  PROVE  LET F == {r \in R : r.memory # m}
         IN  /\ IsList(F, A \ {m})
             /\ ResolvedIn(F, p)
                  = IF ResolvedIn(R, p)[1] = m THEN <<"none", 0>> ELSE ResolvedIn(R, p)
<1> USE SparseAssumption
<1> DEFINE F == {r \in R : r.memory # m}
<1>1. /\ R \subseteq Bindings /\ Disjoint(R)
      /\ F \subseteq Bindings /\ Disjoint(F)
  BY DEF IsList, Disjoint
<1>2. IsList(F, A \ {m})
  BY <1>1 DEF IsList
<1>3. CASE \E r \in R : Covers(r, p)
  <2>1. PICK r \in R : Covers(r, p)
    BY <1>3
  <2>2. ResolvedIn(R, p) = <<r.memory, r.at + p - r.from>>
    BY <1>1, <2>1, Lookup
  <2>3. CASE r.memory = m
    <3>1. \A s \in R : Covers(s, p) => s = r
      BY <1>1, <2>1 DEF Disjoint, Covers, End, Bindings
    <3>2. ~ \E s \in F : Covers(s, p)
      BY <2>3, <3>1
    <3>3. ResolvedIn(F, p) = <<"none", 0>>
      BY <3>2 DEF ResolvedIn
    <3> QED BY <1>2, <2>2, <2>3, <3>3
  <2>4. CASE r.memory # m
    <3>1. r \in F
      BY <2>4
    <3> HIDE DEF F
    <3>2. ResolvedIn(F, p) = <<r.memory, r.at + p - r.from>>
      BY <1>1, <2>1, <3>1, Lookup
    <3> QED BY <1>2, <2>2, <2>4, <3>2 DEF F
  <2> QED BY <2>3, <2>4
<1>4. CASE ~ \E r \in R : Covers(r, p)
  <2>1. ResolvedIn(R, p) = <<"none", 0>> /\ ResolvedIn(F, p) = <<"none", 0>>
    BY <1>4 DEF ResolvedIn
  <2> QED BY <1>2, <2>1
<1> QED BY <1>3, <1>4

----------------------------------------------------------------------------
\* The state's operators are those above, for its list.
LEMMA OfTheState ==
  /\ \A p : Resolved(p) = ResolvedIn(ranges, p)
  /\ \A p : Resolved(p)' = ResolvedIn(ranges', p)
  /\ \A from, size : Cut(from, size) = CutOf(ranges, from, size)
<1>1. \A p : Found(p) = FoundIn(ranges, p)
  BY DEF Found, FoundIn
<1>2. \A p : Resolved(p) = ResolvedIn(ranges, p)
  BY <1>1 DEF Resolved, ResolvedIn
<1>3. \A from, size : Cut(from, size) = CutOf(ranges, from, size)
  BY DEF Cut, CutOf, Untouched, LeftOf, RightOf
<1>4. \A p : Found(p)' = FoundIn(ranges', p)
  BY DEF Found, FoundIn
<1>5. \A p : Resolved(p)' = ResolvedIn(ranges', p)
  BY <1>4 DEF Resolved, ResolvedIn
<1> QED BY <1>2, <1>3, <1>5

\* The pages of a list.
PagesOf(R) == [p \in 0 .. Pages - 1 |-> ResolvedIn(R, p)]

\* Every step keeps the list a list, and is a step of the page table on its
\* pages or leaves them alone.
LEMMA SparseStep ==
  ASSUME SparseInv, [SparseNext]_sparseVars
  PROVE  /\ SparseInv'
         /\ PageTable!Next \/ UNCHANGED ranges
<1> USE SparseAssumption
<1>1. CASE UNCHANGED sparseVars
  BY <1>1 DEF sparseVars, SparseInv
<1>2. CASE ImageBinds
  BY <1>2 DEF ImageBinds, BindTiles, BindTail, BindTilesFails, SparseInv
<1> DEFINE table == [p \in 0 .. Pages - 1 |-> Resolved(p)]
<1>0. table = PagesOf(ranges) /\ table' = PagesOf(ranges')
  BY OfTheState DEF PagesOf
<1>3. ASSUME NEW m \in SparseMemories, AllocateSparse(m)
      PROVE  SparseInv' /\ UNCHANGED ranges
  BY <1>3 DEF AllocateSparse, SparseInv, IsList
<1>4. ASSUME NEW m \in SparseMemories, FreeSparse(m)
      PROVE  SparseInv' /\ PageTable!Free(m)
  <2>1. /\ m \in allocated /\ allocated' = allocated \ {m}
        /\ ranges' = {r \in ranges : r.memory # m}
    BY <1>4 DEF FreeSparse
  <2>2. ASSUME NEW p \in 0 .. Pages - 1
        PROVE  /\ IsList(ranges', allocated')
               /\ ResolvedIn(ranges', p) = IF ResolvedIn(ranges, p)[1] = m THEN <<"none", 0>>
                                           ELSE ResolvedIn(ranges, p)
    <3> DEFINE R == ranges
               A == allocated
    <3>1. A \subseteq SparseMemories /\ IsList(R, A) /\ m \in A
      BY <2>1 DEF SparseInv
    <3>2. ranges' = {r \in R : r.memory # m} /\ allocated' = A \ {m}
      BY <2>1
    <3> HIDE DEF R, A
    <3>3. LET F == {r \in R : r.memory # m}
          IN  /\ IsList(F, A \ {m})
              /\ ResolvedIn(F, p) = IF ResolvedIn(R, p)[1] = m THEN <<"none", 0>>
                                    ELSE ResolvedIn(R, p)
      BY <3>1, FreeResolves
    <3> QED BY <3>2, <3>3 DEF R, A
  <2>3. 0 \in 0 .. Pages - 1
    BY ONLY SparseAssumption
  <2>4. SparseInv'
    BY <2>1, <2>2, <2>3 DEF SparseInv
  <2>5. PagesOf(ranges') = [p \in 0 .. Pages - 1 |->
          IF PagesOf(ranges)[p][1] = m THEN <<"none", 0>> ELSE PagesOf(ranges)[p]]
    BY <2>2 DEF PagesOf
  <2> QED BY <1>0, <2>4, <2>5 DEF PageTable!Free, PageTable!Unbound
<1>5. ASSUME NEW from \in 0 .. Pages - 1, NEW size \in 1 .. Pages, UnbindBuffer(from, size)
      PROVE  SparseInv' /\ PageTable!Unbind(from, size)
  <2>1. /\ from + size <= Pages /\ allocated' = allocated
        /\ ranges' = CutOf(ranges, from, size)
    BY <1>5, OfTheState DEF UnbindBuffer
  <2>2. SparseInv'
    BY <2>1, CutIsList DEF SparseInv
  <2>3. ASSUME NEW p \in 0 .. Pages - 1
        PROVE  ResolvedIn(ranges', p) = IF p \in from .. from + size - 1 THEN <<"none", 0>>
                                        ELSE ResolvedIn(ranges, p)
    BY <2>1, CutResolves DEF SparseInv
  <2>4. PagesOf(ranges') = [p \in 0 .. Pages - 1 |->
          IF p \in from .. from + size - 1 THEN <<"none", 0>> ELSE PagesOf(ranges)[p]]
    BY <2>3 DEF PagesOf
  <2> QED BY <1>0, <2>2, <2>4 DEF PageTable!Unbind, PageTable!Unbound
<1>6. ASSUME NEW from \in 0 .. Pages - 1, NEW size \in 1 .. Pages,
             NEW m \in SparseMemories, NEW at \in 0 .. MemoryPages - 1,
             BindBuffer(from, size, m, at)
      PROVE  SparseInv' /\ PageTable!Bind(from, size, m, at)
  <2>1. /\ from + size <= Pages /\ at + size <= MemoryPages /\ m \in allocated
        /\ allocated' = allocated
        /\ ranges' = CutOf(ranges, from, size) \cup {Binding(from, size, m, at)}
    BY <1>6, OfTheState DEF BindBuffer
  <2>2. SparseInv'
    BY <2>1, BoundIsList DEF SparseInv
  <2>3. ASSUME NEW p \in 0 .. Pages - 1
        PROVE  ResolvedIn(ranges', p) = IF p \in from .. from + size - 1 THEN <<m, at + p - from>>
                                        ELSE ResolvedIn(ranges, p)
    BY <2>1, BindResolves DEF SparseInv
  <2>4. PagesOf(ranges') = [p \in 0 .. Pages - 1 |->
          IF p \in from .. from + size - 1 THEN <<m, at + p - from>> ELSE PagesOf(ranges)[p]]
    BY <2>3 DEF PagesOf
  <2> QED BY <1>0, <2>2, <2>4 DEF PageTable!Bind
<1>7. CASE BufferBinds
  BY <1>3, <1>4, <1>5, <1>6, <1>7 DEF BufferBinds, PageTable!Next
<1> QED BY <1>1, <1>2, <1>7 DEF SparseNext

----------------------------------------------------------------------------
\* The list holds ranges of the buffer over memories that exist.
THEOREM SparseInvariance == SparseSpec => []SparseInv
<1>1. SparseInit => SparseInv
  BY DEF SparseInit, SparseInv, IsList, Disjoint
<1>2. SparseInv /\ [SparseNext]_sparseVars => SparseInv'
  BY SparseStep
<1> QED BY <1>1, <1>2, PTL DEF SparseSpec

\* Binds and frees in any order leave no page in two ranges, so which range
\* a lookup meets first is moot.
THEOREM RangesAreDisjoint == SparseSpec => []RangesDisjoint
<1>1. SparseInv => RangesDisjoint
  BY DEF SparseInv, IsList, Disjoint, RangesDisjoint
<1> QED BY <1>1, SparseInvariance, PTL

\* The list of ranges that vkQueueBindSparse cuts, extends and looks pages
\* up in implements the page table the specification of sparse buffers
\* promises.
THEOREM ImplementsPageTable == SparseSpec => ListIsPageTable
<1>1. SparseInit => PageTable!Init
  <2>1. SparseInit => \A p \in 0 .. Pages - 1 : Resolved(p) = <<"none", 0>>
    BY DEF SparseInit, Resolved
  <2> QED BY <2>1 DEF PageTable!Init, PageTable!Unbound
<1>2. SparseInv /\ [SparseNext]_sparseVars
        => PageTable!Next \/ UNCHANGED [p \in 0 .. Pages - 1 |-> Resolved(p)]
  <2>1. UNCHANGED ranges => UNCHANGED [p \in 0 .. Pages - 1 |-> Resolved(p)]
    BY OfTheState
  <2> QED BY <2>1, SparseStep
<1> QED BY <1>1, <1>2, SparseInvariance, PTL DEF SparseSpec, ListIsPageTable, PageTable!Spec

----------------------------------------------------------------------------
(* The image.  LevelWidth is a recursive function: that one exists, and has *)
(* positive values, is shown by the least level that would have none.       *)

\* The equation LevelWidth solves, up to level n.
IsWidths(f, n) ==
  f = [level \in 0 .. n |->
         IF level = 0 THEN Width
         ELSE IF f[level - 1] = 1 THEN 1 ELSE f[level - 1] \div 2]

LEMMA Least ==
  ASSUME NEW S, S \subseteq Nat, S # {}
  PROVE  \E n \in S : \A m \in S : ~(m < n)
<1>1. PICK n \in S : \A m \in S : ~(<<m, n>> \in OpToRel(<, Nat))
  BY NatLessThanWellFounded, WFMin
<1> QED BY <1>1 DEF OpToRel

LEMMA WidthsExist == \A n \in Nat : \E f : IsWidths(f, n)
<1> DEFINE Without == {n \in Nat : ~\E f : IsWidths(f, n)}
<1> SUFFICES ASSUME Without # {} PROVE FALSE
  OBVIOUS
<1>1. PICK n \in Without : \A m \in Without : ~(m < n)
  <2>1. Without \subseteq Nat
    OBVIOUS
  <2> HIDE DEF Without
  <2> QED BY <2>1, Least
<1>2. CASE n = 0
  <2>1. IsWidths([level \in 0 .. 0 |-> Width], 0)
    BY DEF IsWidths
  <2> QED BY <1>1, <1>2, <2>1
<1>3. CASE n # 0
  <2>1. n - 1 \in Nat /\ n - 1 \notin Without
    BY <1>1, <1>3
  <2>2. PICK f : IsWidths(f, n - 1)
    BY <2>1
  <2> DEFINE g == [level \in 0 .. n |->
                     IF level = n THEN IF f[n - 1] = 1 THEN 1 ELSE f[n - 1] \div 2
                     ELSE f[level]]
  <2>3. \A level \in 0 .. n - 1 :
          /\ g[level] = f[level]
          /\ f[level] = IF level = 0 THEN Width
                        ELSE IF f[level - 1] = 1 THEN 1 ELSE f[level - 1] \div 2
    BY <2>1, <2>2 DEF IsWidths
  <2>4. \A level \in 0 .. n :
          g[level] = IF level = 0 THEN Width
                     ELSE IF g[level - 1] = 1 THEN 1 ELSE g[level - 1] \div 2
    <3> SUFFICES ASSUME NEW level \in 0 .. n
                 PROVE  g[level] = IF level = 0 THEN Width
                                   ELSE IF g[level - 1] = 1 THEN 1 ELSE g[level - 1] \div 2
      OBVIOUS
    <3>1. CASE level = n
      <4>1. g[level - 1] = f[n - 1] /\ n - 1 \in 0 .. n - 1
        BY <2>1, <2>3, <3>1
      <4> QED BY <1>3, <3>1, <4>1
    <3>2. CASE level # n
      <4>1. level \in 0 .. n - 1 /\ (level # 0 => level - 1 \in 0 .. n - 1)
        BY <3>2
      <4>2. g[level] = f[level] /\ (level # 0 => g[level - 1] = f[level - 1])
        BY <2>3, <4>1
      <4> HIDE DEF g
      <4> QED BY <2>3, <4>1, <4>2
    <3> QED BY <3>1, <3>2
  <2>5. IsWidths(g, n)
    BY <2>4 DEF IsWidths
  <2> QED BY <1>1, <2>5
<1> QED BY <1>2, <1>3

LEMMA Widths == \A level \in 0 .. Levels - 1 : LevelWidth[level] \in Nat \ {0}
<1>1. IsWidths(LevelWidth, Levels - 1)
  <2>1. PICK f : IsWidths(f, Levels - 1)
    BY WidthsExist, SparseAssumption
  <2>2. LevelWidth = CHOOSE g : IsWidths(g, Levels - 1)
    BY DEF LevelWidth, IsWidths
  <2> QED BY <2>1, <2>2
<1> DEFINE Wrong == {level \in 0 .. Levels - 1 : LevelWidth[level] \notin Nat \ {0}}
<1> SUFFICES ASSUME Wrong # {} PROVE FALSE
  OBVIOUS
<1>2. PICK n \in Wrong : \A m \in Wrong : ~(m < n)
  <2>1. Wrong \subseteq Nat
    OBVIOUS
  <2> HIDE DEF Wrong
  <2> QED BY <2>1, Least
<1>3. CASE n = 0
  BY <1>1, <1>2, <1>3, SparseAssumption DEF IsWidths
<1>4. CASE n # 0
  <2>1. n - 1 \in 0 .. Levels - 1 /\ n - 1 \notin Wrong /\ n \in 0 .. Levels - 1
    BY <1>2, <1>4, SparseAssumption
  <2>2. LevelWidth[n - 1] \in Nat \ {0}
    BY <2>1
  <2>3. LevelWidth[n] = IF LevelWidth[n - 1] = 1 THEN 1 ELSE LevelWidth[n - 1] \div 2
    BY <1>1, <1>4, <2>1 DEF IsWidths
  <2>4. \A w \in Nat \ {0} : (IF w = 1 THEN 1 ELSE w \div 2) \in Nat \ {0}
    OBVIOUS
  <2>5. LevelWidth[n] \in Nat \ {0}
    BY <2>2, <2>3, <2>4
  <2> QED BY <1>2, <2>5
<1> QED BY <1>3, <1>4

\* Two Metal tiles make a guest tile.
LEMMA Halves ==
  ASSUME NEW M \in Nat \ {0}, NEW x \in Nat, NEW first \in Nat, NEW last \in Nat
  PROVE  /\ 2 * first <= x \div M <=> first <= x \div (2 * M)
         /\ x \div M <= 2 * last + 1 <=> x \div (2 * M) <= last
OBVIOUS

LEMMA WholeTiles ==
  ASSUME NEW M \in Nat \ {0}, NEW k \in Nat
  PROVE  (k * M) \div M = k /\ (k * M + M - 1) \div M = k
OBVIOUS

LEMMA Rim ==
  ASSUME NEW M \in Nat \ {0}, NEW k \in Nat, NEW w \in Nat, k * M < w, NEW x \in 0 .. w - 1
  PROVE  x \div M <= k + (w - k * M + M - 1) \div M - 1
OBVIOUS

\* The Metal tiles of whole guest tiles are those their texels lie in.
LEMMA TileOf ==
  ASSUME NEW M \in Nat \ {0}, NEW w \in Nat, NEW first \in Nat, NEW last \in Nat,
         first <= last, first * (2 * M) < w, NEW x \in 0 .. w - 1, NEW extent,
         extent = IF (last + 1) * (2 * M) > w THEN w - first * (2 * M)
                  ELSE (last + 1 - first) * (2 * M)
  PROVE  x \div M \in (first * (2 * M)) \div M
                        .. ((first * (2 * M)) \div M) + CeilDiv(extent, M) - 1
           <=> x \div (2 * M) \in first .. last
<1>1. /\ x \in Nat /\ x \div M \in Nat /\ x \div (2 * M) \in Nat
      /\ first * (2 * M) = (2 * first) * M /\ 2 * first \in Nat
  OBVIOUS
<1>2. (first * (2 * M)) \div M = 2 * first
  BY <1>1, WholeTiles
<1>3. 2 * first <= x \div M <=> first <= x \div (2 * M)
  BY <1>1, Halves
<1>4. CASE (last + 1) * (2 * M) <= w
  <2>1. extent = (2 * (last + 1 - first)) * M /\ 2 * (last + 1 - first) \in Nat
    BY <1>4
  <2>2. CeilDiv(extent, M) = 2 * (last + 1 - first)
    BY <2>1, WholeTiles DEF CeilDiv
  <2>3. x \div M <= 2 * last + 1 <=> x \div (2 * M) <= last
    BY <1>1, Halves
  <2> QED BY <1>1, <1>2, <1>3, <2>2, <2>3
<1>5. CASE ~((last + 1) * (2 * M) <= w)
  <2>1. extent = w - (2 * first) * M
    BY <1>1, <1>5
  <2>2. x \div M <= 2 * first + CeilDiv(extent, M) - 1
    BY <1>1, <2>1, Rim DEF CeilDiv
  <2>3. x < (last + 1) * (2 * M)
    BY <1>5
  <2>4. x \div (2 * M) <= last
    BY <1>1, <2>3
  <2> QED BY <1>1, <1>2, <1>3, <2>2, <2>4
<1> QED BY <1>4, <1>5

----------------------------------------------------------------------------

LEMMA TilesExact ==
  ASSUME ResidencyExact, NEW l \in Tiled, NEW first \in 0 .. Width, NEW last \in 0 .. Width,
         NEW map \in BOOLEAN, BindTiles(l, first, last, map)
  PROVE  ResidencyExact'
<1> DEFINE extent == IF (last + 1) * GuestTile > LevelWidth[l]
                     THEN LevelWidth[l] - first * GuestTile
                     ELSE (last + 1 - first) * GuestTile
           metal == MetalTiles(l, first * GuestTile, extent)
           guest == {<<l, t>> : t \in first .. last}
<1>1. /\ ~lost /\ mapped' = Update(metal, map)
      /\ resident' = IF map THEN resident \cup guest ELSE resident \ guest
      /\ <<l, first>> \in GuestTiles /\ first <= last
  BY DEF BindTiles
<1>2. l \in 0 .. Levels - 1 /\ l \notin MipTail /\ LevelWidth[l] \in Nat /\ first * GuestTile < LevelWidth[l]
  BY <1>1, Widths DEF Tiled, GuestTiles
<1>3. ASSUME NEW level \in 0 .. Levels - 1, NEW x \in 0 .. LevelWidth[level] - 1
      PROVE  <<level, x \div MetalTile>> \in mapped'
               <=> IF level \in MipTail THEN TailTile \in resident'
                                     ELSE <<level, x \div GuestTile>> \in resident'
  <2>1. <<level, x \div MetalTile>> \in mapped
          <=> IF level \in MipTail THEN TailTile \in resident
                                ELSE <<level, x \div GuestTile>> \in resident
    BY <1>1 DEF ResidencyExact
  <2>2. CASE level = l
    <3>1. <<level, x \div MetalTile>> \in metal <=> <<level, x \div GuestTile>> \in guest
      <4>1. x \div MetalTile \in (first * GuestTile) \div MetalTile
                  .. ((first * GuestTile) \div MetalTile) + CeilDiv(extent, MetalTile) - 1
              <=> x \div GuestTile \in first .. last
        <5>1. /\ MetalTile \in Nat \ {0} /\ LevelWidth[l] \in Nat
              /\ first \in Nat /\ last \in Nat /\ GuestTile = 2 * MetalTile
          BY <1>2, SparseAssumption DEF GuestTile
        <5>2. x \in 0 .. LevelWidth[l] - 1
          BY <2>2
        <5> QED BY <1>1, <1>2, <5>1, <5>2, TileOf
      <4> QED BY <2>2, <4>1 DEF MetalTiles
    <3> HIDE DEF metal, guest
    <3> QED BY <1>1, <1>2, <2>1, <2>2, <3>1 DEF Update
  <2>3. CASE level # l
    <3>1. <<level, x \div MetalTile>> \notin metal /\ <<level, x \div GuestTile>> \notin guest
      BY <2>3 DEF MetalTiles
    <3>2. TailTile \notin guest
      BY <1>2, SparseAssumption DEF TailTile
    <3> HIDE DEF metal, guest
    <3> QED BY <1>1, <2>1, <3>1, <3>2 DEF Update
  <2> QED BY <2>2, <2>3
<1> QED BY <1>3 DEF ResidencyExact, MipTail, TailTile, TailFrom

\* All of a level of the tail.
LEMMA WholeLevel ==
  ASSUME NEW M \in Nat \ {0}, NEW w \in Nat \ {0}, NEW x \in 0 .. w - 1
  PROVE  x \div M \in 0 \div M .. (0 \div M) + CeilDiv(w, M) - 1
<1>1. 0 \div M = 0
  OBVIOUS
<1>2. x \div M \in Nat
  OBVIOUS
<1>3. x \div M <= 0 + (w - 0 * M + M - 1) \div M - 1
  BY Rim
<1> QED BY <1>1, <1>2, <1>3 DEF CeilDiv

LEMMA TailExact ==
  ASSUME ResidencyExact, NEW map \in BOOLEAN, NEW failing \in 0 .. Levels, BindTail(map, failing)
  PROVE  ResidencyExact'
<1> SUFFICES ASSUME ~lost' PROVE ResidencyExact'
  BY DEF ResidencyExact
<1> DEFINE metal == UNION {MetalTiles(level, 0, LevelWidth[level]) : level \in MipTail}
<1>1. /\ ~lost /\ failing = Levels
      /\ resident' = IF map THEN resident \cup {TailTile} ELSE resident \ {TailTile}
  BY DEF BindTail
<1>2. {level \in MipTail : level < failing} = MipTail
  BY <1>1, SparseAssumption DEF MipTail
<1>3. mapped' = Update(metal, map)
  BY <1>2 DEF BindTail
<1>4. ASSUME NEW level \in 0 .. Levels - 1, NEW x \in 0 .. LevelWidth[level] - 1
      PROVE  <<level, x \div MetalTile>> \in mapped'
               <=> IF level \in MipTail THEN TailTile \in resident'
                                     ELSE <<level, x \div GuestTile>> \in resident'
  <2>1. <<level, x \div MetalTile>> \in mapped
          <=> IF level \in MipTail THEN TailTile \in resident
                                ELSE <<level, x \div GuestTile>> \in resident
    BY <1>1 DEF ResidencyExact
  <2>2. <<level, x \div GuestTile>> # TailTile
    BY SparseAssumption DEF TailTile
  <2>3. CASE level \in MipTail
    <3>1. x \div MetalTile \in 0 \div MetalTile
                  .. (0 \div MetalTile) + CeilDiv(LevelWidth[level], MetalTile) - 1
      BY WholeLevel, Widths, SparseAssumption
    <3>2. <<level, x \div MetalTile>> \in MetalTiles(level, 0, LevelWidth[level])
      BY <3>1 DEF MetalTiles
    <3>3. <<level, x \div MetalTile>> \in metal
      BY <2>3, <3>2
    <3> HIDE DEF metal
    <3> QED BY <1>1, <1>3, <2>1, <2>3, <3>3 DEF Update
  <2>4. CASE level \notin MipTail
    <3>1. <<level, x \div MetalTile>> \notin metal
      BY <2>4 DEF MetalTiles
    <3> HIDE DEF metal
    <3> QED BY <1>1, <1>3, <2>1, <2>2, <2>4, <3>1 DEF Update
  <2> QED BY <2>3, <2>4
<1> QED BY <1>4 DEF ResidencyExact, MipTail, TailTile, TailFrom

\* For all widths, numbers of levels and sizes of tiles: a texel has memory on
\* the host exactly if the tile, or the mip tail, it lies in is bound.
THEOREM ResidencyIsExact == SparseSpec => []ResidencyExact
<1>1. SparseInit => ResidencyExact
  BY DEF SparseInit, ResidencyExact
<1>2. ResidencyExact /\ [SparseNext]_sparseVars => ResidencyExact'
  <2> SUFFICES ASSUME ResidencyExact, [SparseNext]_sparseVars PROVE ResidencyExact'
    OBVIOUS
  <2>1. CASE BufferBinds \/ UNCHANGED sparseVars
    <3>1. UNCHANGED <<resident, mapped, lost>>
      BY <2>1 DEF BufferBinds, AllocateSparse, FreeSparse, BindBuffer, UnbindBuffer, sparseVars
    <3> QED BY <3>1 DEF ResidencyExact
  <2>2. CASE ImageBinds
    <3>1. CASE BindTilesFails
      BY <3>1 DEF BindTilesFails, ResidencyExact
    <3> QED BY <2>2, <3>1, TilesExact, TailExact DEF ImageBinds
  <2> QED BY <2>1, <2>2 DEF SparseNext
<1> QED BY <1>1, <1>2, PTL DEF SparseSpec

=============================================================================
