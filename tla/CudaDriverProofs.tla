-------------------------- MODULE CudaDriverProofs --------------------------
(***************************************************************************)
(* The CUDA driver's sets name live memory only, whatever any number of    *)
(* threads construct and destroy, as long as the application frees a       *)
(* buffer before the external memory it was mapped from.                   *)
(***************************************************************************)
EXTENDS CudaDriver, TLAPS

Plain == Kinds \ {"device", "reservation"}
Described == {"reservation", "memory", "mipmap", "array", "library", "kernel", "function"}

\* Every address that is not free has one owner: tag[a] says in which role it
\* is owned and of[a], where that matters, by whom.

\* A free address has none.
Fresh(tag) == \A a \in Addresses : space[a] = "free" => tag[a] = "nobody"

Tagged(k, g) ==
  \/ g = k
  \/ k = "function" /\ g = "code"
  \/ k = "module" /\ (g = "inner" \/ g = "maker")

Objects(tag) ==
  \A k \in Plain : \A a \in tables[k] : space[a] = "heap" /\ Tagged(k, tag[a])

\* A device pointer is an allocation, a buffer mapped from external memory,
\* or a mapped page.
Devices(tag, of) ==
  /\ external \subseteq tables["device"]
  /\ \A a \in tables["device"] :
       \/ a \notin external /\ tag[a] = "device" /\ space[a] = "heap"
       \/ /\ a \in external /\ tag[a] = "file" /\ space[a] = "file" /\ <<"device", a>> \in held
          /\ of[a] \in tables["memory"] /\ fields[of[a]].mapping = a
       \/ /\ a \notin external /\ tag[a] = "page" /\ space[a] = "mapped" /\ <<"mapped", a>> \in held
          /\ of[a] \in tables["reservation"] /\ a \in fields[of[a]].pages

\* Thread t is between the mutex and the mmap of page a, or back.
Busy(t, a) ==
  \/ calls[t].op = "insert" /\ calls[t].at = a
  \/ calls[t].op = "reserve" /\ a \in calls[t].at

Reservations(tag, of) ==
  \A b \in tables["reservation"] :
    /\ b \in fields[b].pages /\ fields[b].pages \subseteq Addresses
    /\ \A a \in fields[b].pages :
         /\ tag[a] = "page" /\ of[a] = b
         /\ \/ space[a] = "reserved"
            \/ space[a] = "mapped" /\ (a \in tables["device"] \/ \E t \in Threads : Busy(t, a))

ExternalMemories(tag, of) ==
  \A m \in tables["memory"] :
    /\ fields[m].mapping \in Addresses /\ space[fields[m].mapping] = "file"
    /\ tag[fields[m].mapping] = "file" /\ of[fields[m].mapping] = m

Mipmaps ==
  /\ \A x \in tables["mipmap"] :
       /\ fields[x].memory \in tables["memory"]
       /\ fields[x].levels = {a \in tables["array"] : fields[a].mipmap = x}
  /\ \A a \in tables["array"] :
       fields[a].mipmap = Nowhere \/ fields[a].mipmap \in tables["mipmap"]

Kernels(tag, of) ==
  \A k \in tables["kernel"] :
    /\ fields[k].library \in tables["library"] /\ fields[k].function \in tables["function"]
    /\ tag[fields[k].function] = "code" /\ of[fields[k].function] = k
    /\ fields[fields[k].function].module = fields[fields[k].library].module

Libraries(tag, of) ==
  \A l \in tables["library"] :
    /\ fields[l].module \in tables["module"]
    /\ tag[fields[l].module] = "inner" /\ of[fields[l].module] = l

Handles(tag) ==
  \A k, a : <<k, a>> \in held =>
    IF k = "mapped" THEN a \in tables["device"] /\ tag[a] = "page"
    ELSE IF k = "inner" THEN a \in tables["module"] /\ tag[a] = "inner"
    ELSE /\ k \in Kinds /\ a \in tables[k]
         /\ k = "device" => tag[a] = "device" \/ tag[a] = "file"
         /\ k = "module" => tag[a] = "module"

\* What a call has allocated and not yet told, and what it has still to free.
MadeBy(tag, of, t, a, what) == a \in Addresses /\ tag[a] = "call" /\ of[a] = t /\ space[a] = what

Mapping(tag, of, a) ==
  /\ a \in Addresses /\ tag[a] = "page" /\ space[a] = "mapped" /\ a \notin tables["device"]
  /\ of[a] \in tables["reservation"] /\ a \in fields[of[a]].pages

Inserting(tag, of, t) ==
  LET c == calls[t]
  IN  \/ /\ c.as = c.kind \/ (c.as = "librarymodule" /\ c.kind = "module")
         /\ c.kind \in Kinds \ Described /\ DOMAIN c.fields = {}
         /\ MadeBy(tag, of, t, c.at, "heap")
      \/ /\ c.as = "array" /\ c.kind = "array" /\ c.fields = [mipmap |-> Nowhere]
         /\ MadeBy(tag, of, t, c.at, "heap")
      \/ /\ c.as = "mapped" /\ c.kind = "device" /\ DOMAIN c.fields = {}
         /\ Mapping(tag, of, c.at)
      \/ /\ c.as = "reservation" /\ c.kind = "reservation"
         /\ \E pages \in SUBSET Addresses :
              /\ c.fields = [pages |-> pages] /\ c.at \in pages
              /\ \A a \in pages : MadeBy(tag, of, t, a, "reserved")
      \/ /\ c.as = "memory" /\ c.kind = "memory" /\ MadeBy(tag, of, t, c.at, "heap")
         /\ \E mapping \in Addresses :
              /\ c.fields = [mapping |-> mapping] /\ c.at # mapping
              /\ MadeBy(tag, of, t, mapping, "file")
      \/ /\ c.as = "library" /\ c.kind = "library" /\ MadeBy(tag, of, t, c.at, "heap")
         /\ \E m \in tables["module"] :
              c.fields = [module |-> m] /\ tag[m] = "maker" /\ of[m] = t

OneCall(tag, of, t) ==
  \/ calls[t] = Idle
  \/ calls[t].op = "insert" /\ Inserting(tag, of, t)
  \/ /\ calls[t].op = "free"
     /\ \A a \in calls[t].at :
          MadeBy(tag, of, t, a, "heap") \/ MadeBy(tag, of, t, a, "reserved")
  \/ calls[t].op = "reserve" /\ \E a \in Addresses : calls[t].at = {a} /\ Mapping(tag, of, a)
  \/ /\ calls[t].op = "library" /\ calls[t].at \in tables["module"]
     /\ tag[calls[t].at] = "maker" /\ of[calls[t].at] = t

Calls(tag, of) == \A t \in Threads : OneCall(tag, of, t)

\* No two calls work on one page.
Alone(tag) ==
  \A a \in Addresses, t, u \in Threads :
    tag[a] = "page" /\ Busy(t, a) /\ Busy(u, a) => t = u

Recorded == \A k \in Described : tables[k] \subseteq DOMAIN fields

Owned(tag, of) ==
  /\ Fresh(tag) /\ Objects(tag) /\ Devices(tag, of) /\ Reservations(tag, of)
  /\ ExternalMemories(tag, of) /\ Mipmaps /\ Kernels(tag, of) /\ Libraries(tag, of)
  /\ Handles(tag) /\ Calls(tag, of) /\ Alone(tag)

CudaInv ==
  /\ CudaTypeOK /\ Recorded
  /\ \E tag, of : Owned(tag, of)

LEMMA InKinds ==
  /\ \A k \in {"device", "reservation", "memory", "mipmap", "array", "library", "kernel", "function",
               "module", "host", "stream", "event", "semaphore"} : k \in Kinds
  /\ Plain \subseteq Kinds /\ Described \subseteq Kinds
  /\ "device" \notin Plain /\ "reservation" \notin Plain /\ "device" \notin Described
  /\ "module" \notin Described /\ "module" \in Plain
BY DEF Kinds, Plain, Described

\* The types of the tables, spelled out.
Typed ==
  /\ tables["device"] \subseteq Addresses /\ tables["reservation"] \subseteq Addresses
  /\ tables["memory"] \subseteq Addresses /\ tables["mipmap"] \subseteq Addresses
  /\ tables["array"] \subseteq Addresses /\ tables["library"] \subseteq Addresses
  /\ tables["kernel"] \subseteq Addresses /\ tables["function"] \subseteq Addresses
  /\ tables["module"] \subseteq Addresses /\ \A k \in Plain : tables[k] \subseteq Addresses
  /\ tables["reservation"] \subseteq DOMAIN fields /\ tables["memory"] \subseteq DOMAIN fields
  /\ tables["mipmap"] \subseteq DOMAIN fields /\ tables["array"] \subseteq DOMAIN fields
  /\ tables["library"] \subseteq DOMAIN fields /\ tables["kernel"] \subseteq DOMAIN fields
  /\ tables["function"] \subseteq DOMAIN fields
  /\ \A k, x : <<k, x>> \in held => x \in Addresses

LEMMA TypedTables == CudaTypeOK /\ Recorded => Typed
<1>1. CudaTypeOK => \A k \in Kinds : tables[k] \subseteq Addresses
  BY DEF CudaTypeOK
<1>2. Recorded => \A k \in Described : tables[k] \subseteq DOMAIN fields
  BY DEF Recorded
<1>3. CudaTypeOK => \A k, x : <<k, x>> \in held => x \in Addresses
  BY DEF CudaTypeOK
<1> QED BY <1>1, <1>2, <1>3, InKinds DEF Typed, Described

LEMMA CudaStart == CudaInit => CudaInv
<1> SUFFICES ASSUME CudaInit
             PROVE  CudaInv
  OBVIOUS
<1>1. CudaTypeOK /\ Recorded
  BY DEF CudaInit, CudaTypeOK, Recorded, EmptyTable, Kinds, Described
<1> DEFINE tag == [a \in Addresses |-> "nobody"]
           of == [a \in Addresses |-> "none"]
<1>2. Owned(tag, of)
  BY DEF CudaInit, Owned, Fresh, Objects, Devices, Reservations, ExternalMemories, Mipmaps,
     Kernels, Libraries, Handles, Calls, OneCall, Alone, Kinds, Plain
<1> HIDE DEF tag, of
<1> QED BY <1>1, <1>2 DEF CudaInv

\* Nothing follows from less: the three properties.
LEMMA CudaPromises == CudaInv => EntriesAlive /\ HandlesKnown /\ ReferencesAlive
<1> SUFFICES ASSUME CudaInv
             PROVE  EntriesAlive /\ HandlesKnown /\ ReferencesAlive
  OBVIOUS
<1>1. PICK tag, of : Owned(tag, of)
  BY DEF CudaInv
<1>2. \A k \in Kinds : \A a \in tables[k] : space[a] \in Backing(k, a)
  BY <1>1 DEF Owned, Objects, Devices, Reservations, Plain, Kinds, Backing
<1>3. \A j, k \in Kinds \ {"reservation"} : j # k => tables[j] \cap tables[k] = {}
  <2> SUFFICES ASSUME NEW j \in Kinds \ {"reservation"}, NEW k \in Kinds \ {"reservation"}, j # k,
                      NEW a, a \in tables[j], a \in tables[k]
               PROVE  FALSE
    OBVIOUS
  <2>1. \A i \in {j, k} : Tagged(i, tag[a]) \/ (i = "device" /\ tag[a] \in {"file", "page"})
    <3>1. ASSUME NEW i \in Plain, a \in tables[i]
          PROVE  Tagged(i, tag[a])
      BY <1>1, <3>1 DEF Owned, Objects
    <3>2. a \in tables["device"] => tag[a] \in {"device", "file", "page"}
      BY <1>1 DEF Owned, Devices
    <3> QED BY <3>1, <3>2 DEF Plain, Tagged
  <2> QED BY <2>1 DEF Tagged, Kinds
<1>4. external \subseteq tables["device"]
  BY <1>1 DEF Owned, Devices
<1>5. ASSUME NEW t \in Threads, calls[t].op = "free", NEW a \in calls[t].at
      PROVE  space[a] \in {"heap", "reserved"} /\ \A k \in Kinds : a \notin tables[k]
  <2>1. tag[a] = "call" /\ space[a] \in {"heap", "reserved"}
    BY <1>1, <1>5 DEF Owned, Calls, OneCall, MadeBy, Idle
  <2>2. \A k \in Plain : a \notin tables[k]
    BY <1>1, <2>1 DEF Owned, Objects, Tagged, Plain, Kinds
  <2>3. a \notin tables["device"]
    BY <1>1, <2>1 DEF Owned, Devices
  <2>4. a \notin tables["reservation"]
    BY <1>1, <2>1 DEF Owned, Reservations
  <2> QED BY <2>1, <2>2, <2>3, <2>4 DEF Plain
<1>6. EntriesAlive
  BY <1>2, <1>3, <1>4, <1>5 DEF EntriesAlive
<1>7. HandlesKnown
  <2> SUFFICES ASSUME NEW h \in held
               PROVE  h[2] \in tables[KindOf(h)]
    BY DEF HandlesKnown
  <2>1. h = <<h[1], h[2]>>
    BY DEF CudaInv, CudaTypeOK
  <2>2. <<h[1], h[2]>> \in held
    BY <2>1
  <2> QED BY <1>1, <2>2 DEF Owned, Handles, KindOf
<1>8. ReferencesAlive
  BY <1>1 DEF Owned, Mipmaps, Kernels, Libraries, ReferencesAlive
<1> QED BY <1>6, <1>7, <1>8

\* A thread's own addresses as they were, its call as it was.
LEMMA CallKept ==
  ASSUME NEW tag, NEW of, NEW g, NEW o, NEW u, OneCall(tag, of, u), calls'[u] = calls[u],
         Typed,
         \A x \in Addresses : tag[x] = "call" /\ of[x] = u =>
           g[x] = "call" /\ o[x] = u /\ space'[x] = space[x],
         \A x \in tables["module"] : tag[x] = "maker" /\ of[x] = u =>
           x \in tables'["module"] /\ g[x] = "maker" /\ o[x] = u,
         \A x : Busy(u, x) /\ Mapping(tag, of, x) => Mapping(g, o, x)'
  PROVE  OneCall(g, o, u)'
<1>1. CASE calls[u] = Idle
  BY <1>1 DEF OneCall, Idle
<1>2. CASE calls[u].op = "insert" /\ Inserting(tag, of, u)
  <2>1. \A x, w : MadeBy(tag, of, u, x, w) => MadeBy(g, o, u, x, w)'
    BY DEF MadeBy
  <2>2. Busy(u, calls[u].at)
    BY <1>2 DEF Busy
  <2>3. Inserting(g, o, u)'
    <3> DEFINE c == calls[u]
    <3>1. CASE /\ c.as = c.kind \/ (c.as = "librarymodule" /\ c.kind = "module")
               /\ c.kind \in Kinds \ Described /\ DOMAIN c.fields = {}
               /\ MadeBy(tag, of, u, c.at, "heap")
      BY <2>1, <3>1 DEF Inserting
    <3>2. CASE /\ c.as = "array" /\ c.kind = "array" /\ c.fields = [mipmap |-> Nowhere]
               /\ MadeBy(tag, of, u, c.at, "heap")
      BY <2>1, <3>2 DEF Inserting
    <3>3. CASE /\ c.as = "mapped" /\ c.kind = "device" /\ DOMAIN c.fields = {}
               /\ Mapping(tag, of, c.at)
      BY <2>2, <3>3 DEF Inserting
    <3>4. CASE /\ c.as = "reservation" /\ c.kind = "reservation"
               /\ \E pages \in SUBSET Addresses :
                    /\ c.fields = [pages |-> pages] /\ c.at \in pages
                    /\ \A a \in pages : MadeBy(tag, of, u, a, "reserved")
      BY <2>1, <3>4 DEF Inserting
    <3>5. CASE /\ c.as = "memory" /\ c.kind = "memory" /\ MadeBy(tag, of, u, c.at, "heap")
               /\ \E mapping \in Addresses :
                    /\ c.fields = [mapping |-> mapping] /\ c.at # mapping
                    /\ MadeBy(tag, of, u, mapping, "file")
      BY <2>1, <3>5 DEF Inserting
    <3>6. CASE /\ c.as = "library" /\ c.kind = "library" /\ MadeBy(tag, of, u, c.at, "heap")
               /\ \E m \in tables["module"] :
                    c.fields = [module |-> m] /\ tag[m] = "maker" /\ of[m] = u
      BY <2>1, <3>6 DEF Inserting
    <3> QED BY <1>2, <3>1, <3>2, <3>3, <3>4, <3>5, <3>6 DEF Inserting
  <2> QED BY <1>2, <2>3 DEF OneCall
<1>3. CASE /\ calls[u].op = "free"
           /\ \A a \in calls[u].at :
                MadeBy(tag, of, u, a, "heap") \/ MadeBy(tag, of, u, a, "reserved")
  BY <1>3 DEF OneCall, MadeBy
<1>4. CASE calls[u].op = "reserve" /\ \E a \in Addresses : calls[u].at = {a} /\ Mapping(tag, of, a)
  <2>1. PICK a \in Addresses : calls[u].at = {a} /\ Mapping(tag, of, a)
    BY <1>4
  <2>2. Busy(u, a)
    BY <1>4, <2>1 DEF Busy
  <2>3. Mapping(g, o, a)'
    BY <2>1, <2>2
  <2> QED BY <1>4, <2>1, <2>3 DEF OneCall
<1>5. CASE /\ calls[u].op = "library" /\ calls[u].at \in tables["module"]
           /\ tag[calls[u].at] = "maker" /\ of[calls[u].at] = u
  BY <1>5 DEF OneCall
<1> QED BY <1>2, <1>3, <1>4 DEF OneCall

\* The tags of the tables' entries, spelled out.
Marked(tag) ==
  /\ \A x \in tables["reservation"] : tag[x] = "page"
  /\ \A x \in tables["device"] : tag[x] \in {"device", "file", "page"}
  /\ \A x \in tables["memory"] : tag[x] = "memory"
  /\ \A x \in tables["mipmap"] : tag[x] = "mipmap"
  /\ \A x \in tables["array"] : tag[x] = "array"
  /\ \A x \in tables["library"] : tag[x] = "library"
  /\ \A x \in tables["kernel"] : tag[x] = "kernel"
  /\ \A x \in tables["function"] : tag[x] \in {"function", "code"}
  /\ \A x \in tables["module"] : tag[x] \in {"module", "inner", "maker"}
  /\ \A k, x : <<k, x>> \in held => tag[x] \notin {"call", "nobody", "maker"}

LEMMA TagsOf == ASSUME NEW tag, NEW of, Owned(tag, of) PROVE Marked(tag)
<1>1. \A k \in Plain : \A a \in tables[k] : Tagged(k, tag[a])
  BY DEF Owned, Objects
<1>2. \A x \in tables["reservation"] : tag[x] = "page"
  BY DEF Owned, Reservations
<1>3. \A x \in tables["device"] : tag[x] \in {"device", "file", "page"}
  BY DEF Owned, Devices
<1>4. \A k \in Plain : \A x \in tables[k] : tag[x] \notin {"call", "nobody"} /\ (tag[x] = "maker" => k = "module")
  BY <1>1 DEF Tagged, Plain, Kinds
<1>5. ASSUME NEW k, NEW x, <<k, x>> \in held
      PROVE  tag[x] \notin {"call", "nobody", "maker"}
  <2>1. CASE k \in {"mapped", "inner"}
    BY <1>5, <2>1 DEF Owned, Handles
  <2>2. CASE k \notin {"mapped", "inner"}
    <3>1. k \in Kinds /\ x \in tables[k] /\ (k = "module" => tag[x] = "module")
      BY <1>5, <2>2 DEF Owned, Handles
    <3> QED BY <1>2, <1>3, <1>4, <3>1 DEF Plain
  <2> QED BY <2>1, <2>2
<1>6. /\ \A k \in {"memory", "mipmap", "array", "library", "kernel"} : \A x \in tables[k] : tag[x] = k
      /\ \A x \in tables["function"] : tag[x] \in {"function", "code"}
      /\ \A x \in tables["module"] : tag[x] \in {"module", "inner", "maker"}
  BY <1>1, InKinds DEF Tagged, Plain
<1> QED BY <1>2, <1>3, <1>5, <1>6 DEF Marked

\* A call works on an address it has made, or on a page.
LEMMA BusyAt ==
  ASSUME NEW tag, NEW of, Owned(tag, of), NEW u \in Threads, NEW x, Busy(u, x)
  PROVE  (tag[x] = "call" /\ of[x] = u) \/ Mapping(tag, of, x)
<1>1. OneCall(tag, of, u)
  BY DEF Owned, Calls
<1>2. CASE calls[u].op = "insert"
  <2>1. Inserting(tag, of, u) /\ calls[u].at = x
    BY <1>1, <1>2 DEF OneCall, Busy, Idle
  <2> QED BY <2>1 DEF Inserting, MadeBy
<1>3. CASE calls[u].op = "reserve"
  BY <1>1, <1>3 DEF OneCall, Busy, Idle
<1> QED BY <1>2, <1>3 DEF Busy

----------------------------------------------------------------------------
(* The calls.                                                              *)

\* A call begins with fresh addresses D of its own.
LEMMA Begun ==
  ASSUME CudaTypeOK, Recorded, NEW tag, NEW of, Owned(tag, of), NEW g, NEW o,
         NEW t \in Threads, NEW D \in SUBSET Addresses,
         \A x \in D : space[x] = "free" /\ space'[x] # "free" /\ g[x] = "call" /\ o[x] = t,
         \A x \in Addresses \ D : space'[x] = space[x] /\ g[x] = tag[x] /\ o[x] = of[x],
         CudaTypeOK', UNCHANGED <<tables, external, fields, held>>,
         \A u \in Threads \ {t} : calls'[u] = calls[u],
         \A x : ~Busy(t, x) /\ (Busy(t, x)' => x \in D),
         OneCall(g, o, t)'
  PROVE  CudaInv'
<1>1. Typed
  BY TypedTables
<1>2. Marked(tag)
  BY TagsOf
<1>3. \A x \in D : tag[x] = "nobody"
  BY DEF Owned, Fresh
<1>4. \A u \in Threads \ {t} : \A x : Busy(u, x)' <=> Busy(u, x)
  BY DEF Busy
<1>20. CudaTypeOK'
  OBVIOUS
<1>21. Recorded'
  BY DEF Recorded
<1>22. Fresh(g)'
  BY DEF Owned, Fresh
<1>23. Objects(g)'
  BY <1>1 DEF Owned, Typed, Objects
<1>24. Devices(g, o)'
  BY <1>1 DEF Owned, Typed, Devices
<1>25. Reservations(g, o)'
  BY <1>4 DEF Owned, Reservations
<1>26. ExternalMemories(g, o)'
  BY DEF Owned, ExternalMemories
<1>27. Mipmaps'
  BY DEF Owned, Mipmaps
<1>28. Kernels(g, o)'
  BY <1>1, <1>3 DEF Owned, Typed, Kernels
<1>29. Libraries(g, o)'
  BY <1>1, <1>3 DEF Owned, Typed, Libraries
<1>30. Handles(g)'
  BY <1>1, <1>3 DEF Owned, Typed, Handles
<1>31. Calls(g, o)'
  <2> SUFFICES ASSUME NEW u \in Threads
               PROVE  OneCall(g, o, u)'
    BY DEF Calls
  <2>1. OneCall(tag, of, u)
    BY DEF Owned, Calls
  <2>2. CASE u = t
    BY <2>2
  <2>3. CASE u # t
    <3>4. \A x \in Addresses : tag[x] = "call" /\ of[x] = u =>
            g[x] = "call" /\ o[x] = u /\ space'[x] = space[x]
      BY <1>3
    <3>5. \A x \in tables["module"] : tag[x] = "maker" /\ of[x] = u =>
            x \in tables'["module"] /\ g[x] = "maker" /\ o[x] = u
      BY <1>1, <1>3 DEF Typed
    <3>6. \A x : Busy(u, x) /\ Mapping(tag, of, x) => Mapping(g, o, x)'
      BY DEF Mapping
    <3> QED BY <1>1, <2>1, <3>4, <3>5, <3>6, CallKept
  <2> QED BY <2>2, <2>3
<1>32. Alone(g)'
  BY <1>4 DEF Owned, Alone
<1> QED BY <1>21, <1>22, <1>23, <1>24, <1>25, <1>26, <1>27, <1>28, <1>29, <1>30, <1>31,
   <1>32 DEF CudaInv, Owned

\* A constructor allocates its object.
LEMMA NewKept ==
  ASSUME CudaInv, NEW t \in Threads, NEW a \in Addresses, NEW k, NEW value,
         New(t, k, a, value),
         (k \in Kinds \ Described /\ DOMAIN value = {}) \/ (k = "array" /\ value = [mipmap |-> Nowhere])
  PROVE  CudaInv'
<1>1. PICK tag, of : Owned(tag, of)
  BY DEF CudaInv
<1>2. PICK g, o : /\ g = [x \in Addresses |-> IF x \in {a} THEN "call" ELSE tag[x]]
                   /\ o = [x \in Addresses |-> IF x \in {a} THEN t ELSE of[x]]
  OBVIOUS
<1> DEFINE D == {a}
<1>3. CudaTypeOK /\ Recorded /\ D \subseteq Addresses
  BY DEF CudaInv, New, Vacant
<1>4. \A x \in D : space[x] = "free" /\ g[x] = "call" /\ o[x] = t
  BY <1>2, <1>3 DEF New, Vacant
<1>5. \A x \in Addresses \ D : space'[x] = space[x] /\ g[x] = tag[x] /\ o[x] = of[x]
  BY <1>2 DEF New, At
<1>6. space' \in [Addresses -> {"free", "heap", "reserved", "mapped", "file"}] /\ space'[a] = "heap"
  BY <1>3 DEF New, At, CudaTypeOK
<1>7. UNCHANGED <<tables, external, fields, held>>
  BY DEF New, Vacant
<1>8. /\ calls[t] = Idle /\ calls'[t].op = "insert" /\ calls'[t].kind = k
      /\ calls'[t].as = k /\ calls'[t].at = a /\ calls'[t].fields = value
      /\ DOMAIN calls' = Threads /\ \A u \in Threads \ {t} : calls'[u] = calls[u]
  BY <1>3 DEF New, Then, Insertion, CudaTypeOK
<1>9. \A x \in D : space'[x] # "free"
  BY <1>3, <1>6
<1>10. CudaTypeOK'
  BY <1>3, <1>8 DEF New, CudaTypeOK, At
<1>11. \A x : ~Busy(t, x) /\ (Busy(t, x)' => x \in D)
  BY <1>6, <1>8 DEF Busy, Idle
<1>12. OneCall(g, o, t)'
  <2>1. MadeBy(g, o, t, a, "heap")'
    BY <1>4, <1>6 DEF MadeBy
  <2>2. CASE k \in Kinds \ Described /\ DOMAIN value = {}
    BY <1>8, <2>1 DEF OneCall, Inserting
  <2>3. CASE k = "array" /\ value = [mipmap |-> Nowhere]
    BY <1>8, <2>1 DEF OneCall, Inserting
  <2> QED BY <2>2, <2>3
<1> HIDE DEF D
<1> QED BY <1>1, <1>3, <1>4, <1>5, <1>7, <1>8, <1>9, <1>10, <1>11, <1>12, Begun

\* A range of addresses is reserved.
LEMMA AddressReserveKept ==
  ASSUME CudaInv, NEW t \in Threads, NEW base \in Addresses, NEW pages \in SUBSET Addresses,
         AddressReserve(t, base, pages)
  PROVE  CudaInv'
<1>1. PICK tag, of : Owned(tag, of)
  BY DEF CudaInv
<1>2. PICK g, o : /\ g = [x \in Addresses |-> IF x \in pages THEN "call" ELSE tag[x]]
                   /\ o = [x \in Addresses |-> IF x \in pages THEN t ELSE of[x]]
  OBVIOUS
<1> DEFINE D == pages
<1>3. CudaTypeOK /\ Recorded /\ D \subseteq Addresses
  BY DEF CudaInv, AddressReserve, Vacant
<1>4. \A x \in D : space[x] = "free" /\ g[x] = "call" /\ o[x] = t
  BY <1>2, <1>3 DEF AddressReserve, Vacant
<1>5. \A x \in Addresses \ D : space'[x] = space[x] /\ g[x] = tag[x] /\ o[x] = of[x]
  BY <1>2 DEF AddressReserve, At
<1>6. /\ space' \in [Addresses -> {"free", "heap", "reserved", "mapped", "file"}]
      /\ base \in pages /\ \A x \in pages : space'[x] = "reserved"
  BY <1>3 DEF AddressReserve, At, CudaTypeOK
<1>7. UNCHANGED <<tables, external, fields, held>>
  BY DEF AddressReserve, Vacant
<1>8. /\ calls[t] = Idle /\ calls'[t].op = "insert" /\ calls'[t].kind = "reservation"
      /\ calls'[t].as = "reservation" /\ calls'[t].at = base /\ calls'[t].fields = [pages |-> pages]
      /\ DOMAIN calls' = Threads /\ \A u \in Threads \ {t} : calls'[u] = calls[u]
  BY <1>3 DEF AddressReserve, Then, Insertion, CudaTypeOK
<1>9. \A x \in D : space'[x] # "free"
  BY <1>3, <1>6
<1>10. CudaTypeOK'
  BY <1>3, <1>8 DEF AddressReserve, CudaTypeOK, At
<1>11. \A x : ~Busy(t, x) /\ (Busy(t, x)' => x \in D)
  BY <1>6, <1>8 DEF Busy, Idle
<1>12. OneCall(g, o, t)'
  <2>1. \A x \in pages : MadeBy(g, o, t, x, "reserved")'
    BY <1>4, <1>6 DEF MadeBy
  <2> QED BY <1>6, <1>8, <2>1 DEF OneCall, Inserting
<1> HIDE DEF D
<1> QED BY <1>1, <1>3, <1>4, <1>5, <1>7, <1>8, <1>9, <1>10, <1>11, <1>12, Begun

\* An external memory's file is mapped, and its object allocated.
LEMMA ImportExternalMemoryKept ==
  ASSUME CudaInv, NEW t \in Threads, NEW m \in Addresses, NEW mapping \in Addresses,
         ImportExternalMemory(t, m, mapping)
  PROVE  CudaInv'
<1>1. PICK tag, of : Owned(tag, of)
  BY DEF CudaInv
<1>2. PICK g, o : /\ g = [x \in Addresses |-> IF x \in {m, mapping} THEN "call" ELSE tag[x]]
                   /\ o = [x \in Addresses |-> IF x \in {m, mapping} THEN t ELSE of[x]]
  OBVIOUS
<1> DEFINE D == {m, mapping}
<1>3. CudaTypeOK /\ Recorded /\ D \subseteq Addresses
  BY DEF CudaInv, ImportExternalMemory, Vacant
<1>4. \A x \in D : space[x] = "free" /\ g[x] = "call" /\ o[x] = t
  BY <1>2, <1>3 DEF ImportExternalMemory, Vacant
<1>5. \A x \in Addresses \ D : space'[x] = space[x] /\ g[x] = tag[x] /\ o[x] = of[x]
  BY <1>2, <1>3 DEF ImportExternalMemory, CudaTypeOK
<1>6. /\ space' \in [Addresses -> {"free", "heap", "reserved", "mapped", "file"}]
      /\ m # mapping /\ space'[m] = "heap" /\ space'[mapping] = "file"
  BY <1>3 DEF ImportExternalMemory, CudaTypeOK
<1>7. UNCHANGED <<tables, external, fields, held>>
  BY DEF ImportExternalMemory, Vacant
<1>8. /\ calls[t] = Idle /\ calls'[t].op = "insert" /\ calls'[t].kind = "memory"
      /\ calls'[t].as = "memory" /\ calls'[t].at = m /\ calls'[t].fields = [mapping |-> mapping]
      /\ DOMAIN calls' = Threads /\ \A u \in Threads \ {t} : calls'[u] = calls[u]
  BY <1>3 DEF ImportExternalMemory, Then, Insertion, CudaTypeOK
<1>9. \A x \in D : space'[x] # "free"
  BY <1>3, <1>6
<1>10. CudaTypeOK'
  BY <1>3, <1>8 DEF ImportExternalMemory, CudaTypeOK
<1>11. \A x : ~Busy(t, x) /\ (Busy(t, x)' => x \in D)
  BY <1>6, <1>8 DEF Busy, Idle
<1>12. OneCall(g, o, t)'
  <2>1. MadeBy(g, o, t, m, "heap")' /\ MadeBy(g, o, t, mapping, "file")'
    BY <1>4, <1>6 DEF MadeBy
  <2> QED BY <1>6, <1>8, <2>1 DEF OneCall, Inserting
<1> HIDE DEF D
<1> QED BY <1>1, <1>3, <1>4, <1>5, <1>7, <1>8, <1>9, <1>10, <1>11, <1>12, Begun

\* A library's own module is allocated.
LEMMA LibraryLoadKept ==
  ASSUME CudaInv, NEW t \in Threads, NEW m \in Addresses,
         LibraryLoad(t, m)
  PROVE  CudaInv'
<1>1. PICK tag, of : Owned(tag, of)
  BY DEF CudaInv
<1>2. PICK g, o : /\ g = [x \in Addresses |-> IF x \in {m} THEN "call" ELSE tag[x]]
                   /\ o = [x \in Addresses |-> IF x \in {m} THEN t ELSE of[x]]
  OBVIOUS
<1> DEFINE D == {m}
<1>3. CudaTypeOK /\ Recorded /\ D \subseteq Addresses
  BY DEF CudaInv, LibraryLoad, Vacant
<1>4. \A x \in D : space[x] = "free" /\ g[x] = "call" /\ o[x] = t
  BY <1>2, <1>3 DEF LibraryLoad, Vacant
<1>5. \A x \in Addresses \ D : space'[x] = space[x] /\ g[x] = tag[x] /\ o[x] = of[x]
  BY <1>2 DEF LibraryLoad, At
<1>6. space' \in [Addresses -> {"free", "heap", "reserved", "mapped", "file"}] /\ space'[m] = "heap"
  BY <1>3 DEF LibraryLoad, At, CudaTypeOK
<1>7. UNCHANGED <<tables, external, fields, held>>
  BY DEF LibraryLoad, Vacant
<1>8. /\ calls[t] = Idle /\ calls'[t].op = "insert" /\ calls'[t].kind = "module"
      /\ calls'[t].as = "librarymodule" /\ calls'[t].at = m /\ calls'[t].fields = EmptyTable
      /\ DOMAIN calls' = Threads /\ \A u \in Threads \ {t} : calls'[u] = calls[u]
  BY <1>3 DEF LibraryLoad, Then, Insertion, CudaTypeOK
<1>9. \A x \in D : space'[x] # "free"
  BY <1>3, <1>6
<1>10. CudaTypeOK'
  BY <1>3, <1>8 DEF LibraryLoad, CudaTypeOK, At
<1>11. \A x : ~Busy(t, x) /\ (Busy(t, x)' => x \in D)
  BY <1>6, <1>8 DEF Busy, Idle
<1>12. OneCall(g, o, t)'
  <2>1. MadeBy(g, o, t, m, "heap")'
    BY <1>4, <1>6 DEF MadeBy
  <2>2. "module" \in Kinds \ Described /\ DOMAIN EmptyTable = {}
    BY InKinds DEF EmptyTable
  <2> QED BY <1>8, <2>1, <2>2 DEF OneCall, Inserting
<1> HIDE DEF D
<1> QED BY <1>1, <1>3, <1>4, <1>5, <1>7, <1>8, <1>9, <1>10, <1>11, <1>12, Begun

\* The library itself is allocated.
LEMMA LibraryAllocateKept ==
  ASSUME CudaInv, NEW t \in Threads, NEW a \in Addresses,
         LibraryAllocate(t, a)
  PROVE  CudaInv'
<1>1. PICK tag, of : Owned(tag, of)
  BY DEF CudaInv
<1>2. PICK g, o : /\ g = [x \in Addresses |-> IF x \in {a} THEN "call" ELSE tag[x]]
                   /\ o = [x \in Addresses |-> IF x \in {a} THEN t ELSE of[x]]
  OBVIOUS
<1> DEFINE D == {a}
<1>3. CudaTypeOK /\ Recorded /\ D \subseteq Addresses
  BY DEF CudaInv, LibraryAllocate, Vacant
<1>4. \A x \in D : space[x] = "free" /\ g[x] = "call" /\ o[x] = t
  BY <1>2, <1>3 DEF LibraryAllocate, Vacant
<1>5. \A x \in Addresses \ D : space'[x] = space[x] /\ g[x] = tag[x] /\ o[x] = of[x]
  BY <1>2 DEF LibraryAllocate, At
<1>6. space' \in [Addresses -> {"free", "heap", "reserved", "mapped", "file"}] /\ space'[a] = "heap"
  BY <1>3 DEF LibraryAllocate, At, CudaTypeOK
<1>7. UNCHANGED <<tables, external, fields, held>>
  BY DEF LibraryAllocate, Vacant
<1>8. /\ calls[t].op = "library" /\ calls'[t].op = "insert" /\ calls'[t].kind = "library"
      /\ calls'[t].as = "library" /\ calls'[t].at = a /\ calls'[t].fields = [module |-> calls[t].at]
      /\ DOMAIN calls' = Threads /\ \A u \in Threads \ {t} : calls'[u] = calls[u]
  BY <1>3 DEF LibraryAllocate, Insertion, CudaTypeOK
<1>9. \A x \in D : space'[x] # "free"
  BY <1>3, <1>6
<1>10. CudaTypeOK'
  BY <1>3 DEF LibraryAllocate, CudaTypeOK, At
<1>11. \A x : ~Busy(t, x) /\ (Busy(t, x)' => x \in D)
  BY <1>6, <1>8 DEF Busy, Idle
<1>12. OneCall(g, o, t)'
  <2>1. MadeBy(g, o, t, a, "heap")'
    BY <1>4, <1>6 DEF MadeBy
  <2>2. calls[t].at \in tables["module"] /\ tag[calls[t].at] = "maker" /\ of[calls[t].at] = t
    BY <1>1, <1>8 DEF Owned, Calls, OneCall, Idle
  <2>3. calls[t].at \in Addresses /\ calls[t].at # a
    BY <1>1, <1>3, <1>4, <2>2, TypedTables DEF Typed, Owned, Fresh
  <2>4. calls[t].at \in tables'["module"] /\ g[calls[t].at] = "maker" /\ o[calls[t].at] = t
    BY <1>5, <1>7, <2>2, <2>3
  <2> QED BY <1>8, <2>1, <2>4 DEF OneCall, Inserting
<1> HIDE DEF D
<1> QED BY <1>1, <1>3, <1>4, <1>5, <1>7, <1>8, <1>9, <1>10, <1>11, <1>12, Begun

\* A handle that is only a handle enters its set.
LEMMA InsertHandle ==
  ASSUME CudaTypeOK, Recorded, NEW tag, NEW of, Owned(tag, of), NEW g, NEW o,
         NEW t \in Threads, NEW a \in Addresses, NEW k \in Plain,
         k \in {"host", "stream", "event", "semaphore"},
         calls[t].op = "insert", calls[t].at = a, MadeBy(tag, of, t, a, "heap"),
         calls'[t] = Idle, \A u \in Threads \ {t} : calls'[u] = calls[u],
         tables'[k] = tables[k] \cup {a}, \A j \in Kinds : j # k => tables'[j] = tables[j],
         UNCHANGED <<space, external, fields>>,
         held' = held \cup {<<k, a>>},
         CudaTypeOK',
         g[a] = k, \A x \in Addresses \ {a} : g[x] = tag[x] /\ o[x] = of[x]
  PROVE  CudaInv'
<1>1. Typed
  BY TypedTables
<1>2. Marked(tag)
  BY TagsOf
<1>3. /\ tables'["reservation"] = tables["reservation"] /\ tables'["device"] = tables["device"]
      /\ tables'["memory"] = tables["memory"] /\ tables'["mipmap"] = tables["mipmap"]
      /\ tables'["array"] = tables["array"] /\ tables'["library"] = tables["library"]
      /\ tables'["kernel"] = tables["kernel"] /\ tables'["function"] = tables["function"]
      /\ tables'["module"] = tables["module"]
      /\ \A j \in Plain : j # k => tables'[j] = tables[j]
  BY InKinds
<1>4. \A u \in Threads : \A x : x # a => (Busy(u, x)' <=> Busy(u, x))
  BY DEF Busy, Idle
<1>5. a # Nowhere
  BY CudaAssumption DEF Nowhere
<1>20. CudaTypeOK'
  OBVIOUS
<1>21. Recorded'
  BY <1>3 DEF Recorded, Described
<1>22. Fresh(g)'
  BY DEF Owned, Fresh, MadeBy
<1>23. Objects(g)'
  BY <1>1 DEF Owned, Typed, Objects, Tagged, Plain, Kinds, MadeBy
<1>24. Devices(g, o)'
  BY <1>1, <1>3 DEF Owned, Typed, Devices, MadeBy
<1>25. Reservations(g, o)'
  BY <1>3, <1>4 DEF Owned, Reservations, MadeBy
<1>26. ExternalMemories(g, o)'
  BY <1>3 DEF Owned, ExternalMemories, MadeBy
<1>27. Mipmaps'
  BY <1>3 DEF Owned, Mipmaps
<1>28. Kernels(g, o)'
  BY <1>1, <1>3 DEF Owned, Typed, Kernels, MadeBy
<1>29. Libraries(g, o)'
  BY <1>1, <1>3 DEF Owned, Typed, Libraries, MadeBy
<1>30. Handles(g)'
  <2> SUFFICES ASSUME NEW j, NEW x, <<j, x>> \in held'
               PROVE  IF j = "mapped" THEN x \in tables'["device"] /\ g[x] = "page"
                      ELSE IF j = "inner" THEN x \in tables'["module"] /\ g[x] = "inner"
                      ELSE /\ j \in Kinds /\ x \in tables'[j]
                           /\ j = "device" => g[x] = "device" \/ g[x] = "file"
                           /\ j = "module" => g[x] = "module"
    BY DEF Handles
  <2>1. CASE <<j, x>> \in held
    <3>1. x # a
      BY <1>2, <2>1 DEF Marked, MadeBy
    <3>2. x \in Addresses
      BY <1>1, <2>1 DEF Typed
    <3>3. \A i \in Kinds : tables[i] \subseteq tables'[i]
      OBVIOUS
    <3>4. g[x] = tag[x]
      BY <3>1, <3>2
    <3> QED BY <2>1, <3>3, <3>4, InKinds DEF Owned, Handles
  <2>2. CASE <<j, x>> \notin held
    <3>1. j = k /\ x = a
      BY <2>2
    <3> QED BY <3>1, InKinds
  <2> QED BY <2>1, <2>2
<1>31. Calls(g, o)'
  <2> SUFFICES ASSUME NEW u \in Threads
               PROVE  OneCall(g, o, u)'
    BY DEF Calls
  <2>1. OneCall(tag, of, u)
    BY DEF Owned, Calls
  <2>2. CASE u = t
    BY <2>2 DEF OneCall
  <2>3. CASE u # t
    <3>4. \A x \in Addresses : tag[x] = "call" /\ of[x] = u =>
            g[x] = "call" /\ o[x] = u /\ space'[x] = space[x]
      BY <2>3 DEF MadeBy
    <3>5. \A x \in tables["module"] : tag[x] = "maker" /\ of[x] = u =>
            x \in tables'["module"] /\ g[x] = "maker" /\ o[x] = u
      BY <1>1, <1>3 DEF Typed, MadeBy
    <3>6. \A x : Busy(u, x) /\ Mapping(tag, of, x) => Mapping(g, o, x)'
      BY <1>3 DEF Mapping, MadeBy
    <3> QED BY <1>1, <2>1, <2>3, <3>4, <3>5, <3>6, CallKept
  <2> QED BY <2>2, <2>3
<1>32. Alone(g)'
  BY <1>4 DEF Owned, Alone
<1> QED BY <1>21, <1>22, <1>23, <1>24, <1>25, <1>26, <1>27, <1>28, <1>29, <1>30, <1>31,
   <1>32 DEF CudaInv, Owned

\* An allocation enters the set of device pointers.
LEMMA InsertDevice ==
  ASSUME CudaTypeOK, Recorded, NEW tag, NEW of, Owned(tag, of), NEW g, NEW o,
         NEW t \in Threads, NEW a \in Addresses,
         calls[t].op = "insert", calls[t].at = a, MadeBy(tag, of, t, a, "heap"),
         calls'[t] = Idle, \A u \in Threads \ {t} : calls'[u] = calls[u],
         tables'["device"] = tables["device"] \cup {a}, \A j \in Kinds : j # "device" => tables'[j] = tables[j],
         UNCHANGED <<space, external, fields>>,
         held' = held \cup {<<"device", a>>},
         CudaTypeOK',
         g[a] = "device", \A x \in Addresses \ {a} : g[x] = tag[x] /\ o[x] = of[x]
  PROVE  CudaInv'
<1>1. Typed
  BY TypedTables
<1>2. Marked(tag)
  BY TagsOf
<1>3. /\ tables'["reservation"] = tables["reservation"] /\ tables'["memory"] = tables["memory"]
      /\ tables'["mipmap"] = tables["mipmap"] /\ tables'["array"] = tables["array"]
      /\ tables'["library"] = tables["library"] /\ tables'["kernel"] = tables["kernel"]
      /\ tables'["function"] = tables["function"] /\ tables'["module"] = tables["module"]
      /\ \A j \in Plain : j # "device" => tables'[j] = tables[j]
  BY InKinds
<1>4. \A u \in Threads : \A x : x # a => (Busy(u, x)' <=> Busy(u, x))
  BY DEF Busy, Idle
<1>5. a # Nowhere
  BY CudaAssumption DEF Nowhere
<1>20. CudaTypeOK'
  OBVIOUS
<1>21. Recorded'
  BY <1>3 DEF Recorded, Described
<1>22. Fresh(g)'
  BY DEF Owned, Fresh, MadeBy
<1>23. Objects(g)'
  BY <1>1 DEF Owned, Typed, Objects, Tagged, Plain, Kinds, MadeBy
<1>24. Devices(g, o)'
  BY <1>1, <1>3 DEF Owned, Typed, Devices, MadeBy
<1>25. Reservations(g, o)'
  BY <1>3, <1>4 DEF Owned, Reservations, MadeBy
<1>26. ExternalMemories(g, o)'
  BY <1>3 DEF Owned, ExternalMemories, MadeBy
<1>27. Mipmaps'
  BY <1>3 DEF Owned, Mipmaps
<1>28. Kernels(g, o)'
  BY <1>1, <1>3 DEF Owned, Typed, Kernels, MadeBy
<1>29. Libraries(g, o)'
  BY <1>1, <1>3 DEF Owned, Typed, Libraries, MadeBy
<1>30. Handles(g)'
  <2> SUFFICES ASSUME NEW j, NEW x, <<j, x>> \in held'
               PROVE  IF j = "mapped" THEN x \in tables'["device"] /\ g[x] = "page"
                      ELSE IF j = "inner" THEN x \in tables'["module"] /\ g[x] = "inner"
                      ELSE /\ j \in Kinds /\ x \in tables'[j]
                           /\ j = "device" => g[x] = "device" \/ g[x] = "file"
                           /\ j = "module" => g[x] = "module"
    BY DEF Handles
  <2>1. CASE <<j, x>> \in held
    <3>1. x # a
      BY <1>2, <2>1 DEF Marked, MadeBy
    <3>2. x \in Addresses
      BY <1>1, <2>1 DEF Typed
    <3>3. \A i \in Kinds : tables[i] \subseteq tables'[i]
      OBVIOUS
    <3>4. g[x] = tag[x]
      BY <3>1, <3>2
    <3> QED BY <3>4, InKinds DEF Owned, Handles
  <2>2. CASE <<j, x>> \notin held
    <3>1. j = "device" /\ x = a
      BY <2>2
    <3> QED BY <3>1, InKinds
  <2> QED BY <2>1, <2>2
<1>31. Calls(g, o)'
  <2> SUFFICES ASSUME NEW u \in Threads
               PROVE  OneCall(g, o, u)'
    BY DEF Calls
  <2>1. OneCall(tag, of, u)
    BY DEF Owned, Calls
  <2>2. CASE u = t
    BY <2>2 DEF OneCall
  <2>3. CASE u # t
    <3>4. \A x \in Addresses : tag[x] = "call" /\ of[x] = u =>
            g[x] = "call" /\ o[x] = u /\ space'[x] = space[x]
      BY <2>3 DEF MadeBy
    <3>5. \A x \in tables["module"] : tag[x] = "maker" /\ of[x] = u =>
            x \in tables'["module"] /\ g[x] = "maker" /\ o[x] = u
      BY <1>1, <1>3 DEF Typed, MadeBy
    <3>6. \A x : Busy(u, x) /\ Mapping(tag, of, x) => Mapping(g, o, x)'
      BY <1>3 DEF Mapping, MadeBy
    <3> QED BY <1>1, <2>1, <2>3, <3>4, <3>5, <3>6, CallKept
  <2> QED BY <2>2, <2>3
<1>32. Alone(g)'
  BY <1>4 DEF Owned, Alone
<1> QED BY <1>21, <1>22, <1>23, <1>24, <1>25, <1>26, <1>27, <1>28, <1>29, <1>30, <1>31,
   <1>32 DEF CudaInv, Owned

\* A module enters its set, to be given out or for a library.
LEMMA InsertModule ==
  ASSUME CudaTypeOK, Recorded, NEW tag, NEW of, Owned(tag, of), NEW g, NEW o,
         NEW t \in Threads, NEW a \in Addresses,
         calls[t].op = "insert", calls[t].at = a, MadeBy(tag, of, t, a, "heap"),
         calls'[t] = Idle, \A u \in Threads \ {t} : calls'[u] = calls[u],
         tables'["module"] = tables["module"] \cup {a}, \A j \in Kinds : j # "module" => tables'[j] = tables[j],
         UNCHANGED <<space, external, fields>>,
         held' = held \cup {<<"module", a>>},
         CudaTypeOK',
         g[a] = "module", \A x \in Addresses \ {a} : g[x] = tag[x] /\ o[x] = of[x]
  PROVE  CudaInv'
<1>1. Typed
  BY TypedTables
<1>2. Marked(tag)
  BY TagsOf
<1>3. /\ tables'["reservation"] = tables["reservation"] /\ tables'["device"] = tables["device"]
      /\ tables'["memory"] = tables["memory"] /\ tables'["mipmap"] = tables["mipmap"]
      /\ tables'["array"] = tables["array"] /\ tables'["library"] = tables["library"]
      /\ tables'["kernel"] = tables["kernel"] /\ tables'["function"] = tables["function"]
      /\ \A j \in Plain : j # "module" => tables'[j] = tables[j]
  BY InKinds
<1>4. \A u \in Threads : \A x : x # a => (Busy(u, x)' <=> Busy(u, x))
  BY DEF Busy, Idle
<1>5. a # Nowhere
  BY CudaAssumption DEF Nowhere
<1>20. CudaTypeOK'
  OBVIOUS
<1>21. Recorded'
  BY <1>3 DEF Recorded, Described
<1>22. Fresh(g)'
  BY DEF Owned, Fresh, MadeBy
<1>23. Objects(g)'
  BY <1>1 DEF Owned, Typed, Objects, Tagged, Plain, Kinds, MadeBy
<1>24. Devices(g, o)'
  BY <1>1, <1>3 DEF Owned, Typed, Devices, MadeBy
<1>25. Reservations(g, o)'
  BY <1>3, <1>4 DEF Owned, Reservations, MadeBy
<1>26. ExternalMemories(g, o)'
  BY <1>3 DEF Owned, ExternalMemories, MadeBy
<1>27. Mipmaps'
  BY <1>3 DEF Owned, Mipmaps
<1>28. Kernels(g, o)'
  BY <1>1, <1>3 DEF Owned, Typed, Kernels, MadeBy
<1>29. Libraries(g, o)'
  BY <1>1, <1>3 DEF Owned, Typed, Libraries, MadeBy
<1>30. Handles(g)'
  <2> SUFFICES ASSUME NEW j, NEW x, <<j, x>> \in held'
               PROVE  IF j = "mapped" THEN x \in tables'["device"] /\ g[x] = "page"
                      ELSE IF j = "inner" THEN x \in tables'["module"] /\ g[x] = "inner"
                      ELSE /\ j \in Kinds /\ x \in tables'[j]
                           /\ j = "device" => g[x] = "device" \/ g[x] = "file"
                           /\ j = "module" => g[x] = "module"
    BY DEF Handles
  <2>1. CASE <<j, x>> \in held
    <3>1. x # a
      BY <1>2, <2>1 DEF Marked, MadeBy
    <3>2. x \in Addresses
      BY <1>1, <2>1 DEF Typed
    <3>3. \A i \in Kinds : tables[i] \subseteq tables'[i]
      OBVIOUS
    <3>4. g[x] = tag[x]
      BY <3>1, <3>2
    <3> QED BY <3>4, InKinds DEF Owned, Handles
  <2>2. CASE <<j, x>> \notin held
    <3>1. j = "module" /\ x = a
      BY <2>2
    <3> QED BY <3>1, InKinds
  <2> QED BY <2>1, <2>2
<1>31. Calls(g, o)'
  <2> SUFFICES ASSUME NEW u \in Threads
               PROVE  OneCall(g, o, u)'
    BY DEF Calls
  <2>1. OneCall(tag, of, u)
    BY DEF Owned, Calls
  <2>2. CASE u = t
    BY <2>2 DEF OneCall
  <2>3. CASE u # t
    <3>4. \A x \in Addresses : tag[x] = "call" /\ of[x] = u =>
            g[x] = "call" /\ o[x] = u /\ space'[x] = space[x]
      BY <2>3 DEF MadeBy
    <3>5. \A x \in tables["module"] : tag[x] = "maker" /\ of[x] = u =>
            x \in tables'["module"] /\ g[x] = "maker" /\ o[x] = u
      BY <1>1 DEF Typed, MadeBy
    <3>6. \A x : Busy(u, x) /\ Mapping(tag, of, x) => Mapping(g, o, x)'
      BY <1>3 DEF Mapping, MadeBy
    <3> QED BY <1>1, <2>1, <2>3, <3>4, <3>5, <3>6, CallKept
  <2> QED BY <2>2, <2>3
<1>32. Alone(g)'
  BY <1>4 DEF Owned, Alone
<1> QED BY <1>21, <1>22, <1>23, <1>24, <1>25, <1>26, <1>27, <1>28, <1>29, <1>30, <1>31,
   <1>32 DEF CudaInv, Owned

\* A library's module enters its set before there is a library.
LEMMA InsertMaker ==
  ASSUME CudaTypeOK, Recorded, NEW tag, NEW of, Owned(tag, of), NEW g, NEW o,
         NEW t \in Threads, NEW a \in Addresses,
         calls[t].op = "insert", calls[t].at = a, MadeBy(tag, of, t, a, "heap"),
         calls'[t] = [op |-> "library", at |-> a], \A u \in Threads \ {t} : calls'[u] = calls[u],
         tables'["module"] = tables["module"] \cup {a}, \A j \in Kinds : j # "module" => tables'[j] = tables[j],
         UNCHANGED <<space, external, fields>>,
         UNCHANGED held,
         CudaTypeOK',
         g[a] = "maker", o[a] = t,
         \A x \in Addresses \ {a} : g[x] = tag[x] /\ o[x] = of[x]
  PROVE  CudaInv'
<1>1. Typed
  BY TypedTables
<1>2. Marked(tag)
  BY TagsOf
<1>3. /\ tables'["reservation"] = tables["reservation"] /\ tables'["device"] = tables["device"]
      /\ tables'["memory"] = tables["memory"] /\ tables'["mipmap"] = tables["mipmap"]
      /\ tables'["array"] = tables["array"] /\ tables'["library"] = tables["library"]
      /\ tables'["kernel"] = tables["kernel"] /\ tables'["function"] = tables["function"]
      /\ \A j \in Plain : j # "module" => tables'[j] = tables[j]
  BY InKinds
<1>4. \A u \in Threads : \A x : x # a => (Busy(u, x)' <=> Busy(u, x))
  BY DEF Busy, Idle
<1>5. a # Nowhere
  BY CudaAssumption DEF Nowhere
<1>20. CudaTypeOK'
  OBVIOUS
<1>21. Recorded'
  BY <1>3 DEF Recorded, Described
<1>22. Fresh(g)'
  BY DEF Owned, Fresh, MadeBy
<1>23. Objects(g)'
  BY <1>1 DEF Owned, Typed, Objects, Tagged, Plain, Kinds, MadeBy
<1>24. Devices(g, o)'
  BY <1>1, <1>3 DEF Owned, Typed, Devices, MadeBy
<1>25. Reservations(g, o)'
  BY <1>3, <1>4 DEF Owned, Reservations, MadeBy
<1>26. ExternalMemories(g, o)'
  BY <1>3 DEF Owned, ExternalMemories, MadeBy
<1>27. Mipmaps'
  BY <1>3 DEF Owned, Mipmaps
<1>28. Kernels(g, o)'
  BY <1>1, <1>3 DEF Owned, Typed, Kernels, MadeBy
<1>29. Libraries(g, o)'
  BY <1>1, <1>3 DEF Owned, Typed, Libraries, MadeBy
<1>30. Handles(g)'
  <2> SUFFICES ASSUME NEW j, NEW x, <<j, x>> \in held'
               PROVE  IF j = "mapped" THEN x \in tables'["device"] /\ g[x] = "page"
                      ELSE IF j = "inner" THEN x \in tables'["module"] /\ g[x] = "inner"
                      ELSE /\ j \in Kinds /\ x \in tables'[j]
                           /\ j = "device" => g[x] = "device" \/ g[x] = "file"
                           /\ j = "module" => g[x] = "module"
    BY DEF Handles
  <2>1. CASE <<j, x>> \in held
    <3>1. x # a
      BY <1>2, <2>1 DEF Marked, MadeBy
    <3>2. x \in Addresses
      BY <1>1, <2>1 DEF Typed
    <3>3. \A i \in Kinds : tables[i] \subseteq tables'[i]
      OBVIOUS
    <3>4. g[x] = tag[x]
      BY <3>1, <3>2
    <3> QED BY <3>4, InKinds DEF Owned, Handles
  <2>2. CASE <<j, x>> \notin held
    <3>1. FALSE
      BY <2>2
    <3> QED BY <3>1, InKinds
  <2> QED BY <2>1, <2>2
<1>31. Calls(g, o)'
  <2> SUFFICES ASSUME NEW u \in Threads
               PROVE  OneCall(g, o, u)'
    BY DEF Calls
  <2>1. OneCall(tag, of, u)
    BY DEF Owned, Calls
  <2>2. CASE u = t
    BY <2>2, InKinds DEF OneCall
  <2>3. CASE u # t
    <3>4. \A x \in Addresses : tag[x] = "call" /\ of[x] = u =>
            g[x] = "call" /\ o[x] = u /\ space'[x] = space[x]
      BY <2>3 DEF MadeBy
    <3>5. \A x \in tables["module"] : tag[x] = "maker" /\ of[x] = u =>
            x \in tables'["module"] /\ g[x] = "maker" /\ o[x] = u
      BY <1>1 DEF Typed, MadeBy
    <3>6. \A x : Busy(u, x) /\ Mapping(tag, of, x) => Mapping(g, o, x)'
      BY <1>3 DEF Mapping, MadeBy
    <3> QED BY <1>1, <2>1, <2>3, <3>4, <3>5, <3>6, CallKept
  <2> QED BY <2>2, <2>3
<1>32. Alone(g)'
  BY <1>4 DEF Owned, Alone
<1> QED BY <1>21, <1>22, <1>23, <1>24, <1>25, <1>26, <1>27, <1>28, <1>29, <1>30, <1>31,
   <1>32 DEF CudaInv, Owned

\* An array of its own enters its set.
LEMMA InsertArray ==
  ASSUME CudaTypeOK, Recorded, NEW tag, NEW of, Owned(tag, of), NEW g, NEW o,
         NEW t \in Threads, NEW a \in Addresses,
         calls[t].op = "insert", calls[t].at = a, MadeBy(tag, of, t, a, "heap"),
         calls'[t] = Idle, \A u \in Threads \ {t} : calls'[u] = calls[u],
         tables'["array"] = tables["array"] \cup {a}, \A j \in Kinds : j # "array" => tables'[j] = tables[j],
         UNCHANGED <<space, external>>,
         DOMAIN fields' = DOMAIN fields \cup {a}, fields'[a] = [mipmap |-> Nowhere],
         \A x \in DOMAIN fields : x # a => fields'[x] = fields[x],
         held' = held \cup {<<"array", a>>},
         CudaTypeOK',
         g[a] = "array", \A x \in Addresses \ {a} : g[x] = tag[x] /\ o[x] = of[x]
  PROVE  CudaInv'
<1>1. Typed
  BY TypedTables
<1>2. Marked(tag)
  BY TagsOf
<1>3. /\ tables'["reservation"] = tables["reservation"] /\ tables'["device"] = tables["device"]
      /\ tables'["memory"] = tables["memory"] /\ tables'["mipmap"] = tables["mipmap"]
      /\ tables'["library"] = tables["library"] /\ tables'["kernel"] = tables["kernel"]
      /\ tables'["function"] = tables["function"] /\ tables'["module"] = tables["module"]
      /\ \A j \in Plain : j # "array" => tables'[j] = tables[j]
  BY InKinds
<1>4. \A u \in Threads : \A x : x # a => (Busy(u, x)' <=> Busy(u, x))
  BY DEF Busy, Idle
<1>5. a # Nowhere
  BY CudaAssumption DEF Nowhere
<1>6. Nowhere \notin Addresses
  BY CudaAssumption DEF Nowhere
<1>20. CudaTypeOK'
  OBVIOUS
<1>21. Recorded'
  BY <1>3 DEF Recorded, Described
<1>22. Fresh(g)'
  BY DEF Owned, Fresh, MadeBy
<1>23. Objects(g)'
  BY <1>1 DEF Owned, Typed, Objects, Tagged, Plain, Kinds, MadeBy
<1>24. Devices(g, o)'
  BY <1>1, <1>2, <1>3 DEF Owned, Typed, Marked, Devices, MadeBy
<1>25. Reservations(g, o)'
  BY <1>1, <1>3, <1>4 DEF Owned, Typed, Reservations, MadeBy
<1>26. ExternalMemories(g, o)'
  BY <1>1, <1>2, <1>3 DEF Owned, Typed, Marked, ExternalMemories, MadeBy
<1>27. Mipmaps'
  BY <1>1, <1>2, <1>3, <1>6 DEF Owned, Typed, Marked, Mipmaps, MadeBy
<1>28. Kernels(g, o)'
  BY <1>1, <1>2, <1>3 DEF Owned, Typed, Marked, Kernels, MadeBy
<1>29. Libraries(g, o)'
  BY <1>1, <1>2, <1>3 DEF Owned, Typed, Marked, Libraries, MadeBy
<1>30. Handles(g)'
  <2> SUFFICES ASSUME NEW j, NEW x, <<j, x>> \in held'
               PROVE  IF j = "mapped" THEN x \in tables'["device"] /\ g[x] = "page"
                      ELSE IF j = "inner" THEN x \in tables'["module"] /\ g[x] = "inner"
                      ELSE /\ j \in Kinds /\ x \in tables'[j]
                           /\ j = "device" => g[x] = "device" \/ g[x] = "file"
                           /\ j = "module" => g[x] = "module"
    BY DEF Handles
  <2>1. CASE <<j, x>> \in held
    <3>1. x # a
      BY <1>2, <2>1 DEF Marked, MadeBy
    <3>2. x \in Addresses
      BY <1>1, <2>1 DEF Typed
    <3>3. \A i \in Kinds : tables[i] \subseteq tables'[i]
      OBVIOUS
    <3>4. g[x] = tag[x]
      BY <3>1, <3>2
    <3> QED BY <3>4, InKinds DEF Owned, Handles
  <2>2. CASE <<j, x>> \notin held
    <3>1. j = "array" /\ x = a
      BY <2>2
    <3> QED BY <3>1, InKinds
  <2> QED BY <2>1, <2>2
<1>31. Calls(g, o)'
  <2> SUFFICES ASSUME NEW u \in Threads
               PROVE  OneCall(g, o, u)'
    BY DEF Calls
  <2>1. OneCall(tag, of, u)
    BY DEF Owned, Calls
  <2>2. CASE u = t
    BY <2>2 DEF OneCall
  <2>3. CASE u # t
    <3>4. \A x \in Addresses : tag[x] = "call" /\ of[x] = u =>
            g[x] = "call" /\ o[x] = u /\ space'[x] = space[x]
      BY <2>3 DEF MadeBy
    <3>5. \A x \in tables["module"] : tag[x] = "maker" /\ of[x] = u =>
            x \in tables'["module"] /\ g[x] = "maker" /\ o[x] = u
      BY <1>1, <1>3 DEF Typed, MadeBy
    <3>6. \A x : Busy(u, x) /\ Mapping(tag, of, x) => Mapping(g, o, x)'
      BY <1>1, <1>2, <1>3 DEF Mapping, Typed, Marked, MadeBy
    <3> QED BY <1>1, <2>1, <2>3, <3>4, <3>5, <3>6, CallKept
  <2> QED BY <2>2, <2>3
<1>32. Alone(g)'
  BY <1>4 DEF Owned, Alone
<1> QED BY <1>21, <1>22, <1>23, <1>24, <1>25, <1>26, <1>27, <1>28, <1>29, <1>30, <1>31,
   <1>32 DEF CudaInv, Owned

\* A mapped page enters the set of device pointers.
LEMMA InsertMapped ==
  ASSUME CudaTypeOK, Recorded, NEW tag, NEW of, Owned(tag, of), NEW g, NEW o,
         NEW t \in Threads, NEW a \in Addresses,
         calls[t].op = "insert", calls[t].at = a, Mapping(tag, of, a),
         calls'[t] = Idle, \A u \in Threads \ {t} : calls'[u] = calls[u],
         tables'["device"] = tables["device"] \cup {a}, \A j \in Kinds : j # "device" => tables'[j] = tables[j],
         UNCHANGED <<space, external, fields>>,
         held' = held \cup {<<"mapped", a>>},
         CudaTypeOK',
         \A x \in Addresses : g[x] = tag[x] /\ o[x] = of[x]
  PROVE  CudaInv'
<1>1. Typed
  BY TypedTables
<1>2. Marked(tag)
  BY TagsOf
<1>3. /\ tables'["reservation"] = tables["reservation"] /\ tables'["memory"] = tables["memory"]
      /\ tables'["mipmap"] = tables["mipmap"] /\ tables'["array"] = tables["array"]
      /\ tables'["library"] = tables["library"] /\ tables'["kernel"] = tables["kernel"]
      /\ tables'["function"] = tables["function"] /\ tables'["module"] = tables["module"]
      /\ \A j \in Plain : j # "device" => tables'[j] = tables[j]
  BY InKinds
<1>4. \A u \in Threads : \A x : x # a => (Busy(u, x)' <=> Busy(u, x))
  BY DEF Busy, Idle
<1>5. a # Nowhere
  BY CudaAssumption DEF Nowhere
<1>6. \A u \in Threads : ~Busy(u, a)' /\ (u # t => ~Busy(u, a))
  BY DEF Owned, Alone, Busy, Mapping, Idle
<1>20. CudaTypeOK'
  OBVIOUS
<1>21. Recorded'
  BY <1>3 DEF Recorded, Described
<1>22. Fresh(g)'
  BY DEF Owned, Fresh
<1>23. Objects(g)'
  BY <1>1 DEF Owned, Typed, Objects, Plain
<1>24. Devices(g, o)'
  BY <1>1, <1>3 DEF Owned, Typed, Devices, Mapping
<1>25. Reservations(g, o)'
  BY <1>3, <1>4 DEF Owned, Reservations
<1>26. ExternalMemories(g, o)'
  BY <1>3 DEF Owned, ExternalMemories
<1>27. Mipmaps'
  BY <1>3 DEF Owned, Mipmaps
<1>28. Kernels(g, o)'
  BY <1>1, <1>3 DEF Owned, Typed, Kernels
<1>29. Libraries(g, o)'
  BY <1>1, <1>3 DEF Owned, Typed, Libraries
<1>30. Handles(g)'
  <2> SUFFICES ASSUME NEW j, NEW x, <<j, x>> \in held'
               PROVE  IF j = "mapped" THEN x \in tables'["device"] /\ g[x] = "page"
                      ELSE IF j = "inner" THEN x \in tables'["module"] /\ g[x] = "inner"
                      ELSE /\ j \in Kinds /\ x \in tables'[j]
                           /\ j = "device" => g[x] = "device" \/ g[x] = "file"
                           /\ j = "module" => g[x] = "module"
    BY DEF Handles
  <2>1. CASE <<j, x>> \in held
    <3>1. TRUE
      OBVIOUS
    <3>2. x \in Addresses
      BY <1>1, <2>1 DEF Typed
    <3>3. \A i \in Kinds : tables[i] \subseteq tables'[i]
      OBVIOUS
    <3>4. g[x] = tag[x]
      BY <3>1, <3>2
    <3> QED BY <2>1, <3>4, InKinds DEF Owned, Handles
  <2>2. CASE <<j, x>> \notin held
    <3>1. j = "mapped" /\ x = a
      BY <2>2
    <3> QED BY <3>1, InKinds DEF Mapping
  <2> QED BY <2>1, <2>2
<1>31. Calls(g, o)'
  <2> SUFFICES ASSUME NEW u \in Threads
               PROVE  OneCall(g, o, u)'
    BY DEF Calls
  <2>1. OneCall(tag, of, u)
    BY DEF Owned, Calls
  <2>2. CASE u = t
    BY <2>2 DEF OneCall
  <2>3. CASE u # t
    <3>4. \A x \in Addresses : tag[x] = "call" /\ of[x] = u =>
            g[x] = "call" /\ o[x] = u /\ space'[x] = space[x]
      OBVIOUS
    <3>5. \A x \in tables["module"] : tag[x] = "maker" /\ of[x] = u =>
            x \in tables'["module"] /\ g[x] = "maker" /\ o[x] = u
      BY <1>1, <1>3 DEF Typed
    <3>6. \A x : Busy(u, x) /\ Mapping(tag, of, x) => Mapping(g, o, x)'
      BY <1>3, <1>6, <2>3 DEF Mapping
    <3> QED BY <1>1, <2>1, <2>3, <3>5, <3>6, CallKept
  <2> QED BY <2>2, <2>3
<1>32. Alone(g)'
  BY <1>4, <1>6 DEF Owned, Alone
<1> QED BY <1>21, <1>22, <1>23, <1>24, <1>25, <1>26, <1>27, <1>28, <1>29, <1>30, <1>31,
   <1>32 DEF CudaInv, Owned

\* A reservation enters its set.
LEMMA InsertReservation ==
  ASSUME CudaTypeOK, Recorded, NEW tag, NEW of, Owned(tag, of), NEW g, NEW o,
         NEW t \in Threads, NEW a \in Addresses,
         NEW pages \in SUBSET Addresses, \A x \in pages : MadeBy(tag, of, t, x, "reserved"),
         calls[t].op = "insert", calls[t].at = a, a \in pages,
         calls'[t] = Idle, \A u \in Threads \ {t} : calls'[u] = calls[u],
         tables'["reservation"] = tables["reservation"] \cup {a}, \A j \in Kinds : j # "reservation" => tables'[j] = tables[j],
         UNCHANGED <<space, external>>,
         DOMAIN fields' = DOMAIN fields \cup {a}, fields'[a] = [pages |-> pages],
         \A x \in DOMAIN fields : x # a => fields'[x] = fields[x],
         held' = held \cup {<<"reservation", a>>},
         CudaTypeOK',
         \A x \in pages : g[x] = "page" /\ o[x] = a,
         \A x \in Addresses \ pages : g[x] = tag[x] /\ o[x] = of[x]
  PROVE  CudaInv'
<1>1. Typed
  BY TypedTables
<1>2. Marked(tag)
  BY TagsOf
<1>3. /\ tables'["device"] = tables["device"] /\ tables'["memory"] = tables["memory"]
      /\ tables'["mipmap"] = tables["mipmap"] /\ tables'["array"] = tables["array"]
      /\ tables'["library"] = tables["library"] /\ tables'["kernel"] = tables["kernel"]
      /\ tables'["function"] = tables["function"] /\ tables'["module"] = tables["module"]
      /\ \A j \in Plain : j # "reservation" => tables'[j] = tables[j]
  BY InKinds
<1>4. \A u \in Threads : \A x : x # a => (Busy(u, x)' <=> Busy(u, x))
  BY DEF Busy, Idle
<1>5. a # Nowhere
  BY CudaAssumption DEF Nowhere
<1>20. CudaTypeOK'
  OBVIOUS
<1>21. Recorded'
  BY <1>3 DEF Recorded, Described
<1>22. Fresh(g)'
  BY DEF Owned, Fresh, MadeBy
<1>23. Objects(g)'
  BY <1>1 DEF Owned, Typed, Objects, Plain, MadeBy
<1>24. Devices(g, o)'
  BY <1>1, <1>2, <1>3 DEF Owned, Typed, Marked, Devices, MadeBy
<1>25. Reservations(g, o)'
  BY <1>1, <1>3, <1>4 DEF Owned, Typed, Reservations, MadeBy
<1>26. ExternalMemories(g, o)'
  BY <1>1, <1>2, <1>3 DEF Owned, Typed, Marked, ExternalMemories, MadeBy
<1>27. Mipmaps'
  BY <1>1, <1>2, <1>3 DEF Owned, Typed, Marked, Mipmaps, MadeBy
<1>28. Kernels(g, o)'
  BY <1>1, <1>2, <1>3 DEF Owned, Typed, Marked, Kernels, MadeBy
<1>29. Libraries(g, o)'
  BY <1>1, <1>2, <1>3 DEF Owned, Typed, Marked, Libraries, MadeBy
<1>30. Handles(g)'
  <2> SUFFICES ASSUME NEW j, NEW x, <<j, x>> \in held'
               PROVE  IF j = "mapped" THEN x \in tables'["device"] /\ g[x] = "page"
                      ELSE IF j = "inner" THEN x \in tables'["module"] /\ g[x] = "inner"
                      ELSE /\ j \in Kinds /\ x \in tables'[j]
                           /\ j = "device" => g[x] = "device" \/ g[x] = "file"
                           /\ j = "module" => g[x] = "module"
    BY DEF Handles
  <2>1. CASE <<j, x>> \in held
    <3>1. x \notin pages
      BY <1>2, <2>1 DEF Marked, MadeBy
    <3>2. x \in Addresses
      BY <1>1, <2>1 DEF Typed
    <3>3. \A i \in Kinds : tables[i] \subseteq tables'[i]
      OBVIOUS
    <3>4. g[x] = tag[x]
      BY <3>1, <3>2
    <3> QED BY <3>4, InKinds DEF Owned, Handles
  <2>2. CASE <<j, x>> \notin held
    <3>1. j = "reservation" /\ x = a
      BY <2>2
    <3> QED BY <3>1, InKinds
  <2> QED BY <2>1, <2>2
<1>31. Calls(g, o)'
  <2> SUFFICES ASSUME NEW u \in Threads
               PROVE  OneCall(g, o, u)'
    BY DEF Calls
  <2>1. OneCall(tag, of, u)
    BY DEF Owned, Calls
  <2>2. CASE u = t
    BY <2>2 DEF OneCall
  <2>3. CASE u # t
    <3>4. \A x \in Addresses : tag[x] = "call" /\ of[x] = u =>
            g[x] = "call" /\ o[x] = u /\ space'[x] = space[x]
      BY <2>3 DEF MadeBy
    <3>5. \A x \in tables["module"] : tag[x] = "maker" /\ of[x] = u =>
            x \in tables'["module"] /\ g[x] = "maker" /\ o[x] = u
      BY <1>1, <1>3 DEF Typed, MadeBy
    <3>6. \A x : Busy(u, x) /\ Mapping(tag, of, x) => Mapping(g, o, x)'
      BY <1>1, <1>2, <1>3 DEF Mapping, Typed, Marked, MadeBy
    <3> QED BY <1>1, <2>1, <2>3, <3>4, <3>5, <3>6, CallKept
  <2> QED BY <2>2, <2>3
<1>32. Alone(g)'
  <2>1. \A u \in Threads, x \in Addresses : Busy(u, x)' => Busy(u, x) /\ u # t
    BY DEF Busy, Idle
  <2>2. \A u \in Threads, x \in pages : ~Busy(u, x)'
    BY <2>1, BusyAt DEF MadeBy, Mapping
  <2> QED BY <2>1, <2>2 DEF Owned, Alone
<1> QED BY <1>21, <1>22, <1>23, <1>24, <1>25, <1>26, <1>27, <1>28, <1>29, <1>30, <1>31,
   <1>32 DEF CudaInv, Owned

\* An external memory enters its set.
LEMMA InsertMemory ==
  ASSUME CudaTypeOK, Recorded, NEW tag, NEW of, Owned(tag, of), NEW g, NEW o,
         NEW t \in Threads, NEW a \in Addresses,
         NEW p \in Addresses, p # a,
         calls[t].op = "insert", calls[t].at = a, MadeBy(tag, of, t, a, "heap"), MadeBy(tag, of, t, p, "file"),
         calls'[t] = Idle, \A u \in Threads \ {t} : calls'[u] = calls[u],
         tables'["memory"] = tables["memory"] \cup {a}, \A j \in Kinds : j # "memory" => tables'[j] = tables[j],
         UNCHANGED <<space, external>>,
         DOMAIN fields' = DOMAIN fields \cup {a}, fields'[a] = [mapping |-> p],
         \A x \in DOMAIN fields : x # a => fields'[x] = fields[x],
         held' = held \cup {<<"memory", a>>},
         CudaTypeOK',
         g[a] = "memory", g[p] = "file", o[p] = a,
         \A x \in Addresses \ {a, p} : g[x] = tag[x] /\ o[x] = of[x]
  PROVE  CudaInv'
<1>1. Typed
  BY TypedTables
<1>2. Marked(tag)
  BY TagsOf
<1>3. /\ tables'["reservation"] = tables["reservation"] /\ tables'["device"] = tables["device"]
      /\ tables'["mipmap"] = tables["mipmap"] /\ tables'["array"] = tables["array"]
      /\ tables'["library"] = tables["library"] /\ tables'["kernel"] = tables["kernel"]
      /\ tables'["function"] = tables["function"] /\ tables'["module"] = tables["module"]
      /\ \A j \in Plain : j # "memory" => tables'[j] = tables[j]
  BY InKinds
<1>4. \A u \in Threads : \A x : x # a => (Busy(u, x)' <=> Busy(u, x))
  BY DEF Busy, Idle
<1>5. a # Nowhere
  BY CudaAssumption DEF Nowhere
<1>20. CudaTypeOK'
  OBVIOUS
<1>21. Recorded'
  BY <1>3 DEF Recorded, Described
<1>22. Fresh(g)'
  BY DEF Owned, Fresh, MadeBy
<1>23. Objects(g)'
  BY <1>1 DEF Owned, Typed, Objects, Tagged, Plain, Kinds, MadeBy
<1>24. Devices(g, o)'
  BY <1>1, <1>2, <1>3 DEF Owned, Typed, Marked, Devices, MadeBy
<1>25. Reservations(g, o)'
  BY <1>1, <1>3, <1>4 DEF Owned, Typed, Reservations, MadeBy
<1>26. ExternalMemories(g, o)'
  BY <1>1 DEF Owned, Typed, ExternalMemories, MadeBy
<1>27. Mipmaps'
  BY <1>1, <1>2, <1>3 DEF Owned, Typed, Marked, Mipmaps, MadeBy
<1>28. Kernels(g, o)'
  BY <1>1, <1>2, <1>3 DEF Owned, Typed, Marked, Kernels, MadeBy
<1>29. Libraries(g, o)'
  BY <1>1, <1>2, <1>3 DEF Owned, Typed, Marked, Libraries, MadeBy
<1>30. Handles(g)'
  <2> SUFFICES ASSUME NEW j, NEW x, <<j, x>> \in held'
               PROVE  IF j = "mapped" THEN x \in tables'["device"] /\ g[x] = "page"
                      ELSE IF j = "inner" THEN x \in tables'["module"] /\ g[x] = "inner"
                      ELSE /\ j \in Kinds /\ x \in tables'[j]
                           /\ j = "device" => g[x] = "device" \/ g[x] = "file"
                           /\ j = "module" => g[x] = "module"
    BY DEF Handles
  <2>1. CASE <<j, x>> \in held
    <3>1. x # a /\ x # p
      BY <1>2, <2>1 DEF Marked, MadeBy
    <3>2. x \in Addresses
      BY <1>1, <2>1 DEF Typed
    <3>3. \A i \in Kinds : tables[i] \subseteq tables'[i]
      OBVIOUS
    <3>4. g[x] = tag[x]
      BY <3>1, <3>2
    <3> QED BY <3>4, InKinds DEF Owned, Handles
  <2>2. CASE <<j, x>> \notin held
    <3>1. j = "memory" /\ x = a
      BY <2>2
    <3> QED BY <3>1, InKinds
  <2> QED BY <2>1, <2>2
<1>31. Calls(g, o)'
  <2> SUFFICES ASSUME NEW u \in Threads
               PROVE  OneCall(g, o, u)'
    BY DEF Calls
  <2>1. OneCall(tag, of, u)
    BY DEF Owned, Calls
  <2>2. CASE u = t
    BY <2>2 DEF OneCall
  <2>3. CASE u # t
    <3>4. \A x \in Addresses : tag[x] = "call" /\ of[x] = u =>
            g[x] = "call" /\ o[x] = u /\ space'[x] = space[x]
      BY <2>3 DEF MadeBy
    <3>5. \A x \in tables["module"] : tag[x] = "maker" /\ of[x] = u =>
            x \in tables'["module"] /\ g[x] = "maker" /\ o[x] = u
      BY <1>1, <1>3 DEF Typed, MadeBy
    <3>6. \A x : Busy(u, x) /\ Mapping(tag, of, x) => Mapping(g, o, x)'
      BY <1>1, <1>2, <1>3 DEF Mapping, Typed, Marked, MadeBy
    <3> QED BY <1>1, <2>1, <2>3, <3>4, <3>5, <3>6, CallKept
  <2> QED BY <2>2, <2>3
<1>32. Alone(g)'
  BY <1>4 DEF Owned, Alone
<1> QED BY <1>21, <1>22, <1>23, <1>24, <1>25, <1>26, <1>27, <1>28, <1>29, <1>30, <1>31,
   <1>32 DEF CudaInv, Owned

\* A library enters its set, and its module is its own.
LEMMA InsertLibrary ==
  ASSUME CudaTypeOK, Recorded, NEW tag, NEW of, Owned(tag, of), NEW g, NEW o,
         NEW t \in Threads, NEW a \in Addresses,
         NEW m \in tables["module"], tag[m] = "maker", of[m] = t,
         calls[t].op = "insert", calls[t].at = a, MadeBy(tag, of, t, a, "heap"),
         calls'[t] = Idle, \A u \in Threads \ {t} : calls'[u] = calls[u],
         tables'["library"] = tables["library"] \cup {a}, \A j \in Kinds : j # "library" => tables'[j] = tables[j],
         UNCHANGED <<space, external>>,
         DOMAIN fields' = DOMAIN fields \cup {a}, fields'[a] = [module |-> m],
         \A x \in DOMAIN fields : x # a => fields'[x] = fields[x],
         held' = held \cup {<<"library", a>>},
         CudaTypeOK',
         g[a] = "library", g[m] = "inner", o[m] = a,
         \A x \in Addresses \ {a, m} : g[x] = tag[x] /\ o[x] = of[x]
  PROVE  CudaInv'
<1>1. Typed
  BY TypedTables
<1>2. Marked(tag)
  BY TagsOf
<1>3. /\ tables'["reservation"] = tables["reservation"] /\ tables'["device"] = tables["device"]
      /\ tables'["memory"] = tables["memory"] /\ tables'["mipmap"] = tables["mipmap"]
      /\ tables'["array"] = tables["array"] /\ tables'["kernel"] = tables["kernel"]
      /\ tables'["function"] = tables["function"] /\ tables'["module"] = tables["module"]
      /\ \A j \in Plain : j # "library" => tables'[j] = tables[j]
  BY InKinds
<1>4. \A u \in Threads : \A x : x # a => (Busy(u, x)' <=> Busy(u, x))
  BY DEF Busy, Idle
<1>5. a # Nowhere
  BY CudaAssumption DEF Nowhere
<1>6. m # a
  BY DEF MadeBy
<1>20. CudaTypeOK'
  OBVIOUS
<1>21. Recorded'
  BY <1>3 DEF Recorded, Described
<1>22. Fresh(g)'
  BY DEF Owned, Fresh, MadeBy
<1>23. Objects(g)'
  BY <1>1 DEF Owned, Typed, Objects, Tagged, Plain, Kinds, MadeBy
<1>24. Devices(g, o)'
  BY <1>1, <1>2, <1>3 DEF Owned, Typed, Marked, Devices, MadeBy
<1>25. Reservations(g, o)'
  BY <1>1, <1>3, <1>4 DEF Owned, Typed, Reservations, MadeBy
<1>26. ExternalMemories(g, o)'
  BY <1>1, <1>2, <1>3 DEF Owned, Typed, Marked, ExternalMemories, MadeBy
<1>27. Mipmaps'
  BY <1>1, <1>2, <1>3 DEF Owned, Typed, Marked, Mipmaps, MadeBy
<1>28. Kernels(g, o)'
  BY <1>1, <1>2, <1>3 DEF Owned, Typed, Marked, Kernels, MadeBy
<1>29. Libraries(g, o)'
  BY <1>1, <1>3 DEF Owned, Typed, Libraries, MadeBy
<1>30. Handles(g)'
  <2> SUFFICES ASSUME NEW j, NEW x, <<j, x>> \in held'
               PROVE  IF j = "mapped" THEN x \in tables'["device"] /\ g[x] = "page"
                      ELSE IF j = "inner" THEN x \in tables'["module"] /\ g[x] = "inner"
                      ELSE /\ j \in Kinds /\ x \in tables'[j]
                           /\ j = "device" => g[x] = "device" \/ g[x] = "file"
                           /\ j = "module" => g[x] = "module"
    BY DEF Handles
  <2>1. CASE <<j, x>> \in held
    <3>1. x # a /\ x # m
      BY <1>2, <2>1 DEF Marked, MadeBy
    <3>2. x \in Addresses
      BY <1>1, <2>1 DEF Typed
    <3>3. \A i \in Kinds : tables[i] \subseteq tables'[i]
      OBVIOUS
    <3>4. g[x] = tag[x]
      BY <3>1, <3>2
    <3> QED BY <3>4, InKinds DEF Owned, Handles
  <2>2. CASE <<j, x>> \notin held
    <3>1. j = "library" /\ x = a
      BY <2>2
    <3> QED BY <3>1, InKinds
  <2> QED BY <2>1, <2>2
<1>31. Calls(g, o)'
  <2> SUFFICES ASSUME NEW u \in Threads
               PROVE  OneCall(g, o, u)'
    BY DEF Calls
  <2>1. OneCall(tag, of, u)
    BY DEF Owned, Calls
  <2>2. CASE u = t
    BY <2>2 DEF OneCall
  <2>3. CASE u # t
    <3>4. \A x \in Addresses : tag[x] = "call" /\ of[x] = u =>
            g[x] = "call" /\ o[x] = u /\ space'[x] = space[x]
      BY <2>3 DEF MadeBy
    <3>5. \A x \in tables["module"] : tag[x] = "maker" /\ of[x] = u =>
            x \in tables'["module"] /\ g[x] = "maker" /\ o[x] = u
      BY <1>1, <1>3, <2>3 DEF Typed, MadeBy
    <3>6. \A x : Busy(u, x) /\ Mapping(tag, of, x) => Mapping(g, o, x)'
      BY <1>1, <1>2, <1>3 DEF Mapping, Typed, Marked, MadeBy
    <3> QED BY <1>1, <2>1, <3>4, <3>5, <3>6, CallKept
  <2> QED BY <2>2, <2>3
<1>32. Alone(g)'
  BY <1>4 DEF Owned, Alone
<1> QED BY <1>21, <1>22, <1>23, <1>24, <1>25, <1>26, <1>27, <1>28, <1>29, <1>30, <1>31,
   <1>32 DEF CudaInv, Owned

LEMMA InsertKept ==
  ASSUME CudaInv, NEW t \in Threads, Insert(t)
  PROVE  CudaInv'
<1> DEFINE k == calls[t].kind
           a == calls[t].at
           h == calls[t].as
           f == calls[t].fields
<1>1. CudaTypeOK /\ Recorded /\ calls[t].op = "insert"
  BY DEF CudaInv, Insert
<1>2. PICK tag, of : Owned(tag, of)
  BY DEF CudaInv
<1>3. Inserting(tag, of, t)
  BY <1>1, <1>2 DEF Owned, Calls, OneCall, Idle
<1>4. Typed
  BY <1>1, TypedTables
<1>5. k \in Kinds /\ a \in Addresses /\ h \in Kinds \cup {"mapped", "librarymodule"}
  BY <1>3, InKinds DEF Inserting, MadeBy, Mapping
<1>6. /\ tables'[k] = tables[k] \cup {a} /\ \A j \in Kinds : j # k => tables'[j] = tables[j]
      /\ UNCHANGED <<space, external>>
  BY <1>1, <1>5 DEF Insert, Inserted, CudaTypeOK
<1>7. /\ DOMAIN f = {} => UNCHANGED fields
      /\ DOMAIN f # {} => /\ DOMAIN fields' = DOMAIN fields \cup {a} /\ fields'[a] = f
                          /\ \A x \in DOMAIN fields : x # a => fields'[x] = fields[x]
  BY DEF Insert, Put
<1>8. /\ DOMAIN calls' = Threads /\ \A u \in Threads \ {t} : calls'[u] = calls[u]
      /\ h = "librarymodule" => calls'[t] = [op |-> "library", at |-> a] /\ UNCHANGED held
      /\ h # "librarymodule" => calls'[t] = Idle /\ held' = held \cup {<<h, a>>}
  BY <1>1 DEF Insert, CudaTypeOK
<1>9. CudaTypeOK'
  <2>1. tables' \in [Kinds -> SUBSET Addresses]
    BY <1>1, <1>5 DEF Insert, Inserted, CudaTypeOK
  <2>2. held' \subseteq (Kinds \cup {"mapped", "inner"}) \X Addresses
    BY <1>1, <1>5, <1>8 DEF CudaTypeOK
  <2>3. DOMAIN fields' \subseteq Addresses
    BY <1>1, <1>5, <1>7 DEF CudaTypeOK
  <2> QED BY <1>1, <1>6, <1>8, <2>1, <2>2, <2>3 DEF CudaTypeOK
<1> HIDE DEF k, a, h, f
<1>a. calls[t].kind = k /\ calls[t].at = a /\ calls[t].as = h /\ calls[t].fields = f
  BY DEF k, a, h, f
<1>10. CASE k \in Kinds \ Described /\ DOMAIN f = {} /\ h = k /\ k \notin {"device", "module"} /\ MadeBy(tag, of, t, a, "heap")
  <2>1. PICK g, o : /\ g = [x \in Addresses |-> IF x = a THEN k ELSE tag[x]]
                    /\ o = [x \in Addresses |-> of[x]]
    OBVIOUS
  <2>2. k \in Plain /\ k \in {"host", "stream", "event", "semaphore"}
    BY <1>10 DEF Kinds, Described, Plain
  <2> QED BY <1>1, <1>2, <1>5, <1>6, <1>7, <1>8, <1>9, <1>a, <1>10, <2>1, <2>2, InsertHandle
<1>11. CASE k = "device" /\ DOMAIN f = {} /\ h = k /\ MadeBy(tag, of, t, a, "heap")
  <2>1. PICK g, o : /\ g = [x \in Addresses |-> IF x = a THEN k ELSE tag[x]]
                    /\ o = [x \in Addresses |-> of[x]]
    OBVIOUS
  <2> QED BY <1>1, <1>2, <1>5, <1>6, <1>7, <1>8, <1>9, <1>a, <1>11, <2>1, InsertDevice
<1>12. CASE k = "module" /\ DOMAIN f = {} /\ h = k /\ MadeBy(tag, of, t, a, "heap")
  <2>1. PICK g, o : /\ g = [x \in Addresses |-> IF x = a THEN k ELSE tag[x]]
                    /\ o = [x \in Addresses |-> of[x]]
    OBVIOUS
  <2> QED BY <1>1, <1>2, <1>5, <1>6, <1>7, <1>8, <1>9, <1>a, <1>12, <2>1, InsertModule
<1>13. CASE k = "module" /\ DOMAIN f = {} /\ h = "librarymodule" /\ MadeBy(tag, of, t, a, "heap")
  <2>1. PICK g, o : /\ g = [x \in Addresses |-> IF x = a THEN "maker" ELSE tag[x]]
                    /\ o = [x \in Addresses |-> IF x = a THEN t ELSE of[x]]
    OBVIOUS
  <2> QED BY <1>1, <1>2, <1>5, <1>6, <1>7, <1>8, <1>9, <1>a, <1>13, <2>1, InsertMaker
<1>14. CASE k = "array" /\ f = [mipmap |-> Nowhere] /\ h = k /\ MadeBy(tag, of, t, a, "heap")
  <2>1. PICK g, o : /\ g = [x \in Addresses |-> IF x = a THEN k ELSE tag[x]]
                    /\ o = [x \in Addresses |-> of[x]]
    OBVIOUS
  <2>2. DOMAIN f # {}
    BY <1>14
  <2> QED BY <1>1, <1>2, <1>5, <1>6, <1>7, <1>8, <1>9, <1>a, <1>14, <2>1, InsertArray
<1>15. CASE k = "device" /\ DOMAIN f = {} /\ h = "mapped" /\ Mapping(tag, of, a)
  <2>1. PICK g, o : g = tag /\ o = of
    OBVIOUS
  <2> QED BY <1>1, <1>2, <1>5, <1>6, <1>7, <1>8, <1>9, <1>a, <1>15, InsertMapped
<1>16. ASSUME k = "reservation", h = k, NEW pages \in SUBSET Addresses, f = [pages |-> pages],
              a \in pages, \A x \in pages : MadeBy(tag, of, t, x, "reserved")
       PROVE  CudaInv'
  <2>1. PICK g, o : /\ g = [x \in Addresses |-> IF x \in pages THEN "page" ELSE tag[x]]
                    /\ o = [x \in Addresses |-> IF x \in pages THEN a ELSE of[x]]
    OBVIOUS
  <2>2. DOMAIN f # {}
    BY <1>16
  <2> QED BY <1>1, <1>2, <1>6, <1>7, <1>8, <1>9, <1>a, <1>16, <2>1, InsertReservation
<1>17. ASSUME k = "memory", h = k, NEW p \in Addresses, f = [mapping |-> p], a # p,
              MadeBy(tag, of, t, a, "heap"), MadeBy(tag, of, t, p, "file")
       PROVE  CudaInv'
  <2>1. PICK g, o : /\ g = [x \in Addresses |-> IF x = a THEN k ELSE IF x = p THEN "file" ELSE tag[x]]
                    /\ o = [x \in Addresses |-> IF x = p THEN a ELSE of[x]]
    OBVIOUS
  <2>2. DOMAIN f # {}
    BY <1>17
  <2> QED BY <1>1, <1>2, <1>5, <1>6, <1>7, <1>8, <1>9, <1>a, <1>17, <2>1, InsertMemory
<1>18. ASSUME k = "library", h = k, MadeBy(tag, of, t, a, "heap"),
              NEW m \in tables["module"], f = [module |-> m], tag[m] = "maker", of[m] = t
       PROVE  CudaInv'
  <2>1. PICK g, o : /\ g = [x \in Addresses |-> IF x = a THEN k ELSE IF x = m THEN "inner" ELSE tag[x]]
                    /\ o = [x \in Addresses |-> IF x = m THEN a ELSE of[x]]
    OBVIOUS
  <2>2. DOMAIN f # {} /\ m \in Addresses /\ m # a
    BY <1>4, <1>18 DEF Typed, MadeBy
  <2> QED BY <1>1, <1>2, <1>5, <1>6, <1>7, <1>8, <1>9, <1>a, <1>18, <2>1, <2>2, InsertLibrary
<1> QED BY <1>3, <1>10, <1>11, <1>12, <1>13, <1>14, <1>15, <1>16, <1>17, <1>18, <1>a DEF Inserting

\* What a call had to free is free.
LEMMA Freed ==
  ASSUME CudaTypeOK, Recorded, NEW tag, NEW of, Owned(tag, of), NEW g, NEW o,
         NEW t \in Threads, calls[t].op = "free",
         \A x \in calls[t].at : space'[x] = "free" /\ g[x] = "nobody",
         \A x \in Addresses \ calls[t].at : space'[x] = space[x] /\ g[x] = tag[x] /\ o[x] = of[x],
         CudaTypeOK', UNCHANGED <<tables, external, fields, held>>,
         calls'[t] = Idle, \A u \in Threads \ {t} : calls'[u] = calls[u]
  PROVE  CudaInv'
<1>1. Typed
  BY TypedTables
<1>2. Marked(tag)
  BY TagsOf
<1>3. \A x \in calls[t].at : tag[x] = "call" /\ of[x] = t
  BY DEF Owned, Calls, OneCall, MadeBy, Idle
<1>4. \A u \in Threads : \A x : Busy(u, x)' <=> Busy(u, x)
  BY DEF Busy, Idle
<1>20. CudaTypeOK'
  OBVIOUS
<1>21. Recorded'
  BY DEF Recorded
<1>22. Fresh(g)'
  BY DEF Owned, Fresh
<1>23. Objects(g)'
  BY <1>1, <1>3 DEF Owned, Typed, Objects, Tagged, Plain, Kinds
<1>24. Devices(g, o)'
  BY <1>1, <1>3 DEF Owned, Typed, Devices
<1>25. Reservations(g, o)'
  BY <1>3, <1>4 DEF Owned, Reservations
<1>26. ExternalMemories(g, o)'
  BY <1>3 DEF Owned, ExternalMemories
<1>27. Mipmaps'
  BY DEF Owned, Mipmaps
<1>28. Kernels(g, o)'
  BY <1>1, <1>3 DEF Owned, Typed, Kernels
<1>29. Libraries(g, o)'
  BY <1>1, <1>3 DEF Owned, Typed, Libraries
<1>30. Handles(g)'
  BY <1>1, <1>3 DEF Owned, Typed, Handles
<1>31. Calls(g, o)'
  <2> SUFFICES ASSUME NEW u \in Threads
               PROVE  OneCall(g, o, u)'
    BY DEF Calls
  <2>1. OneCall(tag, of, u)
    BY DEF Owned, Calls
  <2>2. CASE u = t
    BY <2>2 DEF OneCall
  <2>3. CASE u # t
    <3>4. \A x \in Addresses : tag[x] = "call" /\ of[x] = u =>
            g[x] = "call" /\ o[x] = u /\ space'[x] = space[x]
      BY <1>3, <2>3
    <3>5. \A x \in tables["module"] : tag[x] = "maker" /\ of[x] = u =>
            x \in tables'["module"] /\ g[x] = "maker" /\ o[x] = u
      BY <1>1, <1>3 DEF Typed
    <3>6. \A x : Busy(u, x) /\ Mapping(tag, of, x) => Mapping(g, o, x)'
      BY <1>3 DEF Mapping
    <3> QED BY <1>1, <2>1, <2>3, <3>4, <3>5, <3>6, CallKept
  <2> QED BY <2>2, <2>3
<1>32. Alone(g)'
  BY <1>4 DEF Owned, Alone
<1> QED BY <1>21, <1>22, <1>23, <1>24, <1>25, <1>26, <1>27, <1>28, <1>29, <1>30, <1>31,
   <1>32 DEF CudaInv, Owned

\* A page is unmapped again.
LEMMA Reserved ==
  ASSUME CudaTypeOK, Recorded, NEW tag, NEW of, Owned(tag, of), NEW g, NEW o,
         NEW t \in Threads, calls[t].op = "reserve", NEW a \in Addresses, calls[t].at = {a},
         space'[a] = "reserved", \A x \in Addresses \ {a} : space'[x] = space[x],
         \A x \in Addresses : g[x] = tag[x] /\ o[x] = of[x],
         CudaTypeOK', UNCHANGED <<tables, external, fields, held>>,
         calls'[t] = Idle, \A u \in Threads \ {t} : calls'[u] = calls[u]
  PROVE  CudaInv'
<1>1. Typed
  BY TypedTables
<1>2. Marked(tag)
  BY TagsOf
<1>3. tag[a] = "page" /\ a \notin tables["device"] /\ space[a] = "mapped"
  BY DEF Owned, Calls, OneCall, Mapping, Idle
<1>4. /\ \A u \in Threads : \A x : x # a => (Busy(u, x)' <=> Busy(u, x))
      /\ \A u \in Threads : ~Busy(u, a)' /\ (u # t => ~Busy(u, a))
  BY <1>3 DEF Busy, Idle, Owned, Alone
<1>20. CudaTypeOK'
  OBVIOUS
<1>21. Recorded'
  BY DEF Recorded
<1>22. Fresh(g)'
  BY DEF Owned, Fresh
<1>23. Objects(g)'
  BY <1>1, <1>3 DEF Owned, Typed, Objects
<1>24. Devices(g, o)'
  BY <1>1, <1>3 DEF Owned, Typed, Devices
<1>25. Reservations(g, o)'
  BY <1>4 DEF Owned, Reservations
<1>26. ExternalMemories(g, o)'
  BY <1>3 DEF Owned, ExternalMemories
<1>27. Mipmaps'
  BY DEF Owned, Mipmaps
<1>28. Kernels(g, o)'
  BY <1>1 DEF Owned, Typed, Kernels
<1>29. Libraries(g, o)'
  BY <1>1 DEF Owned, Typed, Libraries
<1>30. Handles(g)'
  BY <1>1 DEF Owned, Typed, Handles
<1>31. Calls(g, o)'
  <2> SUFFICES ASSUME NEW u \in Threads
               PROVE  OneCall(g, o, u)'
    BY DEF Calls
  <2>1. OneCall(tag, of, u)
    BY DEF Owned, Calls
  <2>2. CASE u = t
    BY <2>2 DEF OneCall
  <2>3. CASE u # t
    <3>4. \A x \in Addresses : tag[x] = "call" /\ of[x] = u =>
            g[x] = "call" /\ o[x] = u /\ space'[x] = space[x]
      BY <1>3
    <3>5. \A x \in tables["module"] : tag[x] = "maker" /\ of[x] = u =>
            x \in tables'["module"] /\ g[x] = "maker" /\ o[x] = u
      BY <1>1 DEF Typed
    <3>6. \A x : Busy(u, x) /\ Mapping(tag, of, x) => Mapping(g, o, x)'
      BY <1>4, <2>3 DEF Mapping
    <3> QED BY <1>1, <2>1, <2>3, <3>4, <3>5, <3>6, CallKept
  <2> QED BY <2>2, <2>3
<1>32. Alone(g)'
  BY <1>4 DEF Owned, Alone
<1> QED BY <1>21, <1>22, <1>23, <1>24, <1>25, <1>26, <1>27, <1>28, <1>29, <1>30, <1>31,
   <1>32 DEF CudaInv, Owned

LEMMA ReleaseKept ==
  ASSUME CudaInv, NEW t \in Threads, Release(t)
  PROVE  CudaInv'
<1>1. CudaTypeOK /\ Recorded
  BY DEF CudaInv
<1>2. PICK tag, of : Owned(tag, of)
  BY DEF CudaInv
<1>3. /\ calls[t].op \in {"free", "reserve"} /\ calls'[t] = Idle
      /\ DOMAIN calls' = Threads /\ \A u \in Threads \ {t} : calls'[u] = calls[u]
      /\ UNCHANGED <<tables, external, fields, held>>
  BY <1>1 DEF Release, CudaTypeOK
<1>4. /\ \A x \in Addresses \cap calls[t].at :
           space'[x] = IF calls[t].op = "free" THEN "free" ELSE "reserved"
      /\ \A x \in Addresses \ calls[t].at : space'[x] = space[x]
  BY DEF Release, At
<1>5. space' \in [Addresses -> {"free", "heap", "reserved", "mapped", "file"}]
  BY <1>1 DEF Release, At, CudaTypeOK
<1>6. CudaTypeOK'
  BY <1>1, <1>3, <1>5 DEF CudaTypeOK
<1>7. CASE calls[t].op = "free"
  <2>1. \A x \in calls[t].at : x \in Addresses
    BY <1>2, <1>7 DEF Owned, Calls, OneCall, MadeBy, Idle
  <2>2. PICK g, o : /\ g = [x \in Addresses |-> IF x \in calls[t].at THEN "nobody" ELSE tag[x]]
                    /\ o = of
    OBVIOUS
  <2> QED BY <1>1, <1>2, <1>3, <1>4, <1>6, <1>7, <2>1, <2>2, Freed
<1>8. CASE calls[t].op = "reserve"
  <2>1. PICK a \in Addresses : calls[t].at = {a}
    BY <1>2, <1>8 DEF Owned, Calls, OneCall, Idle
  <2>2. PICK g, o : g = tag /\ o = of
    OBVIOUS
  <2> QED BY <1>1, <1>2, <1>3, <1>4, <1>6, <1>8, <2>1, Reserved
<1> QED BY <1>3, <1>7, <1>8

\* An object that is nothing but a handle leaves its set, to be freed.
LEMMA GivenBack ==
  ASSUME CudaTypeOK, Recorded, NEW tag, NEW of, Owned(tag, of), NEW g, NEW o,
         NEW t \in Threads, NEW a \in Addresses, NEW k \in Kinds \ Described, a \in tables[k], tag[a] = k,
         UNCHANGED <<space, external>>, CudaTypeOK',
         tables'[k] = tables[k] \ {a}, \A j \in Kinds : j # k => tables'[j] = tables[j],
         DOMAIN fields \ {a} \subseteq DOMAIN fields', \A x \in DOMAIN fields : x # a => fields'[x] = fields[x],
         held' \subseteq held, <<k, a>> \notin held',
         \A x : x # a => /\ <<"device", x>> \in held => <<"device", x>> \in held'
                         /\ <<"mapped", x>> \in held => <<"mapped", x>> \in held',
         calls[t] = Idle, calls'[t] = Freeing({a}), \A u \in Threads \ {t} : calls'[u] = calls[u],
         g[a] = "call", o[a] = t, \A x \in Addresses \ {a} : g[x] = tag[x] /\ o[x] = of[x]
  PROVE  CudaInv'
<1>1. Typed
  BY TypedTables
<1>2. Marked(tag)
  BY TagsOf
<1>3. /\ tables'["reservation"] = tables["reservation"] /\ tables'["memory"] = tables["memory"]
      /\ tables'["mipmap"] = tables["mipmap"] /\ tables'["array"] = tables["array"]
      /\ tables'["library"] = tables["library"] /\ tables'["kernel"] = tables["kernel"]
      /\ tables'["function"] = tables["function"]
  BY InKinds DEF Described
<1>4. \A u \in Threads : \A x : Busy(u, x)' <=> Busy(u, x)
  BY DEF Busy, Idle, Freeing
<1>5. tag[a] \in {"device", "module", "host", "stream", "event", "semaphore"}
  BY DEF Kinds, Described
<1>6. tables'["device"] = tables["device"] \ {a} /\ tables'["module"] = tables["module"] \ {a}
  <2>1. k # "device" => a \notin tables["device"]
    BY <1>2, <1>5 DEF Marked
  <2>2. k # "module" => a \notin tables["module"]
    BY <1>2, <1>5 DEF Marked
  <2> QED BY <2>1, <2>2, InKinds
<1>7. space[a] = "heap"
  BY <1>5 DEF Owned, Objects, Devices, Plain, Described
<1>8. a \notin external
  BY <1>5 DEF Owned, Devices
<1>20. CudaTypeOK'
  OBVIOUS
<1>21. Recorded'
  BY <1>2, <1>3, <1>5 DEF Marked, Recorded, Described
<1>22. Fresh(g)'
  BY <1>7 DEF Owned, Fresh
<1>23. Objects(g)'
  BY <1>1 DEF Owned, Typed, Objects, Tagged, Plain, Kinds
<1>24. Devices(g, o)'
  BY <1>1, <1>2, <1>3, <1>5, <1>6, <1>8 DEF Owned, Typed, Marked, Devices
<1>25. Reservations(g, o)'
  BY <1>1, <1>3, <1>4, <1>6, <1>7 DEF Owned, Typed, Reservations
<1>26. ExternalMemories(g, o)'
  BY <1>1, <1>2, <1>3, <1>7 DEF Owned, Typed, Marked, ExternalMemories
<1>27. Mipmaps'
  BY <1>1, <1>2, <1>3 DEF Owned, Typed, Marked, Mipmaps
<1>28. Kernels(g, o)'
  BY <1>1, <1>2, <1>3, <1>5 DEF Owned, Typed, Marked, Kernels
<1>29. Libraries(g, o)'
  BY <1>1, <1>2, <1>3, <1>5, <1>6 DEF Owned, Typed, Marked, Libraries
<1>30. Handles(g)'
  BY <1>1, <1>5, <1>6 DEF Owned, Typed, Handles
<1>31. Calls(g, o)'
  <2> SUFFICES ASSUME NEW u \in Threads
               PROVE  OneCall(g, o, u)'
    BY DEF Calls
  <2>1. OneCall(tag, of, u)
    BY DEF Owned, Calls
  <2>2. CASE u = t
    <3>1. calls'[t].op = "free" /\ calls'[t].at = {a}
      BY DEF Freeing
    <3>2. MadeBy(g, o, t, a, "heap")'
      BY <1>7 DEF MadeBy
    <3> QED BY <2>2, <3>1, <3>2 DEF OneCall
  <2>3. CASE u # t
    <3>4. \A x \in Addresses : tag[x] = "call" /\ of[x] = u =>
            g[x] = "call" /\ o[x] = u /\ space'[x] = space[x]
      BY <1>5
    <3>5. \A x \in tables["module"] : tag[x] = "maker" /\ of[x] = u =>
            x \in tables'["module"] /\ g[x] = "maker" /\ o[x] = u
      BY <1>1, <1>5, <1>6 DEF Typed
    <3>6. \A x : Busy(u, x) /\ Mapping(tag, of, x) => Mapping(g, o, x)'
      BY <1>1, <1>2, <1>3, <1>5, <1>6 DEF Mapping, Typed, Marked
    <3> QED BY <1>1, <2>1, <2>3, <3>4, <3>5, <3>6, CallKept
  <2> QED BY <2>2, <2>3
<1>32. Alone(g)'
  BY <1>4 DEF Owned, Alone
<1> QED BY <1>21, <1>22, <1>23, <1>24, <1>25, <1>26, <1>27, <1>28, <1>29, <1>30, <1>31,
   <1>32 DEF CudaInv, Owned

\* A handle is destroyed.
LEMMA EraseThenFreeKept ==
  ASSUME CudaInv, NEW t \in Threads, NEW a \in Addresses, NEW k,
         EraseThenFree(t, k, a), k \in {"host", "stream", "event", "semaphore"}
  PROVE  CudaInv'
<1>1. CudaTypeOK /\ Recorded
  BY DEF CudaInv
<1>2. PICK tag, of : Owned(tag, of)
  BY DEF CudaInv
<1>3. k \in Kinds \ Described /\ a \in tables[k] /\ tag[a] = k
  <2>1. k \in Kinds \ Described /\ k \in Plain /\ a \in tables[k]
    BY DEF EraseThenFree, Kinds, Described, Plain
  <2> QED BY <1>2, <2>1 DEF Owned, Objects, Tagged
<1>4. UNCHANGED <<space, external>>
  BY <1>3 DEF EraseThenFree
<1>5. tables'[k] = tables[k] \ {a} /\ \A j \in Kinds : j # k => tables'[j] = tables[j]
  BY <1>1 DEF EraseThenFree, Erased, CudaTypeOK
<1>6. DOMAIN fields \ {a} \subseteq DOMAIN fields' /\ \A x \in DOMAIN fields : x # a => fields'[x] = fields[x]
  BY DEF EraseThenFree, Drop
<1>7. held' \subseteq held /\ <<k, a>> \notin held'
  BY DEF EraseThenFree, Forgotten
<1>8. \A x : x # a => /\ <<"device", x>> \in held => <<"device", x>> \in held'
                      /\ <<"mapped", x>> \in held => <<"mapped", x>> \in held'
  BY DEF EraseThenFree, Forgotten
<1>9. /\ calls[t] = Idle /\ calls'[t] = Freeing({a})
      /\ DOMAIN calls' = Threads /\ \A u \in Threads \ {t} : calls'[u] = calls[u]
  BY <1>1 DEF EraseThenFree, Then, CudaTypeOK
<1>10. CudaTypeOK'
  <2>1. tables' \in [Kinds -> SUBSET Addresses]
    BY <1>1 DEF EraseThenFree, Erased, CudaTypeOK
  <2>2. DOMAIN fields' \subseteq Addresses
    BY <1>1 DEF EraseThenFree, Drop, CudaTypeOK
  <2> QED BY <1>1, <1>4, <1>7, <1>9, <2>1, <2>2 DEF CudaTypeOK
<1>11. PICK g, o : /\ g = [x \in Addresses |-> IF x = a THEN "call" ELSE tag[x]]
                   /\ o = [x \in Addresses |-> IF x = a THEN t ELSE of[x]]
  OBVIOUS
<1>12. g[a] = "call" /\ o[a] = t /\ \A x \in Addresses \ {a} : g[x] = tag[x] /\ o[x] = of[x]
  BY <1>11
<1> QED BY <1>1, <1>2, <1>3, <1>4, <1>5, <1>6, <1>7, <1>8, <1>9, <1>10, <1>12, GivenBack

\* An allocation is freed.
LEMMA MemFreeOwn ==
  ASSUME CudaInv, NEW t \in Threads, NEW a \in Addresses,
         MemFree(t, a), a \notin external
  PROVE  CudaInv'
<1>1. CudaTypeOK /\ Recorded
  BY DEF CudaInv
<1>2. PICK tag, of : Owned(tag, of)
  BY DEF CudaInv
<1>3. "device" \in Kinds \ Described /\ a \in tables["device"] /\ tag[a] = "device"
  <2>1. <<"device", a>> \in held /\ a \in tables["device"]
    BY DEF MemFree
  <2> QED BY <1>2, <2>1, InKinds DEF Owned, Handles, Devices
<1>4. UNCHANGED <<space, external>>
  BY <1>3 DEF MemFree
<1>5. tables'["device"] = tables["device"] \ {a} /\ \A j \in Kinds : j # "device" => tables'[j] = tables[j]
  BY <1>1 DEF MemFree, Erased, CudaTypeOK
<1>6. DOMAIN fields \ {a} \subseteq DOMAIN fields' /\ \A x \in DOMAIN fields : x # a => fields'[x] = fields[x]
  BY DEF MemFree, Drop
<1>7. held' \subseteq held /\ <<"device", a>> \notin held'
  BY DEF MemFree, Forgotten
<1>8. \A x : x # a => /\ <<"device", x>> \in held => <<"device", x>> \in held'
                      /\ <<"mapped", x>> \in held => <<"mapped", x>> \in held'
  BY DEF MemFree
<1>9. /\ calls[t] = Idle /\ calls'[t] = Freeing({a})
      /\ DOMAIN calls' = Threads /\ \A u \in Threads \ {t} : calls'[u] = calls[u]
  BY <1>1 DEF MemFree, Then, CudaTypeOK
<1>10. CudaTypeOK'
  <2>1. tables' \in [Kinds -> SUBSET Addresses]
    BY <1>1 DEF MemFree, Erased, CudaTypeOK
  <2>2. DOMAIN fields' \subseteq Addresses
    BY <1>1 DEF MemFree, Drop, CudaTypeOK
  <2> QED BY <1>1, <1>4, <1>7, <1>9, <2>1, <2>2 DEF CudaTypeOK
<1>11. PICK g, o : /\ g = [x \in Addresses |-> IF x = a THEN "call" ELSE tag[x]]
                   /\ o = [x \in Addresses |-> IF x = a THEN t ELSE of[x]]
  OBVIOUS
<1>12. g[a] = "call" /\ o[a] = t /\ \A x \in Addresses \ {a} : g[x] = tag[x] /\ o[x] = of[x]
  BY <1>11
<1> QED BY <1>1, <1>2, <1>3, <1>4, <1>5, <1>6, <1>7, <1>8, <1>9, <1>10, <1>12, GivenBack

\* A module is unloaded; its functions are used no longer.
LEMMA ModuleUnloadKept ==
  ASSUME CudaInv, NEW t \in Threads, NEW a \in Addresses,
         ModuleUnload(t, a)
  PROVE  CudaInv'
<1>1. CudaTypeOK /\ Recorded
  BY DEF CudaInv
<1>2. PICK tag, of : Owned(tag, of)
  BY DEF CudaInv
<1>3. "module" \in Kinds \ Described /\ a \in tables["module"] /\ tag[a] = "module"
  <2>1. <<"module", a>> \in held /\ a \in tables["module"]
    BY DEF ModuleUnload
  <2> QED BY <1>2, <2>1, InKinds DEF Owned, Handles
<1>4. UNCHANGED <<space, external>>
  BY <1>3 DEF ModuleUnload
<1>5. tables'["module"] = tables["module"] \ {a} /\ \A j \in Kinds : j # "module" => tables'[j] = tables[j]
  BY <1>1 DEF ModuleUnload, Erased, CudaTypeOK
<1>6. DOMAIN fields \ {a} \subseteq DOMAIN fields' /\ \A x \in DOMAIN fields : x # a => fields'[x] = fields[x]
  BY DEF ModuleUnload, Drop
<1>7. held' \subseteq held /\ <<"module", a>> \notin held'
  BY DEF ModuleUnload, Forgotten
<1>8. \A x : x # a => /\ <<"device", x>> \in held => <<"device", x>> \in held'
                      /\ <<"mapped", x>> \in held => <<"mapped", x>> \in held'
  <2>1. \A x \in FunctionsOf(a) : tag[x] \in {"function", "code"}
    BY <1>2, TagsOf DEF Marked, FunctionsOf
  <2>2. \A x : <<"device", x>> \in held \/ <<"mapped", x>> \in held => tag[x] \in {"device", "file", "page"}
    BY <1>2, InKinds DEF Owned, Handles
  <2>3. held' = Forgotten(FunctionsOf(a) \cup {a})
    BY DEF ModuleUnload
  <2> QED BY <2>1, <2>2, <2>3 DEF Forgotten
<1>9. /\ calls[t] = Idle /\ calls'[t] = Freeing({a})
      /\ DOMAIN calls' = Threads /\ \A u \in Threads \ {t} : calls'[u] = calls[u]
  BY <1>1 DEF ModuleUnload, Then, CudaTypeOK
<1>10. CudaTypeOK'
  <2>1. tables' \in [Kinds -> SUBSET Addresses]
    BY <1>1 DEF ModuleUnload, Erased, CudaTypeOK
  <2>2. DOMAIN fields' \subseteq Addresses
    BY <1>1 DEF ModuleUnload, Drop, CudaTypeOK
  <2> QED BY <1>1, <1>4, <1>7, <1>9, <2>1, <2>2 DEF CudaTypeOK
<1>11. PICK g, o : /\ g = [x \in Addresses |-> IF x = a THEN "call" ELSE tag[x]]
                   /\ o = [x \in Addresses |-> IF x = a THEN t ELSE of[x]]
  OBVIOUS
<1>12. g[a] = "call" /\ o[a] = t /\ \A x \in Addresses \ {a} : g[x] = tag[x] /\ o[x] = of[x]
  BY <1>11
<1> QED BY <1>1, <1>2, <1>3, <1>4, <1>5, <1>6, <1>7, <1>8, <1>9, <1>10, <1>12, GivenBack

\* The entry of a buffer mapped from external memory goes, the buffer stays.
LEMMA MappedBufferFreed ==
  ASSUME CudaTypeOK, Recorded, NEW tag, NEW of, Owned(tag, of), NEW g, NEW o,
         NEW a \in Addresses, a \in external,
         UNCHANGED <<space, fields>>, external' = external \ {a}, CudaTypeOK',
         \A u \in Threads : calls'[u] = calls[u],
         tables'["device"] = tables["device"] \ {a}, \A j \in Kinds : j # "device" => tables'[j] = tables[j],
         held' = held \ {<<"device", a>>},
         g = tag, o = of
  PROVE  CudaInv'
<1>1. Typed
  BY TypedTables
<1>2. Marked(tag)
  BY TagsOf
<1>3. /\ tables'["reservation"] = tables["reservation"] /\ tables'["memory"] = tables["memory"]
      /\ tables'["mipmap"] = tables["mipmap"] /\ tables'["array"] = tables["array"]
      /\ tables'["library"] = tables["library"] /\ tables'["kernel"] = tables["kernel"]
      /\ tables'["function"] = tables["function"] /\ tables'["module"] = tables["module"]
      /\ \A j \in Plain : tables'[j] = tables[j]
  BY InKinds DEF Plain
<1>4. \A u \in Threads : \A x : Busy(u, x)' <=> Busy(u, x)
  BY DEF Busy
<1>5. tag[a] = "file" /\ a \in tables["device"]
  BY DEF Owned, Devices
<1>20. CudaTypeOK'
  OBVIOUS
<1>21. Recorded'
  BY <1>3 DEF Recorded, Described
<1>22. Fresh(g)'
  BY DEF Owned, Fresh
<1>23. Objects(g)'
  BY DEF Owned, Objects, Plain
<1>24. Devices(g, o)'
  BY <1>3 DEF Owned, Devices
<1>25. Reservations(g, o)'
  BY <1>3, <1>4, <1>5 DEF Owned, Reservations
<1>26. ExternalMemories(g, o)'
  BY <1>3 DEF Owned, ExternalMemories
<1>27. Mipmaps'
  BY <1>3 DEF Owned, Mipmaps
<1>28. Kernels(g, o)'
  BY <1>3 DEF Owned, Kernels
<1>29. Libraries(g, o)'
  BY <1>3 DEF Owned, Libraries
<1>30. Handles(g)'
  BY <1>5 DEF Owned, Handles, Kinds
<1>31. Calls(g, o)'
  <2> SUFFICES ASSUME NEW u \in Threads
               PROVE  OneCall(g, o, u)'
    BY DEF Calls
  <2>1. OneCall(tag, of, u)
    BY DEF Owned, Calls
  <2>4. \A x \in Addresses : tag[x] = "call" /\ of[x] = u =>
          g[x] = "call" /\ o[x] = u /\ space'[x] = space[x]
    OBVIOUS
  <2>5. \A x \in tables["module"] : tag[x] = "maker" /\ of[x] = u =>
          x \in tables'["module"] /\ g[x] = "maker" /\ o[x] = u
    BY <1>3
  <2>6. \A x : Busy(u, x) /\ Mapping(tag, of, x) => Mapping(g, o, x)'
    BY <1>3 DEF Mapping
  <2> QED BY <1>1, <2>1, <2>5, <2>6, CallKept
<1>32. Alone(g)'
  BY <1>4 DEF Owned, Alone
<1> QED BY <1>21, <1>22, <1>23, <1>24, <1>25, <1>26, <1>27, <1>28, <1>29, <1>30, <1>31,
   <1>32 DEF CudaInv, Owned

LEMMA MemFreeKept ==
  ASSUME CudaInv, NEW t \in Threads, NEW a \in Addresses, MemFree(t, a)
  PROVE  CudaInv'
<1>1. CASE a \notin external
  BY <1>1, MemFreeOwn
<1>2. CASE a \in external
  <2>1. CudaTypeOK /\ Recorded
    BY DEF CudaInv
  <2>2. PICK tag, of : Owned(tag, of)
    BY DEF CudaInv
  <2>3. UNCHANGED <<space, fields>> /\ external' = external \ {a} /\ held' = held \ {<<"device", a>>}
    BY DEF MemFree
  <2>4. /\ tables'["device"] = tables["device"] \ {a} /\ \A j \in Kinds : j # "device" => tables'[j] = tables[j]
        /\ tables' \in [Kinds -> SUBSET Addresses]
    BY <2>1 DEF MemFree, Erased, CudaTypeOK
  <2>5. DOMAIN calls' = Threads /\ \A u \in Threads : calls'[u] = calls[u]
    BY <1>2, <2>1 DEF MemFree, Then, CudaTypeOK
  <2>6. CudaTypeOK'
    BY <2>1, <2>3, <2>4, <2>5 DEF CudaTypeOK
  <2>7. PICK g, o : g = tag /\ o = of
    OBVIOUS
  <2> QED BY <1>2, <2>1, <2>2, <2>3, <2>4, <2>5, <2>6, MappedBufferFreed
<1> QED BY <1>1, <1>2

\* A page of a reservation is mapped.
LEMMA MemMapKept ==
  ASSUME CudaInv, NEW t \in Threads, NEW base \in Addresses, NEW a \in Addresses, MemMap(t, base, a)
  PROVE  CudaInv'
<1>1. CudaTypeOK /\ Recorded /\ Typed
  BY TypedTables DEF CudaInv
<1>2. PICK tag, of : Owned(tag, of)
  BY DEF CudaInv
<1>3. Marked(tag)
  BY <1>2, TagsOf
<1>4. /\ base \in tables["reservation"] /\ a \in fields[base].pages /\ <<"mapped", a>> \notin held
      /\ calls[t] = Idle /\ calls'[t].op = "insert" /\ calls'[t].kind = "device"
      /\ calls'[t].as = "mapped" /\ calls'[t].at = a /\ calls'[t].fields = EmptyTable
      /\ DOMAIN calls' = Threads /\ \A u \in Threads \ {t} : calls'[u] = calls[u]
      /\ UNCHANGED <<tables, external, fields, held>>
  BY <1>1 DEF MemMap, Then, Insertion, CudaTypeOK
<1>5. /\ space'[a] = "mapped" /\ \A x \in Addresses \ {a} : space'[x] = space[x]
      /\ space' \in [Addresses -> {"free", "heap", "reserved", "mapped", "file"}]
  BY <1>1 DEF MemMap, At, CudaTypeOK
<1>6. \A u \in Threads : ~Busy(u, a)
  BY DEF MemMap, Quiet, Busy, Idle
<1>7. tag[a] = "page" /\ of[a] = base /\ a \notin tables["device"]
  <2>1. tag[a] = "page" /\ of[a] = base
    BY <1>2, <1>4 DEF Owned, Reservations
  <2> QED BY <1>2, <1>4, <2>1 DEF Owned, Devices
<1>8. DOMAIN EmptyTable = {}
  BY DEF EmptyTable
<1>10. PICK g, o : /\ g = tag
                   /\ o = of
  OBVIOUS
<1>11. /\ \A u \in Threads, x \in Addresses : Busy(u, x) => Busy(u, x)'
       /\ \A u \in Threads, x \in Addresses : Busy(u, x)' => Busy(u, x) \/ (u = t /\ x = a)
       /\ Busy(t, a)'
  BY <1>4 DEF Busy, Idle
<1>20. CudaTypeOK'
  BY <1>1, <1>4, <1>5 DEF CudaTypeOK
<1>21. Recorded'
  BY <1>1, <1>4 DEF Recorded
<1>22. Fresh(g)'
  BY <1>2, <1>10, <1>5 DEF Owned, Fresh
<1>23. Objects(g)'
  BY <1>1, <1>2, <1>4, <1>10, <1>5, <1>7 DEF Owned, Typed, Objects, Tagged, Plain, Kinds
<1>24. Devices(g, o)'
  BY <1>1, <1>2, <1>4, <1>10, <1>5, <1>7 DEF Owned, Typed, Devices
<1>25. Reservations(g, o)'
  BY <1>2, <1>4, <1>10, <1>5, <1>11 DEF Owned, Reservations
<1>26. ExternalMemories(g, o)'
  BY <1>2, <1>4, <1>10, <1>5, <1>7 DEF Owned, ExternalMemories
<1>27. Mipmaps'
  BY <1>2, <1>4 DEF Owned, Mipmaps
<1>28. Kernels(g, o)'
  BY <1>2, <1>4, <1>10 DEF Owned, Kernels
<1>29. Libraries(g, o)'
  BY <1>2, <1>4, <1>10 DEF Owned, Libraries
<1>30. Handles(g)'
  BY <1>2, <1>4, <1>10 DEF Owned, Handles
<1>31. Calls(g, o)'
  <2> SUFFICES ASSUME NEW u \in Threads
               PROVE  OneCall(g, o, u)'
    BY DEF Calls
  <2>1. OneCall(tag, of, u)
    BY <1>2 DEF Owned, Calls
  <2>2. CASE u = t
    <3>1. Mapping(g, o, a)'
      BY <1>4, <1>5, <1>7, <1>10 DEF Mapping
    <3> QED BY <1>4, <1>8, <2>2, <3>1 DEF OneCall, Inserting
  <2>3. CASE u # t
    <3>4. \A x \in Addresses : tag[x] = "call" /\ of[x] = u =>
            g[x] = "call" /\ o[x] = u /\ space'[x] = space[x]
      BY <1>10, <1>5, <1>7
    <3>5. \A x \in tables["module"] : tag[x] = "maker" /\ of[x] = u =>
            x \in tables'["module"] /\ g[x] = "maker" /\ o[x] = u
      BY <1>4, <1>10
    <3>6. \A x : Busy(u, x) /\ Mapping(tag, of, x) => Mapping(g, o, x)'
      BY <1>4, <1>10, <1>5 DEF Mapping
    <3> QED BY <1>1, <1>4, <2>1, <2>3, <3>4, <3>5, <3>6, CallKept
  <2> QED BY <2>2, <2>3
<1>32. Alone(g)'
  BY <1>2, <1>10, <1>6, <1>11 DEF Owned, Alone
<1> QED BY <1>20, <1>21, <1>22, <1>23, <1>24, <1>25, <1>26, <1>27, <1>28, <1>29, <1>30, <1>31,
   <1>32 DEF CudaInv, Owned

\* A mapped page leaves the set of device pointers.
LEMMA MemUnmapKept ==
  ASSUME CudaInv, NEW t \in Threads, NEW a \in Addresses, MemUnmap(t, a)
  PROVE  CudaInv'
<1>1. CudaTypeOK /\ Recorded /\ Typed
  BY TypedTables DEF CudaInv
<1>2. PICK tag, of : Owned(tag, of)
  BY DEF CudaInv
<1>3. Marked(tag)
  BY <1>2, TagsOf
<1>4. /\ <<"mapped", a>> \in held /\ a \in tables["device"] /\ held' = held \ {<<"mapped", a>>}
      /\ calls[t] = Idle /\ calls'[t] = [op |-> "reserve", at |-> {a}]
      /\ DOMAIN calls' = Threads /\ \A u \in Threads \ {t} : calls'[u] = calls[u]
      /\ UNCHANGED <<space, external, fields>>
  BY <1>1 DEF MemUnmap, Then, CudaTypeOK
<1>5. /\ tables'["device"] = tables["device"] \ {a} /\ \A j \in Kinds : j # "device" => tables'[j] = tables[j]
      /\ tables' \in [Kinds -> SUBSET Addresses]
  BY <1>1, InKinds DEF MemUnmap, Erased, CudaTypeOK
<1>6. /\ tables'["reservation"] = tables["reservation"] /\ tables'["memory"] = tables["memory"]
      /\ tables'["mipmap"] = tables["mipmap"] /\ tables'["array"] = tables["array"]
      /\ tables'["library"] = tables["library"] /\ tables'["kernel"] = tables["kernel"]
      /\ tables'["function"] = tables["function"] /\ tables'["module"] = tables["module"]
      /\ \A j \in Plain : tables'[j] = tables[j]
  BY <1>5, InKinds DEF Plain
<1>7. /\ tag[a] = "page" /\ a \notin external /\ space[a] = "mapped"
      /\ of[a] \in tables["reservation"] /\ a \in fields[of[a]].pages
  BY <1>2, <1>4 DEF Owned, Handles, Devices
<1>8. \A u \in Threads : ~Busy(u, a)
  BY <1>2, <1>4, <1>7, BusyAt DEF Mapping
<1>10. PICK g, o : /\ g = tag
                   /\ o = of
  OBVIOUS
<1>11. /\ \A u \in Threads, x \in Addresses : Busy(u, x) => Busy(u, x)'
       /\ \A u \in Threads, x \in Addresses : Busy(u, x)' => Busy(u, x) \/ (u = t /\ x = a)
       /\ Busy(t, a)'
  BY <1>4 DEF Busy, Idle
<1>20. CudaTypeOK'
  BY <1>1, <1>4, <1>5 DEF CudaTypeOK
<1>21. Recorded'
  BY <1>1, <1>4, <1>6 DEF Recorded, Described
<1>22. Fresh(g)'
  BY <1>2, <1>4, <1>10 DEF Owned, Fresh
<1>23. Objects(g)'
  BY <1>2, <1>4, <1>10, <1>6 DEF Owned, Objects
<1>24. Devices(g, o)'
  BY <1>2, <1>4, <1>10, <1>5, <1>6, <1>7 DEF Owned, Devices
<1>25. Reservations(g, o)'
  BY <1>2, <1>4, <1>10, <1>5, <1>6, <1>11 DEF Owned, Reservations
<1>26. ExternalMemories(g, o)'
  BY <1>2, <1>4, <1>10, <1>6 DEF Owned, ExternalMemories
<1>27. Mipmaps'
  BY <1>2, <1>4, <1>6 DEF Owned, Mipmaps
<1>28. Kernels(g, o)'
  BY <1>2, <1>4, <1>10, <1>6 DEF Owned, Kernels
<1>29. Libraries(g, o)'
  BY <1>2, <1>4, <1>10, <1>6 DEF Owned, Libraries
<1>30. Handles(g)'
  BY <1>2, <1>4, <1>10, <1>5 DEF Owned, Handles, Kinds
<1>31. Calls(g, o)'
  <2> SUFFICES ASSUME NEW u \in Threads
               PROVE  OneCall(g, o, u)'
    BY DEF Calls
  <2>1. OneCall(tag, of, u)
    BY <1>2 DEF Owned, Calls
  <2>2. CASE u = t
    <3>1. Mapping(g, o, a)'
      BY <1>4, <1>5, <1>6, <1>7, <1>10 DEF Mapping
    <3> QED BY <1>4, <2>2, <3>1 DEF OneCall
  <2>3. CASE u # t
    <3>4. \A x \in Addresses : tag[x] = "call" /\ of[x] = u =>
            g[x] = "call" /\ o[x] = u /\ space'[x] = space[x]
      BY <1>4, <1>10
    <3>5. \A x \in tables["module"] : tag[x] = "maker" /\ of[x] = u =>
            x \in tables'["module"] /\ g[x] = "maker" /\ o[x] = u
      BY <1>10, <1>6
    <3>6. \A x : Busy(u, x) /\ Mapping(tag, of, x) => Mapping(g, o, x)'
      BY <1>4, <1>10, <1>5, <1>6 DEF Mapping
    <3> QED BY <1>1, <1>4, <2>1, <2>3, <3>4, <3>5, <3>6, CallKept
  <2> QED BY <2>2, <2>3
<1>32. Alone(g)'
  BY <1>2, <1>10, <1>8, <1>11 DEF Owned, Alone
<1> QED BY <1>20, <1>21, <1>22, <1>23, <1>24, <1>25, <1>26, <1>27, <1>28, <1>29, <1>30, <1>31,
   <1>32 DEF CudaInv, Owned

\* A reservation nothing is mapped in is freed.
LEMMA AddressFreeKept ==
  ASSUME CudaInv, NEW t \in Threads, NEW base \in Addresses, AddressFree(t, base)
  PROVE  CudaInv'
<1>1. CudaTypeOK /\ Recorded /\ Typed
  BY TypedTables DEF CudaInv
<1>2. PICK tag, of : Owned(tag, of)
  BY DEF CudaInv
<1>3. Marked(tag)
  BY <1>2, TagsOf
<1>p. PICK pages : pages = fields[base].pages
  OBVIOUS
<1>4. /\ <<"reservation", base>> \in held /\ base \in tables["reservation"]
      /\ held' = held \ {<<"reservation", base>>} /\ \A x \in pages : <<"mapped", x>> \notin held
      /\ calls[t] = Idle /\ calls'[t].op = "free" /\ calls'[t].at = pages
      /\ DOMAIN calls' = Threads /\ \A u \in Threads \ {t} : calls'[u] = calls[u]
      /\ UNCHANGED <<space, external>>
      /\ DOMAIN fields' = DOMAIN fields \ {base}
      /\ \A x \in DOMAIN fields : x # base => fields'[x] = fields[x]
  BY <1>1, <1>p DEF AddressFree, Then, Freeing, Drop, CudaTypeOK
<1>5. \A x \in pages : \A u \in Threads : ~Busy(u, x)
  BY <1>p DEF AddressFree, Quiet, Busy, Idle
<1>6. /\ base \in pages /\ pages \subseteq Addresses /\ tag[base] = "page"
      /\ \A x \in pages : tag[x] = "page" /\ of[x] = base
  BY <1>2, <1>4, <1>p DEF Owned, Reservations
<1>7. \A x \in pages : x \notin tables["device"]
  BY <1>2, <1>4, <1>6 DEF Owned, Devices
<1>8. \A x \in pages : space[x] = "reserved"
  BY <1>2, <1>4, <1>5, <1>7, <1>p DEF Owned, Reservations
<1>9. /\ tables'["reservation"] = tables["reservation"] \ {base}
      /\ \A j \in Kinds : j # "reservation" => tables'[j] = tables[j]
      /\ tables' \in [Kinds -> SUBSET Addresses]
  BY <1>1, <1>6, <1>7, InKinds DEF AddressFree, CudaTypeOK
<1>10. PICK g, o : /\ g = [x \in Addresses |-> IF x \in pages THEN "call" ELSE tag[x]]
                   /\ o = [x \in Addresses |-> IF x \in pages THEN t ELSE of[x]]
  OBVIOUS
<1>11. /\ tables'["device"] = tables["device"] /\ tables'["memory"] = tables["memory"]
      /\ tables'["mipmap"] = tables["mipmap"] /\ tables'["array"] = tables["array"]
      /\ tables'["library"] = tables["library"] /\ tables'["kernel"] = tables["kernel"]
      /\ tables'["function"] = tables["function"] /\ tables'["module"] = tables["module"]
      /\ \A j \in Plain : tables'[j] = tables[j]
  BY <1>9, InKinds DEF Plain
<1>12. \A u \in Threads : \A x : Busy(u, x)' <=> Busy(u, x)
  BY <1>4 DEF Busy, Idle
<1>20. CudaTypeOK'
  BY <1>1, <1>4, <1>9 DEF CudaTypeOK
<1>21. Recorded'
  BY <1>1, <1>3, <1>4, <1>9, <1>11 DEF Marked, Recorded, Described
<1>22. Fresh(g)'
  BY <1>2, <1>4, <1>10, <1>8 DEF Owned, Fresh
<1>23. Objects(g)'
  BY <1>2, <1>4, <1>10, <1>8, <1>9 DEF Owned, Objects, Plain
<1>24. Devices(g, o)'
  BY <1>1, <1>2, <1>3, <1>4, <1>10, <1>8, <1>9, <1>11, <1>p DEF Owned, Typed, Marked, Devices
<1>25. Reservations(g, o)'
  BY <1>1, <1>2, <1>4, <1>10, <1>9, <1>11, <1>12, <1>p DEF Owned, Typed, Reservations
<1>26. ExternalMemories(g, o)'
  BY <1>1, <1>2, <1>3, <1>4, <1>10, <1>8, <1>11 DEF Owned, Typed, Marked, ExternalMemories
<1>27. Mipmaps'
  BY <1>1, <1>2, <1>3, <1>4, <1>11 DEF Owned, Typed, Marked, Mipmaps
<1>28. Kernels(g, o)'
  BY <1>1, <1>2, <1>3, <1>4, <1>10, <1>6, <1>11 DEF Owned, Typed, Marked, Kernels
<1>29. Libraries(g, o)'
  BY <1>1, <1>2, <1>3, <1>4, <1>10, <1>6, <1>11 DEF Owned, Typed, Marked, Libraries
<1>30. Handles(g)'
  BY <1>2, <1>4, <1>10, <1>6, <1>9 DEF Owned, Handles, Kinds
<1>31. Calls(g, o)'
  <2> SUFFICES ASSUME NEW u \in Threads
               PROVE  OneCall(g, o, u)'
    BY DEF Calls
  <2>1. OneCall(tag, of, u)
    BY <1>2 DEF Owned, Calls
  <2>2. CASE u = t
    <3>1. \A x \in pages : MadeBy(g, o, t, x, "reserved")'
      BY <1>4, <1>6, <1>8, <1>10 DEF MadeBy
    <3> QED BY <1>4, <2>2, <3>1 DEF OneCall
  <2>3. CASE u # t
    <3>4. \A x \in Addresses : tag[x] = "call" /\ of[x] = u =>
            g[x] = "call" /\ o[x] = u /\ space'[x] = space[x]
      BY <1>4, <1>10, <1>6
    <3>5. \A x \in tables["module"] : tag[x] = "maker" /\ of[x] = u =>
            x \in tables'["module"] /\ g[x] = "maker" /\ o[x] = u
      BY <1>1, <1>10, <1>6, <1>11 DEF Typed
    <3>6. \A x : Busy(u, x) /\ Mapping(tag, of, x) => Mapping(g, o, x)'
      BY <1>1, <1>4, <1>10, <1>8, <1>9, <1>11, <1>p DEF Mapping, Typed
    <3> QED BY <1>1, <1>2, <1>4, <2>1, <2>3, <3>4, <3>5, <3>6, CallKept
  <2> QED BY <2>2, <2>3
<1>32. Alone(g)'
  BY <1>2, <1>10, <1>12 DEF Owned, Alone
<1> QED BY <1>20, <1>21, <1>22, <1>23, <1>24, <1>25, <1>26, <1>27, <1>28, <1>29, <1>30, <1>31,
   <1>32 DEF CudaInv, Owned

\* An external memory's buffer is mapped.
LEMMA GetMappedBufferKept ==
  ASSUME CudaInv, NEW m \in Addresses, GetMappedBuffer(m)
  PROVE  CudaInv'
<1>1. CudaTypeOK /\ Recorded /\ Typed
  BY TypedTables DEF CudaInv
<1>2. PICK tag, of : Owned(tag, of)
  BY DEF CudaInv
<1>3. Marked(tag)
  BY <1>2, TagsOf
<1>p. PICK a : a = fields[m].mapping
  OBVIOUS
<1>4. /\ m \in tables["memory"] /\ external' = external \cup {a} /\ held' = held \cup {<<"device", a>>}
      /\ UNCHANGED <<space, fields, calls>> /\ <<"device", a>> \notin held
  BY <1>p DEF GetMappedBuffer
<1>5. a \in Addresses /\ tag[a] = "file" /\ of[a] = m /\ space[a] = "file" /\ fields[m].mapping = a
  BY <1>2, <1>4, <1>p DEF Owned, ExternalMemories
<1>6. /\ tables'["device"] = tables["device"] \cup {a} /\ \A j \in Kinds : j # "device" => tables'[j] = tables[j]
      /\ tables' \in [Kinds -> SUBSET Addresses]
  BY <1>1, <1>5, InKinds DEF GetMappedBuffer, Inserted, CudaTypeOK
<1>7. /\ tables'["reservation"] = tables["reservation"] /\ tables'["memory"] = tables["memory"]
      /\ tables'["mipmap"] = tables["mipmap"] /\ tables'["array"] = tables["array"]
      /\ tables'["library"] = tables["library"] /\ tables'["kernel"] = tables["kernel"]
      /\ tables'["function"] = tables["function"] /\ tables'["module"] = tables["module"]
      /\ \A j \in Plain : tables'[j] = tables[j]
  BY <1>6, InKinds DEF Plain
<1>10. PICK g, o : /\ g = tag
                   /\ o = of
  OBVIOUS
<1>8. \A u \in Threads : \A y : Busy(u, y)' <=> Busy(u, y)
  BY <1>4 DEF Busy
<1>20. CudaTypeOK'
  BY <1>1, <1>4, <1>6 DEF CudaTypeOK, Kinds
<1>21. Recorded'
  BY <1>1, <1>4, <1>7 DEF Recorded, Described
<1>22. Fresh(g)'
  BY <1>2, <1>4, <1>10 DEF Owned, Fresh
<1>23. Objects(g)'
  BY <1>2, <1>4, <1>10, <1>7 DEF Owned, Objects
<1>24. Devices(g, o)'
  BY <1>2, <1>4, <1>10, <1>5, <1>6, <1>7 DEF Owned, Devices
<1>25. Reservations(g, o)'
  BY <1>2, <1>4, <1>10, <1>6, <1>7, <1>8 DEF Owned, Reservations
<1>26. ExternalMemories(g, o)'
  BY <1>2, <1>4, <1>10, <1>7 DEF Owned, ExternalMemories
<1>27. Mipmaps'
  BY <1>2, <1>4, <1>7 DEF Owned, Mipmaps
<1>28. Kernels(g, o)'
  BY <1>2, <1>4, <1>10, <1>7 DEF Owned, Kernels
<1>29. Libraries(g, o)'
  BY <1>2, <1>4, <1>10, <1>7 DEF Owned, Libraries
<1>30. Handles(g)'
  <2> SUFFICES ASSUME NEW j, NEW y, <<j, y>> \in held'
               PROVE  IF j = "mapped" THEN y \in tables'["device"] /\ g[y] = "page"
                      ELSE IF j = "inner" THEN y \in tables'["module"] /\ g[y] = "inner"
                      ELSE /\ j \in Kinds /\ y \in tables'[j]
                           /\ j = "device" => g[y] = "device" \/ g[y] = "file"
                           /\ j = "module" => g[y] = "module"
    BY DEF Handles
  <2>1. CASE <<j, y>> \in held
    BY <1>2, <1>6, <1>10, <2>1 DEF Owned, Handles, Kinds
  <2>2. CASE j = "device" /\ y = a
    BY <1>5, <1>6, <1>10, <2>2, InKinds
  <2> QED BY <1>4, <2>1, <2>2
<1>31. Calls(g, o)'
  <2> SUFFICES ASSUME NEW u \in Threads
               PROVE  OneCall(g, o, u)'
    BY DEF Calls
  <2>1. OneCall(tag, of, u)
    BY <1>2 DEF Owned, Calls
  <2>4. \A x \in Addresses : tag[x] = "call" /\ of[x] = u =>
          g[x] = "call" /\ o[x] = u /\ space'[x] = space[x]
    BY <1>4, <1>10
  <2>5. \A x \in tables["module"] : tag[x] = "maker" /\ of[x] = u =>
          x \in tables'["module"] /\ g[x] = "maker" /\ o[x] = u
    BY <1>10, <1>7
  <2>6. \A x : Busy(u, x) /\ Mapping(tag, of, x) => Mapping(g, o, x)'
    BY <1>4, <1>10, <1>5, <1>6, <1>7 DEF Mapping
  <2> QED BY <1>1, <1>4, <2>1, <2>4, <2>5, <2>6, CallKept
<1>32. Alone(g)'
  BY <1>2, <1>10, <1>8 DEF Owned, Alone
<1> QED BY <1>20, <1>21, <1>22, <1>23, <1>24, <1>25, <1>26, <1>27, <1>28, <1>29, <1>30, <1>31,
   <1>32 DEF CudaInv, Owned

\* An external memory goes, whose buffer is freed and which no array uses.
LEMMA DestroyExternalMemoryKept ==
  ASSUME CudaInv, ~OldBuffers, NEW m \in Addresses, DestroyExternalMemory(m)
  PROVE  CudaInv'
<1>1. CudaTypeOK /\ Recorded /\ Typed
  BY TypedTables DEF CudaInv
<1>2. PICK tag, of : Owned(tag, of)
  BY DEF CudaInv
<1>3. Marked(tag)
  BY <1>2, TagsOf
<1>p. PICK p : p = fields[m].mapping
  OBVIOUS
<1>4. /\ m \in tables["memory"] /\ held' = held \ {<<"memory", m>>} /\ <<"device", p>> \notin held
      /\ UNCHANGED <<external, calls>> /\ \A x \in tables["mipmap"] : fields[x].memory # m
      /\ DOMAIN fields' = DOMAIN fields \ {m} /\ \A x \in DOMAIN fields : x # m => fields'[x] = fields[x]
  BY <1>p DEF DestroyExternalMemory, Drop
<1>5. p \in Addresses /\ tag[p] = "file" /\ of[p] = m /\ tag[m] = "memory" /\ p # m
  BY <1>2, <1>3, <1>4, <1>p DEF Owned, ExternalMemories, Marked
<1>6. p \notin tables["device"] /\ p \notin external
  BY <1>2, <1>4, <1>5 DEF Owned, Devices
<1>7. /\ space'[m] = "free" /\ space'[p] = "free" /\ \A x \in Addresses \ {m, p} : space'[x] = space[x]
      /\ space' \in [Addresses -> {"free", "heap", "reserved", "mapped", "file"}]
  BY <1>1, <1>5, <1>p DEF DestroyExternalMemory, At, CudaTypeOK
<1>8. /\ tables'["memory"] = tables["memory"] \ {m} /\ \A j \in Kinds : j # "memory" => tables'[j] = tables[j]
      /\ tables' \in [Kinds -> SUBSET Addresses]
  BY <1>1 DEF DestroyExternalMemory, Erased, CudaTypeOK
<1>9. /\ tables'["reservation"] = tables["reservation"] /\ tables'["device"] = tables["device"]
      /\ tables'["mipmap"] = tables["mipmap"] /\ tables'["array"] = tables["array"]
      /\ tables'["library"] = tables["library"] /\ tables'["kernel"] = tables["kernel"]
      /\ tables'["function"] = tables["function"] /\ tables'["module"] = tables["module"]
  BY <1>8, InKinds
<1>10. PICK g, o : /\ g = [x \in Addresses |-> IF x \in {m, p} THEN "nobody" ELSE tag[x]]
                   /\ o = of
  OBVIOUS
<1>11. \A u \in Threads : \A y : Busy(u, y)' <=> Busy(u, y)
  BY <1>4 DEF Busy
<1>20. CudaTypeOK'
  BY <1>1, <1>4, <1>7, <1>8 DEF CudaTypeOK
<1>21. Recorded'
  BY <1>1, <1>3, <1>4, <1>8, <1>9 DEF Marked, Recorded, Described
<1>22. Fresh(g)'
  BY <1>2, <1>10, <1>7 DEF Owned, Fresh
<1>23. Objects(g)'
  BY <1>2, <1>10, <1>5, <1>7, <1>8 DEF Owned, Objects, Tagged, Plain, Kinds
<1>24. Devices(g, o)'
  BY <1>1, <1>2, <1>3, <1>4, <1>10, <1>6, <1>7, <1>8, <1>9, <1>p DEF Owned, Typed, Marked, Devices
<1>25. Reservations(g, o)'
  BY <1>1, <1>2, <1>4, <1>10, <1>5, <1>7, <1>9, <1>11 DEF Owned, Typed, Reservations
<1>26. ExternalMemories(g, o)'
  BY <1>1, <1>2, <1>4, <1>10, <1>5, <1>7, <1>8 DEF Owned, Typed, ExternalMemories
<1>27. Mipmaps'
  BY <1>1, <1>2, <1>3, <1>4, <1>8, <1>9 DEF Owned, Typed, Marked, Mipmaps
<1>28. Kernels(g, o)'
  BY <1>1, <1>2, <1>3, <1>4, <1>10, <1>5, <1>9 DEF Owned, Typed, Marked, Kernels
<1>29. Libraries(g, o)'
  BY <1>1, <1>2, <1>3, <1>4, <1>10, <1>5, <1>9 DEF Owned, Typed, Marked, Libraries
<1>30. Handles(g)'
  BY <1>1, <1>2, <1>4, <1>10, <1>5, <1>8, <1>9 DEF Owned, Typed, Handles
<1>31. Calls(g, o)'
  <2> SUFFICES ASSUME NEW u \in Threads
               PROVE  OneCall(g, o, u)'
    BY DEF Calls
  <2>1. OneCall(tag, of, u)
    BY <1>2 DEF Owned, Calls
  <2>4. \A x \in Addresses : tag[x] = "call" /\ of[x] = u =>
          g[x] = "call" /\ o[x] = u /\ space'[x] = space[x]
    BY <1>10, <1>5, <1>7
  <2>5. \A x \in tables["module"] : tag[x] = "maker" /\ of[x] = u =>
          x \in tables'["module"] /\ g[x] = "maker" /\ o[x] = u
    BY <1>1, <1>10, <1>5, <1>9 DEF Typed
  <2>6. \A x : Busy(u, x) /\ Mapping(tag, of, x) => Mapping(g, o, x)'
    BY <1>1, <1>3, <1>4, <1>10, <1>5, <1>7, <1>9 DEF Mapping, Typed, Marked
  <2> QED BY <1>1, <1>4, <2>1, <2>4, <2>5, <2>6, CallKept
<1>32. Alone(g)'
  BY <1>2, <1>10, <1>11 DEF Owned, Alone
<1> QED BY <1>20, <1>21, <1>22, <1>23, <1>24, <1>25, <1>26, <1>27, <1>28, <1>29, <1>30, <1>31,
   <1>32 DEF CudaInv, Owned

\* A mipmapped array of an external memory is made with its levels.
LEMMA GetMappedMipmappedArrayKept ==
  ASSUME CudaInv, NEW m \in Addresses, NEW x \in Addresses, NEW levels \in SUBSET Addresses,
         GetMappedMipmappedArray(m, x, levels)
  PROVE  CudaInv'
<1>1. CudaTypeOK /\ Recorded /\ Typed
  BY TypedTables DEF CudaInv
<1>2. PICK tag, of : Owned(tag, of)
  BY DEF CudaInv
<1>3. Marked(tag)
  BY <1>2, TagsOf
<1>4. /\ m \in tables["memory"] /\ x \notin levels /\ held' = held \cup {<<"mipmap", x>>}
      /\ UNCHANGED <<external, calls>> /\ DOMAIN fields' = DOMAIN fields \cup levels \cup {x}
  BY DEF GetMappedMipmappedArray
<1>5. /\ space[x] = "free" /\ space'[x] = "heap" /\ \A y \in levels : space[y] = "free" /\ space'[y] = "heap"
      /\ \A y \in Addresses \ (levels \cup {x}) : space'[y] = space[y]
      /\ space' \in [Addresses -> {"free", "heap", "reserved", "mapped", "file"}]
  BY <1>1 DEF GetMappedMipmappedArray, Vacant, At, CudaTypeOK
<1>6. tag[x] = "nobody" /\ \A y \in levels : tag[y] = "nobody"
  BY <1>2, <1>5 DEF Owned, Fresh
<1>7. /\ fields'[x].memory = m /\ fields'[x].levels = levels /\ \A y \in levels : fields'[y].mipmap = x
      /\ \A y \in DOMAIN fields : y # x /\ y \notin levels => fields'[y] = fields[y]
  BY <1>4 DEF GetMappedMipmappedArray
<1>8. /\ tables'["mipmap"] = tables["mipmap"] \cup {x} /\ tables'["array"] = tables["array"] \cup levels
      /\ \A j \in Kinds : j \notin {"mipmap", "array"} => tables'[j] = tables[j]
      /\ tables' \in [Kinds -> SUBSET Addresses]
  BY <1>1, InKinds DEF GetMappedMipmappedArray, CudaTypeOK
<1>9. /\ tables'["reservation"] = tables["reservation"] /\ tables'["device"] = tables["device"]
      /\ tables'["memory"] = tables["memory"] /\ tables'["library"] = tables["library"]
      /\ tables'["kernel"] = tables["kernel"] /\ tables'["function"] = tables["function"]
      /\ tables'["module"] = tables["module"]
  BY <1>8, InKinds
<1>10. PICK g, o : /\ g = [y \in Addresses |-> IF y = x THEN "mipmap" ELSE IF y \in levels THEN "array" ELSE tag[y]]
                   /\ o = of
  OBVIOUS
<1>11. \A u \in Threads : \A y : Busy(u, y)' <=> Busy(u, y)
  BY <1>4 DEF Busy
<1>12. x # Nowhere /\ \A y \in tables["array"] : fields[y].mipmap # x
  BY <1>2, <1>3, <1>6, CudaAssumption DEF Owned, Mipmaps, Marked, Nowhere
<1>20. CudaTypeOK'
  BY <1>1, <1>4, <1>5, <1>8 DEF CudaTypeOK, Kinds
<1>21. Recorded'
  BY <1>1, <1>4, <1>8, <1>9 DEF Recorded, Described
<1>22. Fresh(g)'
  BY <1>2, <1>10, <1>5 DEF Owned, Fresh
<1>23. Objects(g)'
  BY <1>2, <1>4, <1>10, <1>5, <1>8 DEF Owned, Objects, Tagged, Plain
<1>24. Devices(g, o)'
  BY <1>1, <1>2, <1>3, <1>4, <1>10, <1>5, <1>6, <1>7, <1>9 DEF Owned, Typed, Marked, Devices
<1>25. Reservations(g, o)'
  BY <1>1, <1>2, <1>10, <1>5, <1>7, <1>9, <1>11 DEF Owned, Typed, Reservations
<1>26. ExternalMemories(g, o)'
  BY <1>1, <1>2, <1>3, <1>10, <1>5, <1>6, <1>7, <1>9 DEF Owned, Typed, Marked, ExternalMemories
<1>27. Mipmaps'
  BY <1>1, <1>2, <1>3, <1>4, <1>6, <1>7, <1>8, <1>9, <1>12 DEF Owned, Typed, Marked, Mipmaps
<1>28. Kernels(g, o)'
  BY <1>1, <1>2, <1>3, <1>10, <1>6, <1>7, <1>9 DEF Owned, Typed, Marked, Kernels
<1>29. Libraries(g, o)'
  BY <1>1, <1>2, <1>3, <1>10, <1>6, <1>7, <1>9 DEF Owned, Typed, Marked, Libraries
<1>30. Handles(g)'
  <2> SUFFICES ASSUME NEW j, NEW y, <<j, y>> \in held'
               PROVE  IF j = "mapped" THEN y \in tables'["device"] /\ g[y] = "page"
                      ELSE IF j = "inner" THEN y \in tables'["module"] /\ g[y] = "inner"
                      ELSE /\ j \in Kinds /\ y \in tables'[j]
                           /\ j = "device" => g[y] = "device" \/ g[y] = "file"
                           /\ j = "module" => g[y] = "module"
    BY DEF Handles
  <2>1. CASE <<j, y>> \in held
    <3>1. y \in Addresses /\ y # x /\ y \notin levels
      BY <1>1, <1>3, <1>6, <2>1 DEF Typed, Marked
    <3>2. g[y] = tag[y] /\ \A i \in Kinds : tables[i] \subseteq tables'[i]
      BY <1>8, <1>10, <3>1
    <3> QED BY <1>2, <2>1, <3>2, InKinds DEF Owned, Handles
  <2>2. CASE j = "mipmap" /\ y = x
    BY <1>8, <1>10, <2>2, InKinds
  <2> QED BY <1>4, <2>1, <2>2
<1>31. Calls(g, o)'
  <2> SUFFICES ASSUME NEW u \in Threads
               PROVE  OneCall(g, o, u)'
    BY DEF Calls
  <2>1. OneCall(tag, of, u)
    BY <1>2 DEF Owned, Calls
  <2>4. \A z \in Addresses : tag[z] = "call" /\ of[z] = u =>
          g[z] = "call" /\ o[z] = u /\ space'[z] = space[z]
    BY <1>10, <1>5, <1>6
  <2>5. \A z \in tables["module"] : tag[z] = "maker" /\ of[z] = u =>
          z \in tables'["module"] /\ g[z] = "maker" /\ o[z] = u
    BY <1>1, <1>10, <1>6, <1>9 DEF Typed
  <2>6. \A z : Busy(u, z) /\ Mapping(tag, of, z) => Mapping(g, o, z)'
    BY <1>1, <1>3, <1>10, <1>5, <1>6, <1>7, <1>9 DEF Mapping, Typed, Marked
  <2> QED BY <1>1, <1>4, <2>1, <2>4, <2>5, <2>6, CallKept
<1>32. Alone(g)'
  BY <1>2, <1>10, <1>11 DEF Owned, Alone
<1> QED BY <1>20, <1>21, <1>22, <1>23, <1>24, <1>25, <1>26, <1>27, <1>28, <1>29, <1>30, <1>31,
   <1>32 DEF CudaInv, Owned

\* A mipmapped array goes with its levels.
LEMMA MipmappedArrayDestroyKept ==
  ASSUME CudaInv, NEW x \in Addresses, MipmappedArrayDestroy(x)
  PROVE  CudaInv'
<1>1. CudaTypeOK /\ Recorded /\ Typed
  BY TypedTables DEF CudaInv
<1>2. PICK tag, of : Owned(tag, of)
  BY DEF CudaInv
<1>3. Marked(tag)
  BY <1>2, TagsOf
<1>p. PICK gone : gone = fields[x].levels \cup {x}
  OBVIOUS
<1>4. /\ x \in tables["mipmap"] /\ held' = Forgotten(gone) /\ UNCHANGED <<external, calls>>
      /\ DOMAIN fields' = DOMAIN fields \ gone /\ \A y \in DOMAIN fields \ gone : fields'[y] = fields[y]
  BY <1>p DEF MipmappedArrayDestroy, Less
<1>5. /\ gone \subseteq Addresses /\ x \in gone
      /\ \A y \in gone : y # x <=> (y \in tables["array"] /\ fields[y].mipmap = x)
      /\ \A y \in gone : tag[y] = "array" \/ (tag[y] = "mipmap" /\ y = x)
      /\ \A y \in tables["array"] : fields[y].mipmap = x => y \in gone
  BY <1>1, <1>2, <1>3, <1>4, <1>p DEF Owned, Mipmaps, Marked, Typed
<1>7. /\ \A y \in gone : space'[y] = "free"
      /\ \A y \in Addresses \ gone : space'[y] = space[y]
      /\ space' \in [Addresses -> {"free", "heap", "reserved", "mapped", "file"}]
  BY <1>1, <1>5, <1>p DEF MipmappedArrayDestroy, At, CudaTypeOK
<1>8. /\ tables'["mipmap"] = tables["mipmap"] \ gone /\ tables'["array"] = tables["array"] \ gone
      /\ \A j \in Kinds : j \notin {"mipmap", "array"} => tables'[j] = tables[j]
      /\ tables' \in [Kinds -> SUBSET Addresses]
  BY <1>1, <1>p, InKinds DEF MipmappedArrayDestroy, CudaTypeOK
<1>9. /\ tables'["reservation"] = tables["reservation"] /\ tables'["device"] = tables["device"]
      /\ tables'["memory"] = tables["memory"] /\ tables'["library"] = tables["library"]
      /\ tables'["kernel"] = tables["kernel"] /\ tables'["function"] = tables["function"]
      /\ tables'["module"] = tables["module"]
  BY <1>8, InKinds
<1>10. PICK g, o : /\ g = [z \in Addresses |-> IF z \in gone THEN "nobody" ELSE tag[z]]
                   /\ o = of
  OBVIOUS
<1>11. \A u \in Threads : \A y : Busy(u, y)' <=> Busy(u, y)
  BY <1>4 DEF Busy
<1>12. \A j, y : <<j, y>> \in held' <=> <<j, y>> \in held /\ y \notin gone
  BY <1>4 DEF Forgotten
<1>20. CudaTypeOK'
  BY <1>1, <1>4, <1>7, <1>8 DEF CudaTypeOK, Forgotten
<1>21. Recorded'
  BY <1>1, <1>3, <1>4, <1>5, <1>8, <1>9 DEF Marked, Recorded, Described
<1>22. Fresh(g)'
  BY <1>2, <1>10, <1>5, <1>7 DEF Owned, Fresh
<1>23. Objects(g)'
  BY <1>2, <1>10, <1>5, <1>7, <1>8 DEF Owned, Objects, Tagged, Plain
<1>24. Devices(g, o)'
  BY <1>1, <1>2, <1>3, <1>4, <1>10, <1>5, <1>7, <1>9, <1>12 DEF Owned, Typed, Marked, Devices
<1>25. Reservations(g, o)'
  BY <1>1, <1>2, <1>4, <1>10, <1>5, <1>7, <1>9, <1>11 DEF Owned, Typed, Reservations
<1>26. ExternalMemories(g, o)'
  BY <1>1, <1>2, <1>3, <1>4, <1>10, <1>5, <1>7, <1>9 DEF Owned, Typed, Marked, ExternalMemories
<1>27. Mipmaps'
  BY <1>1, <1>2, <1>3, <1>4, <1>5, <1>8, <1>9 DEF Owned, Typed, Marked, Mipmaps
<1>28. Kernels(g, o)'
  BY <1>1, <1>2, <1>3, <1>4, <1>10, <1>5, <1>9 DEF Owned, Typed, Marked, Kernels
<1>29. Libraries(g, o)'
  BY <1>1, <1>2, <1>3, <1>4, <1>10, <1>5, <1>9 DEF Owned, Typed, Marked, Libraries
<1>30. Handles(g)'
  BY <1>1, <1>2, <1>10, <1>8, <1>9, <1>12 DEF Owned, Typed, Handles
<1>31. Calls(g, o)'
  <2> SUFFICES ASSUME NEW u \in Threads
               PROVE  OneCall(g, o, u)'
    BY DEF Calls
  <2>1. OneCall(tag, of, u)
    BY <1>2 DEF Owned, Calls
  <2>4. \A z \in Addresses : tag[z] = "call" /\ of[z] = u =>
          g[z] = "call" /\ o[z] = u /\ space'[z] = space[z]
    BY <1>10, <1>5, <1>7
  <2>5. \A z \in tables["module"] : tag[z] = "maker" /\ of[z] = u =>
          z \in tables'["module"] /\ g[z] = "maker" /\ o[z] = u
    BY <1>1, <1>10, <1>5, <1>9 DEF Typed
  <2>6. \A z : Busy(u, z) /\ Mapping(tag, of, z) => Mapping(g, o, z)'
    BY <1>1, <1>3, <1>4, <1>10, <1>5, <1>7, <1>9 DEF Mapping, Typed, Marked
  <2> QED BY <1>1, <1>4, <2>1, <2>4, <2>5, <2>6, CallKept
<1>32. Alone(g)'
  BY <1>2, <1>10, <1>11 DEF Owned, Alone
<1> QED BY <1>20, <1>21, <1>22, <1>23, <1>24, <1>25, <1>26, <1>27, <1>28, <1>29, <1>30, <1>31,
   <1>32 DEF CudaInv, Owned

\* An array goes, and out of its mipmapped array.
LEMMA ArrayDestroyKept ==
  ASSUME CudaInv, NEW t \in Threads, NEW a \in Addresses, ArrayDestroy(t, a)
  PROVE  CudaInv'
<1>1. CudaTypeOK /\ Recorded /\ Typed
  BY TypedTables DEF CudaInv
<1>2. PICK tag, of : Owned(tag, of)
  BY DEF CudaInv
<1>3. Marked(tag)
  BY <1>2, TagsOf
<1>4. /\ a \in tables["array"] /\ held' = held \ {<<"array", a>>} /\ UNCHANGED <<space, external>>
      /\ calls[t] = Idle /\ calls'[t].op = "free" /\ calls'[t].at = {a}
      /\ DOMAIN calls' = Threads /\ \A u \in Threads \ {t} : calls'[u] = calls[u]
  BY <1>1 DEF ArrayDestroy, Then, Freeing, CudaTypeOK
<1>5. tag[a] = "array" /\ space[a] = "heap" /\ a \in DOMAIN fields
  BY <1>1, <1>2, <1>3, <1>4, InKinds DEF Owned, Objects, Marked, Typed, Plain
<1>6. a \notin tables["mipmap"]
  BY <1>3, <1>5 DEF Marked
<1>7. DOMAIN fields' = DOMAIN fields \ {a}
  BY DEF ArrayDestroy, Drop
<1>8. \A y \in DOMAIN fields : y # a /\ (y # fields[a].mipmap \/ y \notin tables["mipmap"]) => fields'[y] = fields[y]
  BY DEF ArrayDestroy, Drop
<1>9. \A y \in tables["mipmap"] : /\ fields'[y].memory = fields[y].memory
                                  /\ fields'[y].levels = fields[y].levels \ {a}
  <2> SUFFICES ASSUME NEW y \in tables["mipmap"]
               PROVE  /\ fields'[y].memory = fields[y].memory
                      /\ fields'[y].levels = fields[y].levels \ {a}
    OBVIOUS
  <2>1. y # a /\ y \in DOMAIN fields
    BY <1>1, <1>6 DEF Typed
  <2>2. CASE y = fields[a].mipmap
    <3>1. fields'[y] = [fields[y] EXCEPT !.levels = @ \ {a}]
      BY <2>1, <2>2 DEF ArrayDestroy, Drop
    <3> QED BY <3>1
  <2>3. CASE y # fields[a].mipmap
    <3>1. fields'[y] = fields[y]
      BY <1>8, <2>1, <2>3
    <3>2. a \notin fields[y].levels
      BY <1>2, <2>3 DEF Owned, Mipmaps
    <3> QED BY <3>1, <3>2
  <2> QED BY <2>2, <2>3
<1>10. PICK g, o : /\ g = [x \in Addresses |-> IF x \in {a} THEN "call" ELSE tag[x]]
                   /\ o = [x \in Addresses |-> IF x \in {a} THEN t ELSE of[x]]
  OBVIOUS
<1>11. /\ tables'["array"] = tables["array"] \ {a} /\ \A j \in Kinds : j # "array" => tables'[j] = tables[j]
      /\ tables' \in [Kinds -> SUBSET Addresses]
  BY <1>1 DEF ArrayDestroy, Erased, CudaTypeOK
<1>12. /\ tables'["reservation"] = tables["reservation"] /\ tables'["device"] = tables["device"]
      /\ tables'["memory"] = tables["memory"] /\ tables'["mipmap"] = tables["mipmap"]
      /\ tables'["library"] = tables["library"] /\ tables'["kernel"] = tables["kernel"]
      /\ tables'["function"] = tables["function"] /\ tables'["module"] = tables["module"]
  BY <1>11, InKinds
<1>13. \A u \in Threads : \A y : Busy(u, y)' <=> Busy(u, y)
  BY <1>4 DEF Busy, Idle
<1>20. CudaTypeOK'
  BY <1>1, <1>4, <1>7, <1>11 DEF CudaTypeOK
<1>21. Recorded'
  BY <1>1, <1>3, <1>5, <1>7, <1>11, <1>12 DEF Marked, Recorded, Described
<1>22. Fresh(g)'
  BY <1>2, <1>4, <1>10, <1>5 DEF Owned, Fresh
<1>23. Objects(g)'
  BY <1>2, <1>4, <1>10, <1>11 DEF Owned, Objects, Tagged, Plain, Kinds
<1>24. Devices(g, o)'
  BY <1>1, <1>2, <1>3, <1>4, <1>10, <1>8, <1>12 DEF Owned, Typed, Marked, Devices
<1>25. Reservations(g, o)'
  BY <1>1, <1>2, <1>3, <1>4, <1>10, <1>8, <1>12, <1>13 DEF Owned, Typed, Marked, Reservations
<1>26. ExternalMemories(g, o)'
  BY <1>1, <1>2, <1>3, <1>4, <1>10, <1>8, <1>12 DEF Owned, Typed, Marked, ExternalMemories
<1>27. Mipmaps'
  BY <1>1, <1>2, <1>3, <1>8, <1>9, <1>11, <1>12 DEF Owned, Typed, Marked, Mipmaps
<1>28. Kernels(g, o)'
  BY <1>1, <1>2, <1>3, <1>10, <1>5, <1>8, <1>12 DEF Owned, Typed, Marked, Kernels
<1>29. Libraries(g, o)'
  BY <1>1, <1>2, <1>3, <1>10, <1>5, <1>8, <1>12 DEF Owned, Typed, Marked, Libraries
<1>30. Handles(g)'
  BY <1>1, <1>2, <1>4, <1>10, <1>5, <1>11, <1>12 DEF Owned, Typed, Handles
<1>31. Calls(g, o)'
  <2> SUFFICES ASSUME NEW u \in Threads
               PROVE  OneCall(g, o, u)'
    BY DEF Calls
  <2>1. OneCall(tag, of, u)
    BY <1>2 DEF Owned, Calls
  <2>2. CASE u = t
    <3>1. MadeBy(g, o, t, a, "heap")'
      BY <1>4, <1>5, <1>10 DEF MadeBy
    <3> QED BY <1>4, <2>2, <3>1 DEF OneCall
  <2>3. CASE u # t
    <3>4. \A x \in Addresses : tag[x] = "call" /\ of[x] = u =>
            g[x] = "call" /\ o[x] = u /\ space'[x] = space[x]
      BY <1>4, <1>10, <1>5
    <3>5. \A x \in tables["module"] : tag[x] = "maker" /\ of[x] = u =>
            x \in tables'["module"] /\ g[x] = "maker" /\ o[x] = u
      BY <1>1, <1>10, <1>5, <1>12 DEF Typed
    <3>6. \A x : Busy(u, x) /\ Mapping(tag, of, x) => Mapping(g, o, x)'
      BY <1>1, <1>3, <1>4, <1>10, <1>8, <1>12 DEF Mapping, Typed, Marked
    <3> QED BY <1>1, <1>4, <2>1, <2>3, <3>4, <3>5, <3>6, CallKept
  <2> QED BY <2>2, <2>3
<1>32. Alone(g)'
  BY <1>2, <1>10, <1>13 DEF Owned, Alone
<1> QED BY <1>20, <1>21, <1>22, <1>23, <1>24, <1>25, <1>26, <1>27, <1>28, <1>29, <1>30, <1>31,
   <1>32 DEF CudaInv, Owned

\* A handle the driver has already is given out.
LEMMA Handed ==
  ASSUME CudaTypeOK, Recorded, NEW tag, NEW of, Owned(tag, of), NEW g, NEW o,
         NEW k, NEW a \in Addresses, held' = held \cup {<<k, a>>},
         UNCHANGED <<space, tables, external, fields, calls>>, CudaTypeOK',
         \/ k = "array" /\ a \in tables["array"]
         \/ k = "function" /\ a \in tables["function"]
         \/ k = "inner" /\ a \in tables["module"] /\ tag[a] = "inner",
         g = tag, o = of
  PROVE  CudaInv'
<1>1. Typed
  BY TypedTables
<1>2. Marked(tag)
  BY TagsOf
<1>3. \A u \in Threads : \A y : Busy(u, y)' <=> Busy(u, y)
  BY DEF Busy
<1>20. CudaTypeOK'
  OBVIOUS
<1>21. Recorded'
  BY DEF Recorded
<1>22. Fresh(g)'
  BY DEF Owned, Fresh
<1>23. Objects(g)'
  BY DEF Owned, Objects
<1>24. Devices(g, o)'
  BY DEF Owned, Devices
<1>25. Reservations(g, o)'
  BY <1>3 DEF Owned, Reservations
<1>26. ExternalMemories(g, o)'
  BY DEF Owned, ExternalMemories
<1>27. Mipmaps'
  BY DEF Owned, Mipmaps
<1>28. Kernels(g, o)'
  BY DEF Owned, Kernels
<1>29. Libraries(g, o)'
  BY DEF Owned, Libraries
<1>30. Handles(g)'
  <2> SUFFICES ASSUME NEW j, NEW y, <<j, y>> \in held'
               PROVE  IF j = "mapped" THEN y \in tables'["device"] /\ g[y] = "page"
                      ELSE IF j = "inner" THEN y \in tables'["module"] /\ g[y] = "inner"
                      ELSE /\ j \in Kinds /\ y \in tables'[j]
                           /\ j = "device" => g[y] = "device" \/ g[y] = "file"
                           /\ j = "module" => g[y] = "module"
    BY DEF Handles
  <2>1. CASE <<j, y>> \in held
    BY <2>1 DEF Owned, Handles
  <2>2. CASE j = k /\ y = a
    BY <2>2, InKinds
  <2> QED BY <2>1, <2>2
<1>31. Calls(g, o)'
  <2> SUFFICES ASSUME NEW u \in Threads
               PROVE  OneCall(g, o, u)'
    BY DEF Calls
  <2>1. OneCall(tag, of, u)
    BY DEF Owned, Calls
  <2>4. \A x \in Addresses : tag[x] = "call" /\ of[x] = u =>
          g[x] = "call" /\ o[x] = u /\ space'[x] = space[x]
    BY <1>1, <1>2, <1>3 DEF Owned
  <2>5. \A x \in tables["module"] : tag[x] = "maker" /\ of[x] = u =>
          x \in tables'["module"] /\ g[x] = "maker" /\ o[x] = u
    OBVIOUS
  <2>6. \A x : Busy(u, x) /\ Mapping(tag, of, x) => Mapping(g, o, x)'
    BY DEF Mapping
  <2> QED BY <1>1, <2>1, <2>6, CallKept
<1>32. Alone(g)'
  BY <1>3 DEF Owned, Alone
<1> QED BY <1>21, <1>22, <1>23, <1>24, <1>25, <1>26, <1>27, <1>28, <1>29, <1>30, <1>31,
   <1>32 DEF CudaInv, Owned

\* A level of a mipmapped array is given out.
LEMMA GetLevelKept ==
  ASSUME CudaInv, NEW x \in Addresses, NEW b \in Addresses, MipmappedArrayGetLevel(x, b)
  PROVE  CudaInv'
<1>1. CudaTypeOK /\ Recorded /\ Typed
  BY TypedTables DEF CudaInv
<1>2. PICK tag, of : Owned(tag, of)
  BY DEF CudaInv
<1>3. PICK a : a = b
  OBVIOUS
<1>4. held' = held \cup {<<"array", a>>} /\ UNCHANGED <<space, tables, external, fields, calls>>
  BY <1>3 DEF MipmappedArrayGetLevel
<1>5. a \in tables["array"] /\ a \in Addresses
  BY <1>2, <1>3 DEF MipmappedArrayGetLevel, Owned, Mipmaps
<1>6. CudaTypeOK'
  BY <1>1, <1>4, <1>5, InKinds DEF CudaTypeOK
<1>7. PICK g, o : g = tag /\ o = of
  OBVIOUS
<1> QED BY <1>1, <1>2, <1>4, <1>5, <1>6, Handed

\* A library's module is given out.
LEMMA GetModuleKept ==
  ASSUME CudaInv, NEW l \in Addresses, LibraryGetModule(l)
  PROVE  CudaInv'
<1>1. CudaTypeOK /\ Recorded /\ Typed
  BY TypedTables DEF CudaInv
<1>2. PICK tag, of : Owned(tag, of)
  BY DEF CudaInv
<1>3. PICK a : a = fields[l].module
  OBVIOUS
<1>4. held' = held \cup {<<"inner", a>>} /\ UNCHANGED <<space, tables, external, fields, calls>>
  BY <1>3 DEF LibraryGetModule
<1>5. a \in tables["module"] /\ tag[a] = "inner" /\ a \in Addresses
  BY <1>1, <1>2, <1>3 DEF LibraryGetModule, Owned, Libraries, Typed
<1>6. CudaTypeOK'
  BY <1>1, <1>4, <1>5 DEF CudaTypeOK
<1>7. PICK g, o : g = tag /\ o = of
  OBVIOUS
<1> QED BY <1>1, <1>2, <1>4, <1>5, <1>6, Handed

\* A kernel's function is given out.
LEMMA KernelGetFunctionKept ==
  ASSUME CudaInv, NEW k \in Addresses, KernelGetFunction(k)
  PROVE  CudaInv'
<1>1. CudaTypeOK /\ Recorded /\ Typed
  BY TypedTables DEF CudaInv
<1>2. PICK tag, of : Owned(tag, of)
  BY DEF CudaInv
<1>3. PICK a : a = fields[k].function
  OBVIOUS
<1>4. held' = held \cup {<<"function", a>>} /\ UNCHANGED <<space, tables, external, fields, calls>>
  BY <1>3 DEF KernelGetFunction
<1>5. a \in tables["function"] /\ a \in Addresses
  BY <1>1, <1>2, <1>3 DEF KernelGetFunction, Owned, Kernels, Typed
<1>6. CudaTypeOK'
  BY <1>1, <1>4, <1>5, InKinds DEF CudaTypeOK
<1>7. PICK g, o : g = tag /\ o = of
  OBVIOUS
<1> QED BY <1>1, <1>2, <1>4, <1>5, <1>6, Handed

\* A function of a module is made.
LEMMA ModuleGetFunctionKept ==
  ASSUME CudaInv, NEW m \in Addresses, NEW f \in Addresses, ModuleGetFunction(m, f)
  PROVE  CudaInv'
<1>1. CudaTypeOK /\ Recorded /\ Typed
  BY TypedTables DEF CudaInv
<1>2. PICK tag, of : Owned(tag, of)
  BY DEF CudaInv
<1>3. Marked(tag)
  BY <1>2, TagsOf
<1>4. /\ UNCHANGED <<external, calls>> /\ held' = held \cup {<<"function", f>>}
      /\ DOMAIN fields' = DOMAIN fields \cup {f} /\ \A y \in DOMAIN fields : y # f => fields'[y] = fields[y]
  BY DEF ModuleGetFunction, Put
<1>5. /\ space[f] = "free" /\ space'[f] = "heap" /\ \A y \in Addresses \ {f} : space'[y] = space[y]
      /\ space' \in [Addresses -> {"free", "heap", "reserved", "mapped", "file"}]
  BY <1>1 DEF ModuleGetFunction, Vacant, At, CudaTypeOK
<1>6. tag[f] = "nobody"
  BY <1>2, <1>5 DEF Owned, Fresh
<1>8. /\ tables'["function"] = tables["function"] \cup {f} /\ \A j \in Kinds : j # "function" => tables'[j] = tables[j]
      /\ tables' \in [Kinds -> SUBSET Addresses]
  BY <1>1, InKinds DEF ModuleGetFunction, Inserted, CudaTypeOK
<1>9. /\ tables'["reservation"] = tables["reservation"] /\ tables'["device"] = tables["device"]
      /\ tables'["memory"] = tables["memory"] /\ tables'["mipmap"] = tables["mipmap"]
      /\ tables'["array"] = tables["array"] /\ tables'["library"] = tables["library"]
      /\ tables'["kernel"] = tables["kernel"] /\ tables'["module"] = tables["module"]
  BY <1>8, InKinds
<1>10. PICK g, o : /\ g = [x \in Addresses |-> IF x \in {f} THEN "function" ELSE tag[x]]
                   /\ o = of
  OBVIOUS
<1>11. \A u \in Threads : \A y : Busy(u, y)' <=> Busy(u, y)
  BY <1>4 DEF Busy
<1>20. CudaTypeOK'
  BY <1>1, <1>4, <1>5, <1>8 DEF CudaTypeOK, Kinds
<1>21. Recorded'
  BY <1>1, <1>4, <1>8, <1>9 DEF Recorded, Described
<1>22. Fresh(g)'
  BY <1>2, <1>10, <1>5 DEF Owned, Fresh
<1>23. Objects(g)'
  BY <1>2, <1>10, <1>5, <1>8 DEF Owned, Objects, Tagged, Plain
<1>24. Devices(g, o)'
  BY <1>1, <1>2, <1>3, <1>4, <1>10, <1>5, <1>6, <1>9 DEF Owned, Typed, Marked, Devices
<1>25. Reservations(g, o)'
  BY <1>1, <1>2, <1>4, <1>10, <1>5, <1>9, <1>11 DEF Owned, Typed, Reservations
<1>26. ExternalMemories(g, o)'
  BY <1>1, <1>2, <1>3, <1>4, <1>10, <1>5, <1>6, <1>9 DEF Owned, Typed, Marked, ExternalMemories
<1>27. Mipmaps'
  BY <1>1, <1>2, <1>3, <1>4, <1>6, <1>9 DEF Owned, Typed, Marked, Mipmaps
<1>28. Kernels(g, o)'
  BY <1>1, <1>2, <1>3, <1>4, <1>10, <1>6, <1>8, <1>9 DEF Owned, Typed, Marked, Kernels
<1>29. Libraries(g, o)'
  BY <1>1, <1>2, <1>3, <1>4, <1>10, <1>6, <1>9 DEF Owned, Typed, Marked, Libraries
<1>30. Handles(g)'
  <2> SUFFICES ASSUME NEW j, NEW y, <<j, y>> \in held'
               PROVE  IF j = "mapped" THEN y \in tables'["device"] /\ g[y] = "page"
                      ELSE IF j = "inner" THEN y \in tables'["module"] /\ g[y] = "inner"
                      ELSE /\ j \in Kinds /\ y \in tables'[j]
                           /\ j = "device" => g[y] = "device" \/ g[y] = "file"
                           /\ j = "module" => g[y] = "module"
    BY DEF Handles
  <2>1. CASE <<j, y>> \in held
    <3>1. y \in Addresses /\ y # f
      BY <1>1, <1>3, <1>6, <2>1 DEF Typed, Marked
    <3>2. g[y] = tag[y] /\ \A i \in Kinds : tables[i] \subseteq tables'[i]
      BY <1>8, <1>10, <3>1
    <3> QED BY <1>2, <2>1, <3>2, InKinds DEF Owned, Handles
  <2>2. CASE j = "function" /\ y = f
    BY <1>8, <1>10, <2>2, InKinds
  <2> QED BY <1>4, <2>1, <2>2
<1>31. Calls(g, o)'
  <2> SUFFICES ASSUME NEW u \in Threads
               PROVE  OneCall(g, o, u)'
    BY DEF Calls
  <2>1. OneCall(tag, of, u)
    BY <1>2 DEF Owned, Calls
  <2>4. \A x \in Addresses : tag[x] = "call" /\ of[x] = u =>
          g[x] = "call" /\ o[x] = u /\ space'[x] = space[x]
    BY <1>10, <1>5, <1>6
  <2>5. \A x \in tables["module"] : tag[x] = "maker" /\ of[x] = u =>
          x \in tables'["module"] /\ g[x] = "maker" /\ o[x] = u
    BY <1>1, <1>10, <1>6, <1>9 DEF Typed
  <2>6. \A x : Busy(u, x) /\ Mapping(tag, of, x) => Mapping(g, o, x)'
    BY <1>1, <1>3, <1>4, <1>10, <1>5, <1>6, <1>9 DEF Mapping, Typed, Marked
  <2> QED BY <1>1, <1>4, <2>1, <2>4, <2>5, <2>6, CallKept
<1>32. Alone(g)'
  BY <1>2, <1>10, <1>11 DEF Owned, Alone
<1> QED BY <1>20, <1>21, <1>22, <1>23, <1>24, <1>25, <1>26, <1>27, <1>28, <1>29, <1>30, <1>31,
   <1>32 DEF CudaInv, Owned

\* A kernel of a library is made with its function.
LEMMA LibraryGetKernelKept ==
  ASSUME CudaInv, NEW l \in Addresses, NEW k \in Addresses, NEW f \in Addresses, LibraryGetKernel(l, k, f)
  PROVE  CudaInv'
<1>1. CudaTypeOK /\ Recorded /\ Typed
  BY TypedTables DEF CudaInv
<1>2. PICK tag, of : Owned(tag, of)
  BY DEF CudaInv
<1>3. Marked(tag)
  BY <1>2, TagsOf
<1>4. /\ l \in tables["library"] /\ k # f
      /\ UNCHANGED <<external, calls>> /\ held' = held \cup {<<"kernel", k>>}
      /\ DOMAIN fields' = DOMAIN fields \cup {k, f}
  BY DEF LibraryGetKernel, Put
<1>5. /\ space[f] = "free" /\ space'[f] = "heap" /\ space[k] = "free" /\ space'[k] = "heap"
      /\ \A y \in Addresses \ {k, f} : space'[y] = space[y]
      /\ space' \in [Addresses -> {"free", "heap", "reserved", "mapped", "file"}]
  BY <1>1 DEF LibraryGetKernel, Vacant, At, CudaTypeOK
<1>6. tag[f] = "nobody" /\ tag[k] = "nobody"
  BY <1>2, <1>5 DEF Owned, Fresh
<1>7. /\ fields'[k].library = l /\ fields'[k].function = f /\ fields'[f].module = fields[l].module
      /\ \A y \in DOMAIN fields : y \notin {k, f} => fields'[y] = fields[y]
  BY <1>4 DEF LibraryGetKernel, Put
<1>8. /\ tables'["kernel"] = tables["kernel"] \cup {k} /\ tables'["function"] = tables["function"] \cup {f}
      /\ \A j \in Kinds : j \notin {"kernel", "function"} => tables'[j] = tables[j]
      /\ tables' \in [Kinds -> SUBSET Addresses]
  BY <1>1, InKinds DEF LibraryGetKernel, CudaTypeOK
<1>9. /\ tables'["reservation"] = tables["reservation"] /\ tables'["device"] = tables["device"]
      /\ tables'["memory"] = tables["memory"] /\ tables'["mipmap"] = tables["mipmap"]
      /\ tables'["array"] = tables["array"] /\ tables'["library"] = tables["library"]
      /\ tables'["module"] = tables["module"]
  BY <1>8, InKinds
<1>10. PICK g, o : /\ g = [y \in Addresses |-> IF y = k THEN "kernel" ELSE IF y = f THEN "code" ELSE tag[y]]
                   /\ o = [x \in Addresses |-> IF x \in {f} THEN k ELSE of[x]]
  OBVIOUS
<1>11. \A u \in Threads : \A y : Busy(u, y)' <=> Busy(u, y)
  BY <1>4 DEF Busy
<1>20. CudaTypeOK'
  BY <1>1, <1>4, <1>5, <1>8 DEF CudaTypeOK, Kinds
<1>21. Recorded'
  BY <1>1, <1>4, <1>8, <1>9 DEF Recorded, Described
<1>22. Fresh(g)'
  BY <1>2, <1>10, <1>5 DEF Owned, Fresh
<1>23. Objects(g)'
  BY <1>2, <1>4, <1>10, <1>5, <1>8 DEF Owned, Objects, Tagged, Plain
<1>24. Devices(g, o)'
  BY <1>1, <1>2, <1>3, <1>4, <1>10, <1>5, <1>6, <1>7, <1>9 DEF Owned, Typed, Marked, Devices
<1>25. Reservations(g, o)'
  BY <1>1, <1>2, <1>10, <1>5, <1>7, <1>9, <1>11 DEF Owned, Typed, Reservations
<1>26. ExternalMemories(g, o)'
  BY <1>1, <1>2, <1>3, <1>10, <1>5, <1>6, <1>7, <1>9 DEF Owned, Typed, Marked, ExternalMemories
<1>27. Mipmaps'
  BY <1>1, <1>2, <1>3, <1>6, <1>7, <1>9 DEF Owned, Typed, Marked, Mipmaps
<1>28. Kernels(g, o)'
  BY <1>1, <1>2, <1>3, <1>4, <1>10, <1>6, <1>7, <1>8, <1>9 DEF Owned, Typed, Marked, Kernels
<1>29. Libraries(g, o)'
  BY <1>1, <1>2, <1>3, <1>10, <1>6, <1>7, <1>9 DEF Owned, Typed, Marked, Libraries
<1>30. Handles(g)'
  <2> SUFFICES ASSUME NEW j, NEW y, <<j, y>> \in held'
               PROVE  IF j = "mapped" THEN y \in tables'["device"] /\ g[y] = "page"
                      ELSE IF j = "inner" THEN y \in tables'["module"] /\ g[y] = "inner"
                      ELSE /\ j \in Kinds /\ y \in tables'[j]
                           /\ j = "device" => g[y] = "device" \/ g[y] = "file"
                           /\ j = "module" => g[y] = "module"
    BY DEF Handles
  <2>1. CASE <<j, y>> \in held
    <3>1. y \in Addresses /\ y \notin {k, f}
      BY <1>1, <1>3, <1>6, <2>1 DEF Typed, Marked
    <3>2. g[y] = tag[y] /\ \A i \in Kinds : tables[i] \subseteq tables'[i]
      BY <1>8, <1>10, <3>1
    <3> QED BY <1>2, <2>1, <3>2, InKinds DEF Owned, Handles
  <2>2. CASE j = "kernel" /\ y = k
    BY <1>8, <1>10, <2>2, InKinds
  <2> QED BY <1>4, <2>1, <2>2
<1>31. Calls(g, o)'
  <2> SUFFICES ASSUME NEW u \in Threads
               PROVE  OneCall(g, o, u)'
    BY DEF Calls
  <2>1. OneCall(tag, of, u)
    BY <1>2 DEF Owned, Calls
  <2>4. \A x \in Addresses : tag[x] = "call" /\ of[x] = u =>
          g[x] = "call" /\ o[x] = u /\ space'[x] = space[x]
    BY <1>10, <1>5, <1>6
  <2>5. \A x \in tables["module"] : tag[x] = "maker" /\ of[x] = u =>
          x \in tables'["module"] /\ g[x] = "maker" /\ o[x] = u
    BY <1>1, <1>10, <1>6, <1>9 DEF Typed
  <2>6. \A x : Busy(u, x) /\ Mapping(tag, of, x) => Mapping(g, o, x)'
    BY <1>1, <1>3, <1>10, <1>5, <1>6, <1>7, <1>9 DEF Mapping, Typed, Marked
  <2> QED BY <1>1, <1>4, <2>1, <2>4, <2>5, <2>6, CallKept
<1>32. Alone(g)'
  BY <1>2, <1>10, <1>11 DEF Owned, Alone
<1> QED BY <1>20, <1>21, <1>22, <1>23, <1>24, <1>25, <1>26, <1>27, <1>28, <1>29, <1>30, <1>31,
   <1>32 DEF CudaInv, Owned

\* A library's module goes again, without the library.
LEMMA LibraryFailsKept ==
  ASSUME CudaInv, NEW t \in Threads, LibraryFails(t)
  PROVE  CudaInv'
<1>1. CudaTypeOK /\ Recorded /\ Typed
  BY TypedTables DEF CudaInv
<1>2. PICK tag, of : Owned(tag, of)
  BY DEF CudaInv
<1>3. Marked(tag)
  BY <1>2, TagsOf
<1>p. PICK m : m = calls[t].at
  OBVIOUS
<1>4. /\ calls[t].op = "library" /\ calls'[t] = Idle /\ UNCHANGED <<external, fields, held>>
      /\ DOMAIN calls' = Threads /\ \A u \in Threads \ {t} : calls'[u] = calls[u]
  BY <1>1 DEF LibraryFails, CudaTypeOK
<1>5. m \in tables["module"] /\ tag[m] = "maker" /\ of[m] = t /\ m \in Addresses
  BY <1>1, <1>2, <1>4, <1>p DEF Owned, Calls, OneCall, Idle, Typed
<1>7. /\ space'[m] = "free" /\ \A y \in Addresses \ {m} : space'[y] = space[y]
      /\ space' \in [Addresses -> {"free", "heap", "reserved", "mapped", "file"}]
  BY <1>1, <1>5, <1>p DEF LibraryFails, At, CudaTypeOK
<1>8. /\ tables'["module"] = tables["module"] \ {m} /\ \A j \in Kinds : j # "module" => tables'[j] = tables[j]
      /\ tables' \in [Kinds -> SUBSET Addresses]
  BY <1>1, <1>p, InKinds DEF LibraryFails, Erased, CudaTypeOK
<1>9. /\ tables'["reservation"] = tables["reservation"] /\ tables'["device"] = tables["device"]
      /\ tables'["memory"] = tables["memory"] /\ tables'["mipmap"] = tables["mipmap"]
      /\ tables'["array"] = tables["array"] /\ tables'["library"] = tables["library"]
      /\ tables'["kernel"] = tables["kernel"] /\ tables'["function"] = tables["function"]
  BY <1>8, InKinds
<1>10. PICK g, o : /\ g = [x \in Addresses |-> IF x \in {m} THEN "nobody" ELSE tag[x]]
                   /\ o = of
  OBVIOUS
<1>11. \A u \in Threads : \A y : Busy(u, y)' <=> Busy(u, y)
  BY <1>4 DEF Busy, Idle
<1>20. CudaTypeOK'
  BY <1>1, <1>4, <1>7, <1>8 DEF CudaTypeOK
<1>21. Recorded'
  BY <1>1, <1>4, <1>9 DEF Recorded, Described
<1>22. Fresh(g)'
  BY <1>2, <1>10, <1>7 DEF Owned, Fresh
<1>23. Objects(g)'
  BY <1>2, <1>10, <1>5, <1>7, <1>8 DEF Owned, Objects, Tagged, Plain, Kinds
<1>24. Devices(g, o)'
  BY <1>1, <1>2, <1>4, <1>10, <1>5, <1>7, <1>9 DEF Owned, Typed, Devices
<1>25. Reservations(g, o)'
  BY <1>2, <1>4, <1>10, <1>5, <1>7, <1>9, <1>11 DEF Owned, Reservations
<1>26. ExternalMemories(g, o)'
  BY <1>2, <1>4, <1>10, <1>5, <1>7, <1>9 DEF Owned, ExternalMemories
<1>27. Mipmaps'
  BY <1>2, <1>4, <1>9 DEF Owned, Mipmaps
<1>28. Kernels(g, o)'
  BY <1>1, <1>2, <1>4, <1>10, <1>5, <1>9 DEF Owned, Typed, Kernels
<1>29. Libraries(g, o)'
  BY <1>1, <1>2, <1>4, <1>10, <1>5, <1>8, <1>9 DEF Owned, Typed, Libraries
<1>30. Handles(g)'
  BY <1>1, <1>2, <1>4, <1>10, <1>5, <1>8, <1>9 DEF Owned, Typed, Handles
<1>31. Calls(g, o)'
  <2> SUFFICES ASSUME NEW u \in Threads
               PROVE  OneCall(g, o, u)'
    BY DEF Calls
  <2>1. OneCall(tag, of, u)
    BY <1>2 DEF Owned, Calls
  <2>2. CASE u = t
    BY <1>4, <2>2 DEF OneCall
  <2>3. CASE u # t
    <3>4. \A x \in Addresses : tag[x] = "call" /\ of[x] = u =>
            g[x] = "call" /\ o[x] = u /\ space'[x] = space[x]
      BY <1>10, <1>5, <1>7
    <3>5. \A x \in tables["module"] : tag[x] = "maker" /\ of[x] = u =>
            x \in tables'["module"] /\ g[x] = "maker" /\ o[x] = u
      BY <1>1, <1>10, <1>5, <1>8, <2>3 DEF Typed
    <3>6. \A x : Busy(u, x) /\ Mapping(tag, of, x) => Mapping(g, o, x)'
      BY <1>4, <1>10, <1>5, <1>7, <1>9 DEF Mapping
    <3> QED BY <1>1, <1>4, <2>1, <2>3, <3>4, <3>5, <3>6, CallKept
  <2> QED BY <2>2, <2>3
<1>32. Alone(g)'
  BY <1>2, <1>10, <1>11 DEF Owned, Alone
<1> QED BY <1>20, <1>21, <1>22, <1>23, <1>24, <1>25, <1>26, <1>27, <1>28, <1>29, <1>30, <1>31,
   <1>32 DEF CudaInv, Owned

\* A library goes with its kernels, their functions and its module.
LEMMA LibraryUnloadKept ==
  ASSUME CudaInv, NEW t \in Threads, NEW l \in Addresses, LibraryUnload(t, l)
  PROVE  CudaInv'
<1>1. CudaTypeOK /\ Recorded /\ Typed
  BY TypedTables DEF CudaInv
<1>2. PICK tag, of : Owned(tag, of)
  BY DEF CudaInv
<1>3. Marked(tag)
  BY <1>2, TagsOf
<1>p. PICK m, kernels, functions :
        /\ m = fields[l].module
        /\ kernels = {k \in tables["kernel"] : fields[k].library = l}
        /\ functions = {fields[k].function : k \in kernels}
  OBVIOUS
<1>4. /\ l \in tables["library"] /\ held' = Forgotten(kernels \cup FunctionsOf(m) \cup {m, l})
      /\ UNCHANGED external
      /\ DOMAIN fields' = DOMAIN fields \ (kernels \cup functions \cup {l})
      /\ \A y \in DOMAIN fields' : fields'[y] = fields[y]
      /\ calls[t] = Idle /\ calls'[t].op = "free" /\ calls'[t].at = {m, l}
      /\ DOMAIN calls' = Threads /\ \A u \in Threads \ {t} : calls'[u] = calls[u]
  BY <1>1, <1>p DEF LibraryUnload, Then, Freeing, Less, CudaTypeOK
<1>5. /\ m \in tables["module"] /\ tag[m] = "inner" /\ of[m] = l /\ tag[l] = "library" /\ m # l
      /\ m \in Addresses
  BY <1>1, <1>2, <1>3, <1>4, <1>p DEF Owned, Libraries, Marked, Typed
<1>6. /\ \A y \in kernels : y \in tables["kernel"] /\ y \in Addresses /\ tag[y] = "kernel"
      /\ \A y \in functions : y \in FunctionsOf(m) /\ y \in Addresses /\ tag[y] = "code" /\ of[y] \in kernels
  BY <1>1, <1>2, <1>3, <1>p DEF Owned, Kernels, Marked, Typed, FunctionsOf
<1>7. \A k \in tables["kernel"] : k \notin kernels => fields[k].library # l /\ fields[k].function \notin functions
  BY <1>2, <1>p DEF Owned, Kernels
<1>8. /\ \A y \in kernels \cup functions : space'[y] = "free"
      /\ \A y \in Addresses \ (kernels \cup functions) : space'[y] = space[y]
      /\ space' \in [Addresses -> {"free", "heap", "reserved", "mapped", "file"}]
  BY <1>1, <1>6, <1>p DEF LibraryUnload, At, CudaTypeOK
<1>9. space[m] = "heap" /\ space[l] = "heap"
  BY <1>2, <1>4, <1>5, InKinds DEF Owned, Objects, Plain
<1>10. PICK g, o : /\ g = [y \in Addresses |-> IF y \in kernels \cup functions THEN "nobody"
                                          ELSE IF y \in {m, l} THEN "call" ELSE tag[y]]
                   /\ o = [x \in Addresses |-> IF x \in {m, l} THEN t ELSE of[x]]
  OBVIOUS
<1>11. /\ tables'["kernel"] = tables["kernel"] \ kernels /\ tables'["function"] = tables["function"] \ functions
       /\ tables'["module"] = tables["module"] \ {m} /\ tables'["library"] = tables["library"] \ {l}
       /\ \A j \in Kinds : j \notin {"kernel", "function", "module", "library"} => tables'[j] = tables[j]
       /\ tables' \in [Kinds -> SUBSET Addresses]
  BY <1>1, <1>p, InKinds DEF LibraryUnload, CudaTypeOK
<1>12. /\ tables'["reservation"] = tables["reservation"] /\ tables'["device"] = tables["device"]
      /\ tables'["memory"] = tables["memory"] /\ tables'["mipmap"] = tables["mipmap"]
      /\ tables'["array"] = tables["array"]
  BY <1>11, InKinds
<1>13. \A u \in Threads : \A y : Busy(u, y)' <=> Busy(u, y)
  BY <1>4 DEF Busy, Idle
<1>14. \A j, y : <<j, y>> \in held' <=> /\ <<j, y>> \in held /\ y \notin kernels
                                        /\ y \notin FunctionsOf(m) /\ y # m /\ y # l
  BY <1>4 DEF Forgotten
<1>15. FunctionsOf(m) \subseteq tables["function"]
  BY DEF FunctionsOf
<1>16. /\ \A y \in tables["reservation"] : fields'[y] = fields[y]
       /\ \A y \in tables["memory"] : fields'[y] = fields[y]
  BY <1>1, <1>3, <1>4, <1>6 DEF Typed, Marked
<1>17. \A y \in tables["device"] : /\ g[y] = tag[y] /\ o[y] = of[y] /\ space'[y] = space[y]
                                  /\ y \notin kernels /\ y \notin FunctionsOf(m) /\ y # m /\ y # l
  BY <1>1, <1>3, <1>5, <1>6, <1>8, <1>10, <1>15 DEF Typed, Marked
<1>20. CudaTypeOK'
  BY <1>1, <1>4, <1>8, <1>11 DEF CudaTypeOK, Forgotten
<1>21. Recorded'
  BY <1>1, <1>3, <1>4, <1>6, <1>11, <1>12 DEF Marked, Recorded, Described
<1>22. Fresh(g)'
  BY <1>2, <1>10, <1>8, <1>9 DEF Owned, Fresh
<1>23. Objects(g)'
  BY <1>2, <1>10, <1>5, <1>6, <1>8, <1>11 DEF Owned, Objects, Tagged, Plain, Kinds
<1>24. Devices(g, o)'
  <2>1. tables'["device"] = tables["device"] /\ tables'["memory"] = tables["memory"]
        /\ tables'["reservation"] = tables["reservation"] /\ external' = external
    BY <1>4, <1>12
  <2>3. Devices(tag, of)
    BY <1>2 DEF Owned
  <2>4. external' \subseteq tables'["device"]
    BY <2>1, <2>3 DEF Devices
  <2> SUFFICES ASSUME NEW y \in tables["device"]
               PROVE  \/ y \notin external /\ g[y] = "device" /\ space'[y] = "heap"
                      \/ /\ y \in external /\ g[y] = "file" /\ space'[y] = "file" /\ <<"device", y>> \in held'
                         /\ o[y] \in tables["memory"] /\ fields'[o[y]].mapping = y
                      \/ /\ y \notin external /\ g[y] = "page" /\ space'[y] = "mapped" /\ <<"mapped", y>> \in held'
                         /\ o[y] \in tables["reservation"] /\ y \in fields'[o[y]].pages
    BY <2>1, <2>4 DEF Devices
  <2>5. g[y] = tag[y] /\ o[y] = of[y] /\ space'[y] = space[y]
    BY <1>17
  <2>6. of[y] \in tables["memory"] \/ of[y] \in tables["reservation"] => fields'[o[y]] = fields[of[y]]
    BY <1>16, <2>5
  <2>7. /\ <<"device", y>> \in held => <<"device", y>> \in held'
        /\ <<"mapped", y>> \in held => <<"mapped", y>> \in held'
    BY <1>14, <1>17
  <2>8. \/ y \notin external /\ tag[y] = "device" /\ space[y] = "heap"
        \/ /\ y \in external /\ tag[y] = "file" /\ space[y] = "file" /\ <<"device", y>> \in held
           /\ of[y] \in tables["memory"] /\ fields[of[y]].mapping = y
        \/ /\ y \notin external /\ tag[y] = "page" /\ space[y] = "mapped" /\ <<"mapped", y>> \in held
           /\ of[y] \in tables["reservation"] /\ y \in fields[of[y]].pages
    BY <2>3 DEF Devices
  <2> QED BY <2>5, <2>6, <2>7, <2>8
<1>25. Reservations(g, o)'
  BY <1>1, <1>2, <1>4, <1>10, <1>6, <1>8, <1>9, <1>12, <1>13 DEF Owned, Typed, Reservations
<1>26. ExternalMemories(g, o)'
  BY <1>1, <1>2, <1>3, <1>4, <1>10, <1>6, <1>8, <1>9, <1>12
     DEF Owned, Typed, Marked, ExternalMemories
<1>27. Mipmaps'
  BY <1>1, <1>2, <1>3, <1>4, <1>6, <1>12 DEF Owned, Typed, Marked, Mipmaps
<1>28. Kernels(g, o)'
  BY <1>1, <1>2, <1>3, <1>4, <1>10, <1>5, <1>6, <1>7, <1>11 DEF Owned, Typed, Marked, Kernels
<1>29. Libraries(g, o)'
  BY <1>1, <1>2, <1>3, <1>4, <1>10, <1>5, <1>6, <1>11 DEF Owned, Typed, Marked, Libraries
<1>30. Handles(g)'
  <2> SUFFICES ASSUME NEW j, NEW y, <<j, y>> \in held'
               PROVE  IF j = "mapped" THEN y \in tables'["device"] /\ g[y] = "page"
                      ELSE IF j = "inner" THEN y \in tables'["module"] /\ g[y] = "inner"
                      ELSE /\ j \in Kinds /\ y \in tables'[j]
                           /\ j = "device" => g[y] = "device" \/ g[y] = "file"
                           /\ j = "module" => g[y] = "module"
    BY DEF Handles
  <2>1. <<j, y>> \in held /\ y \notin kernels \cup functions \cup {m, l} /\ y \in Addresses
    BY <1>1, <1>6, <1>14 DEF Typed
  <2>2. g[y] = tag[y]
    BY <1>10, <2>1
  <2>3. \A i \in Kinds : y \in tables[i] => y \in tables'[i]
    BY <1>11, <2>1, InKinds
  <2> QED BY <1>2, <2>1, <2>2, <2>3, InKinds DEF Owned, Handles
<1>31. Calls(g, o)'
  <2> SUFFICES ASSUME NEW u \in Threads
               PROVE  OneCall(g, o, u)'
    BY DEF Calls
  <2>1. OneCall(tag, of, u)
    BY <1>2 DEF Owned, Calls
  <2>2. CASE u = t
    <3>1. MadeBy(g, o, t, m, "heap")' /\ MadeBy(g, o, t, l, "heap")'
      BY <1>5, <1>6, <1>8, <1>9, <1>10 DEF MadeBy
    <3> QED BY <1>4, <2>2, <3>1 DEF OneCall
  <2>3. CASE u # t
    <3>4. \A x \in Addresses : tag[x] = "call" /\ of[x] = u =>
            g[x] = "call" /\ o[x] = u /\ space'[x] = space[x]
      BY <1>10, <1>5, <1>6, <1>8
    <3>5. \A x \in tables["module"] : tag[x] = "maker" /\ of[x] = u =>
            x \in tables'["module"] /\ g[x] = "maker" /\ o[x] = u
      BY <1>1, <1>10, <1>5, <1>6, <1>11 DEF Typed
    <3>6. \A x : Busy(u, x) /\ Mapping(tag, of, x) => Mapping(g, o, x)'
      BY <1>1, <1>3, <1>4, <1>10, <1>6, <1>8, <1>9, <1>12 DEF Mapping, Typed, Marked
    <3> QED BY <1>1, <1>4, <2>1, <2>3, <3>4, <3>5, <3>6, CallKept
  <2> QED BY <2>2, <2>3
<1>32. Alone(g)'
  BY <1>2, <1>10, <1>13 DEF Owned, Alone
<1> QED BY <1>20, <1>21, <1>22, <1>23, <1>24, <1>25, <1>26, <1>27, <1>28, <1>29, <1>30, <1>31,
   <1>32 DEF CudaInv, Owned

\* The constructors of allocations, streams, events, modules and semaphores.
LEMMA NewTold ==
  ASSUME CudaInv, NEW t \in Threads, NEW a \in Addresses, NEW k,
         k \in {"device", "host", "stream", "event", "module", "semaphore"}, New(t, k, a, EmptyTable)
  PROVE  CudaInv'
<1>1. k \in Kinds \ Described /\ DOMAIN EmptyTable = {}
  BY DEF Kinds, Described, EmptyTable
<1> QED BY <1>1, NewKept

LEMMA CudaStays == CudaInv /\ UNCHANGED cudaVars => CudaInv'
<1> SUFFICES ASSUME CudaInv, UNCHANGED cudaVars
             PROVE  CudaInv'
  OBVIOUS
<1>1. PICK tag, of : Owned(tag, of)
  BY DEF CudaInv
<1>2. UNCHANGED space /\ UNCHANGED tables /\ UNCHANGED external /\ UNCHANGED fields /\ UNCHANGED calls
      /\ UNCHANGED held
  BY DEF cudaVars
<1>3. CudaTypeOK' /\ Recorded'
  BY <1>2 DEF CudaInv, CudaTypeOK, Recorded
<1>4. Fresh(tag)' /\ Objects(tag)' /\ Devices(tag, of)' /\ ExternalMemories(tag, of)' /\ Mipmaps'
  BY <1>1, <1>2 DEF Owned, Fresh, Objects, Devices, ExternalMemories, Mipmaps
<1>5. Kernels(tag, of)' /\ Libraries(tag, of)' /\ Handles(tag)'
  BY <1>1, <1>2 DEF Owned, Kernels, Libraries, Handles
<1>6. Reservations(tag, of)' /\ Alone(tag)'
  BY <1>1, <1>2 DEF Owned, Reservations, Alone, Busy
<1>7. ASSUME NEW t \in Threads
      PROVE  OneCall(tag, of, t)'
  <2>1. OneCall(tag, of, t)
    BY <1>1 DEF Owned, Calls
  <2>2. \A x : Mapping(tag, of, x) => Mapping(tag, of, x)'
    BY <1>2 DEF Mapping
  <2>3. Typed
    BY TypedTables DEF CudaInv
  <2> QED BY <1>2, <2>1, <2>2, <2>3, CallKept
<1> QED BY <1>3, <1>4, <1>5, <1>6, <1>7 DEF CudaInv, Owned, Calls

----------------------------------------------------------------------------
(* The theorems.                                                           *)

LEMMA CudaStep == ~OldBuffers /\ CudaInv /\ [CudaNext]_cudaVars => CudaInv'
<1> SUFFICES ASSUME ~OldBuffers, CudaInv, [CudaNext]_cudaVars
             PROVE  CudaInv'
  OBVIOUS
<1>1. CASE Halves
  BY <1>1, InsertKept, ReleaseKept DEF Halves
<1>2. CASE Pointers
  <2>1. ASSUME NEW t \in Threads, NEW a \in Addresses, MemAlloc(t, a) \/ MemHostAlloc(t, a)
        PROVE  CudaInv'
    BY <2>1, NewTold DEF MemAlloc, MemHostAlloc
  <2>2. ASSUME NEW t \in Threads, NEW a \in Addresses, MemFreeHost(t, a)
        PROVE  CudaInv'
    BY <2>2, EraseThenFreeKept DEF MemFreeHost
  <2> QED BY <1>2, <2>1, <2>2, MemFreeKept, AddressReserveKept, AddressFreeKept, MemUnmapKept,
     MemMapKept DEF Pointers
<1>3. CASE Externals
  <2>1. ASSUME NEW t \in Threads, NEW a \in Addresses, ArrayCreate(t, a)
        PROVE  CudaInv'
    BY <2>1, NewKept DEF ArrayCreate
  <2> QED BY <1>3, <2>1, ImportExternalMemoryKept, GetMappedBufferKept, DestroyExternalMemoryKept,
     GetMappedMipmappedArrayKept, GetLevelKept, MipmappedArrayDestroyKept,
     ArrayDestroyKept DEF Externals
<1>4. CASE Code
  <2>1. ASSUME NEW t \in Threads, NEW a \in Addresses, ModuleLoad(t, a)
        PROVE  CudaInv'
    BY <2>1, NewTold DEF ModuleLoad
  <2> QED BY <1>4, <2>1, ModuleUnloadKept, LibraryLoadKept, LibraryAllocateKept, LibraryFailsKept,
     LibraryUnloadKept, GetModuleKept, KernelGetFunctionKept, ModuleGetFunctionKept,
     LibraryGetKernelKept DEF Code
<1>5. CASE Streams
  BY <1>5, NewTold, EraseThenFreeKept DEF Streams, StreamCreate, StreamDestroy, EventCreate,
     EventDestroy, ImportExternalSemaphore, DestroyExternalSemaphore
<1>6. CASE UNCHANGED cudaVars
  BY <1>6, CudaStays
<1> QED BY <1>1, <1>2, <1>3, <1>4, <1>5, <1>6 DEF CudaNext

THEOREM CudaSafety ==
  ASSUME ~OldBuffers
  PROVE  CudaSpec => []CudaInv
<1>1. CudaInit => CudaInv
  BY CudaStart
<1>2. CudaInv /\ [CudaNext]_cudaVars => CudaInv'
  BY CudaStep
<1> QED BY <1>1, <1>2, PTL DEF CudaSpec

\* The sets name live memory only.
THEOREM EntriesStayAlive ==
  ASSUME ~OldBuffers
  PROVE  CudaSpec => []EntriesAlive
<1>1. CudaInv => EntriesAlive
  BY CudaPromises
<1> QED BY <1>1, CudaSafety, PTL

\* What the application holds is accepted.
THEOREM HandlesStayKnown ==
  ASSUME ~OldBuffers
  PROVE  CudaSpec => []HandlesKnown
<1>1. CudaInv => HandlesKnown
  BY CudaPromises
<1> QED BY <1>1, CudaSafety, PTL

\* The pointers inside objects lead to live objects.
THEOREM ReferencesStayAlive ==
  ASSUME ~OldBuffers
  PROVE  CudaSpec => []ReferencesAlive
<1>1. CudaInv => ReferencesAlive
  BY CudaPromises
<1> QED BY <1>1, CudaSafety, PTL

=============================================================================
