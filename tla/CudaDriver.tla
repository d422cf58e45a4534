----------------------------- MODULE CudaDriver -----------------------------
(***************************************************************************)
(* The CUDA driver library the guest preloads.  Every CUDA handle and      *)
(* every device pointer is an address of this process, known to the driver *)
(* by a set or map under gCudaStateMutex.  Most calls hold the mutex only  *)
(* for that set: a constructor allocates before it inserts, a destructor   *)
(* erases before it frees, and in between other threads run and the C      *)
(* library may hand an address out again.  Threads are the application's;  *)
(* it uses one handle from one thread at a time, and gives it back once.   *)
(***************************************************************************)
EXTENDS Integers, FiniteSets, Tables

CONSTANTS
  Threads,
  Addresses,  \* places an object, an allocation or a mapping may have
  OldBuffers  \* whether the application destroys an external memory before
              \* it frees the buffer it mapped from it

ASSUME CudaAssumption == OldBuffers \in BOOLEAN /\ "none" \notin Addresses

\* The driver's sets: gDeviceAllocations, gHostAllocations, gStreams, ...
Kinds == {"device", "host", "reservation", "stream", "event", "module", "function",
          "library", "kernel", "array", "memory", "mipmap", "semaphore"}

VARIABLES
  space,     \* what the process has at each address
  tables,    \* the driver's sets, by kind
  external,  \* gExternalDevicePointers
  fields,    \* the pointers inside the recorded objects
  calls,     \* what each thread has left to do of its call
  held       \* the handles the application holds, with their kinds; it
             \* unmaps "mapped" pointers and never unloads an "inner" module

cudaVars == <<space, tables, external, fields, calls, held>>

Nowhere == "none"
Idle == [op |-> "none"]
Vacant == {a \in Addresses : space[a] = "free"}

CudaInit ==
  /\ space = [a \in Addresses |-> "free"]
  /\ tables = [k \in Kinds |-> {}]
  /\ external = {}
  /\ fields = EmptyTable
  /\ calls = [t \in Threads |-> Idle]
  /\ held = {}

----------------------------------------------------------------------------
(* The two halves of the calls that construct and destroy.                 *)

Inserted(k, as) == [tables EXCEPT ![k] = @ \cup as]
Erased(k, as) == [tables EXCEPT ![k] = @ \ as]
At(as, what) == [a \in Addresses |-> IF a \in as THEN what ELSE space[a]]
Less(table, as) == [a \in DOMAIN table \ as |-> table[a]]
Forgotten(as) == {h \in held : h[2] \notin as}

Then(t, rest) == calls[t] = Idle /\ calls' = [calls EXCEPT ![t] = rest]
Insertion(k, as, a, value) == [op |-> "insert", kind |-> k, as |-> as, at |-> a, fields |-> value]
Freeing(as) == [op |-> "free", at |-> as]

\* Mutant: the handle is written out before the set has it.
NewHandedOut(t, k, a, value) ==
  /\ a \in Vacant
  /\ Then(t, Insertion(k, k, a, value))
  /\ space' = At({a}, "heap")
  /\ held' = held \cup {<<k, a>>}
  /\ UNCHANGED <<tables, external, fields>>

\* The address a constructor allocates before it takes the mutex.
New(t, k, a, value) ==
  /\ a \in Vacant
  /\ Then(t, Insertion(k, k, a, value))
  /\ space' = At({a}, "heap")
  /\ UNCHANGED <<tables, external, fields, held>>

\* The insertion, after which the call returns its handle.
Insert(t) ==
  /\ calls[t].op = "insert"
  /\ LET c == calls[t]
     IN  /\ tables' = Inserted(c.kind, {c.at})
         /\ fields' = IF DOMAIN c.fields = {} THEN fields ELSE Put(fields, c.at, c.fields)
         /\ IF c.as = "librarymodule"
            THEN calls' = [calls EXCEPT ![t] = [op |-> "library", at |-> c.at]] /\ UNCHANGED held
            ELSE calls' = [calls EXCEPT ![t] = Idle] /\ held' = held \cup {<<c.as, c.at>>}
  /\ UNCHANGED <<space, external>>

\* The erasure of a destructor, after which it frees the address.
EraseThenFree(t, k, a) ==
  /\ <<k, a>> \in held /\ a \in tables[k]
  /\ Then(t, Freeing({a}))
  /\ tables' = Erased(k, {a})
  /\ fields' = Drop(fields, a)
  /\ held' = Forgotten({a})
  /\ UNCHANGED <<space, external>>

\* What follows the mutex: free, delete, munmap, or mmap of PROT_NONE.
Release(t) ==
  /\ calls[t].op \in {"free", "reserve"}
  /\ space' = At(calls[t].at, IF calls[t].op = "free" THEN "free" ELSE "reserved")
  /\ calls' = [calls EXCEPT ![t] = Idle]
  /\ UNCHANGED <<tables, external, fields, held>>

----------------------------------------------------------------------------
(* Device pointers.                                                        *)

MemAlloc(t, a) == New(t, "device", a, EmptyTable)
MemHostAlloc(t, a) == New(t, "host", a, EmptyTable)
MemFreeHost(t, a) == EraseThenFree(t, "host", a)

\* Mutant: cuMemFree does not tell mapped buffers from its own.
FreeAll(t, a) ==
  /\ <<"device", a>> \in held /\ a \in tables["device"]
  /\ Then(t, Freeing({a}))
  /\ tables' = Erased("device", {a})
  /\ external' = external \ {a}
  /\ held' = held \ {<<"device", a>>}
  /\ UNCHANGED <<space, fields>>

\* cuMemFree of an allocation, or of a buffer mapped from external memory,
\* which only the entry is dropped of.
MemFree(t, a) ==
  /\ <<"device", a>> \in held /\ a \in tables["device"]
  /\ Then(t, IF a \in external THEN Idle ELSE Freeing({a}))
  /\ tables' = Erased("device", {a})
  /\ external' = external \ {a}
  /\ held' = held \ {<<"device", a>>}
  /\ UNCHANGED <<space, fields>>

\* cuMemAddressReserve of the range "pages", which begins at base
AddressReserve(t, base, pages) ==
  /\ base \in pages /\ pages \subseteq Vacant
  /\ Then(t, Insertion("reservation", "reservation", base, [pages |-> pages]))
  /\ space' = At(pages, "reserved")
  /\ UNCHANGED <<tables, external, fields, held>>

\* No thread is in the middle of a call for one of these addresses.
Quiet(as) ==
  \A u \in Threads : calls[u] # Idle =>
    IF calls[u].op \in {"insert", "library"} THEN calls[u].at \notin as
                                             ELSE calls[u].at \cap as = {}

\* cuMemAddressFree, once the application has unmapped all of it
AddressFree(t, base) ==
  /\ <<"reservation", base>> \in held /\ base \in tables["reservation"]
  /\ LET pages == fields[base].pages
     IN  /\ Quiet(pages) /\ \A a \in pages : <<"mapped", a>> \notin held
         /\ Then(t, Freeing(pages))
  /\ tables' = [tables EXCEPT !["reservation"] = @ \ {base}, !["device"] = @ \ {base}]
  /\ fields' = Drop(fields, base)
  /\ held' = held \ {<<"reservation", base>>}
  /\ UNCHANGED <<space, external>>

\* cuMemMap up to its mmap, inside a reservation.  The driver checks under its
\* lock and maps after it; that is one step here, as the application does not
\* unmap or free what another of its threads is mapping.
MemMap(t, base, a) ==
  /\ <<"reservation", base>> \in held /\ base \in tables["reservation"]
  /\ a \in fields[base].pages /\ Quiet({a}) /\ <<"mapped", a>> \notin held
  /\ Then(t, Insertion("device", "mapped", a, EmptyTable))
  /\ space' = At({a}, "mapped")
  /\ UNCHANGED <<tables, external, fields, held>>

MemUnmap(t, a) ==
  /\ <<"mapped", a>> \in held /\ a \in tables["device"]
  /\ Then(t, [op |-> "reserve", at |-> {a}])
  /\ tables' = Erased("device", {a})
  /\ held' = held \ {<<"mapped", a>>}
  /\ UNCHANGED <<space, external, fields>>

----------------------------------------------------------------------------
(* External memory, its buffers and its mipmapped arrays.                  *)

\* cuImportExternalMemory: the file's mapping and the object
ImportExternalMemory(t, m, mapping) ==
  /\ {m, mapping} \subseteq Vacant /\ m # mapping
  /\ Then(t, Insertion("memory", "memory", m, [mapping |-> mapping]))
  /\ space' = [space EXCEPT ![m] = "heap", ![mapping] = "file"]
  /\ UNCHANGED <<tables, external, fields, held>>

\* cuExternalMemoryGetMappedBuffer at offset 0, once at a time
GetMappedBuffer(m) ==
  /\ <<"memory", m>> \in held /\ m \in tables["memory"]
  /\ LET a == fields[m].mapping
     IN  /\ <<"device", a>> \notin held
         /\ tables' = Inserted("device", {a})
         /\ external' = external \cup {a}
         /\ held' = held \cup {<<"device", a>>}
  /\ UNCHANGED <<space, fields, calls>>

\* Mutant: external memory goes although a mipmapped array uses it.
DestroyUsedMemory(m) ==
  /\ <<"memory", m>> \in held /\ m \in tables["memory"]
  /\ OldBuffers \/ <<"device", fields[m].mapping>> \notin held
  /\ Quiet({fields[m].mapping})
  /\ space' = At({m, fields[m].mapping}, "free")
  /\ tables' = Erased("memory", {m})
  /\ fields' = Drop(fields, m)
  /\ held' = held \ {<<"memory", m>>}
  /\ UNCHANGED <<external, calls>>

\* cuDestroyExternalMemory; a mapped buffer keeps its entries.
DestroyExternalMemory(m) ==
  /\ <<"memory", m>> \in held /\ m \in tables["memory"]
  /\ \A x \in tables["mipmap"] : fields[x].memory # m
  /\ OldBuffers \/ <<"device", fields[m].mapping>> \notin held
  /\ Quiet({fields[m].mapping})
  /\ space' = At({m, fields[m].mapping}, "free")
  /\ tables' = Erased("memory", {m})
  /\ fields' = Drop(fields, m)
  /\ held' = held \ {<<"memory", m>>}
  /\ UNCHANGED <<external, calls>>

\* cuExternalMemoryGetMappedMipmappedArray with its levels
GetMappedMipmappedArray(m, x, levels) ==
  /\ <<"memory", m>> \in held /\ m \in tables["memory"]
  /\ levels # {} /\ x \notin levels /\ levels \cup {x} \subseteq Vacant
  /\ space' = At(levels \cup {x}, "heap")
  /\ tables' = [tables EXCEPT !["mipmap"] = @ \cup {x}, !["array"] = @ \cup levels]
  /\ fields' = [a \in DOMAIN fields \cup levels \cup {x} |->
       IF a = x THEN [memory |-> m, levels |-> levels]
       ELSE IF a \in levels THEN [mipmap |-> x] ELSE fields[a]]
  /\ held' = held \cup {<<"mipmap", x>>}
  /\ UNCHANGED <<external, calls>>

MipmappedArrayGetLevel(x, a) ==
  /\ <<"mipmap", x>> \in held /\ x \in tables["mipmap"] /\ a \in fields[x].levels
  /\ held' = held \cup {<<"array", a>>}
  /\ UNCHANGED <<space, tables, external, fields, calls>>

\* cuMipmappedArrayDestroy; its levels go with it.
MipmappedArrayDestroy(x) ==
  /\ <<"mipmap", x>> \in held /\ x \in tables["mipmap"]
  /\ LET gone == fields[x].levels \cup {x}
     IN  /\ space' = At(gone, "free")
         /\ tables' = [tables EXCEPT !["mipmap"] = @ \ gone, !["array"] = @ \ gone]
         /\ fields' = Less(fields, gone)
         /\ held' = Forgotten(gone)
  /\ UNCHANGED <<external, calls>>

ArrayCreate(t, a) == New(t, "array", a, [mipmap |-> Nowhere])

\* cuArrayDestroy, which also takes a level out of its mipmapped array
ArrayDestroy(t, a) ==
  /\ <<"array", a>> \in held /\ a \in tables["array"]
  /\ Then(t, Freeing({a}))
  /\ tables' = Erased("array", {a})
  /\ LET x == fields[a].mipmap
     IN  fields' = IF x \in tables["mipmap"]
                   THEN Drop([fields EXCEPT ![x] = [fields[x] EXCEPT !.levels = @ \ {a}]], a)
                   ELSE Drop(fields, a)
  /\ held' = held \ {<<"array", a>>}
  /\ UNCHANGED <<space, external>>

----------------------------------------------------------------------------
(* Modules, libraries, functions and kernels: tokens, nothing is compiled. *)

ModuleLoad(t, a) == New(t, "module", a, EmptyTable)

FunctionsOf(m) == {f \in tables["function"] : fields[f].module = m}

\* cuModuleUnload leaves the module's functions in their set for good; the
\* application no longer uses them.
ModuleUnload(t, m) ==
  /\ <<"module", m>> \in held /\ m \in tables["module"]
  /\ Then(t, Freeing({m}))
  /\ tables' = Erased("module", {m})
  /\ held' = Forgotten(FunctionsOf(m) \cup {m})
  /\ UNCHANGED <<space, external, fields>>

\* loadLibraryToken: first a module of its own, inserted, then the library
LibraryLoad(t, m) ==
  /\ m \in Vacant
  /\ Then(t, Insertion("module", "librarymodule", m, EmptyTable))
  /\ space' = At({m}, "heap")
  /\ UNCHANGED <<tables, external, fields, held>>

LibraryAllocate(t, a) ==
  /\ calls[t].op = "library" /\ a \in Vacant
  /\ calls' = [calls EXCEPT ![t] = Insertion("library", "library", a, [module |-> calls[t].at])]
  /\ space' = At({a}, "heap")
  /\ UNCHANGED <<tables, external, fields, held>>

\* Without memory for the library its module goes again, under the mutex.
LibraryFails(t) ==
  /\ calls[t].op = "library"
  /\ calls' = [calls EXCEPT ![t] = Idle]
  /\ space' = At({calls[t].at}, "free")
  /\ tables' = Erased("module", {calls[t].at})
  /\ UNCHANGED <<external, fields, held>>

LibraryGetModule(l) ==
  /\ <<"library", l>> \in held /\ l \in tables["library"]
  /\ fields[l].module \in tables["module"]
  /\ held' = held \cup {<<"inner", fields[l].module>>}
  /\ UNCHANGED <<space, tables, external, fields, calls>>

ModuleGetFunction(m, f) ==
  /\ {<<"module", m>>, <<"inner", m>>} \cap held # {} /\ m \in tables["module"]
  /\ f \in Vacant
  /\ space' = At({f}, "heap")
  /\ tables' = Inserted("function", {f})
  /\ fields' = Put(fields, f, [module |-> m])
  /\ held' = held \cup {<<"function", f>>}
  /\ UNCHANGED <<external, calls>>

\* cuLibraryGetKernel: a kernel and its function
LibraryGetKernel(l, k, f) ==
  /\ <<"library", l>> \in held /\ l \in tables["library"]
  /\ {k, f} \subseteq Vacant /\ k # f
  /\ space' = At({k, f}, "heap")
  /\ tables' = [tables EXCEPT !["kernel"] = @ \cup {k}, !["function"] = @ \cup {f}]
  /\ fields' = Put(Put(fields, f, [module |-> fields[l].module]),
                   k, [library |-> l, function |-> f])
  /\ held' = held \cup {<<"kernel", k>>}
  /\ UNCHANGED <<external, calls>>

KernelGetFunction(k) ==
  /\ <<"kernel", k>> \in held /\ k \in tables["kernel"]
  /\ held' = held \cup {<<"function", fields[k].function>>}
  /\ UNCHANGED <<space, tables, external, fields, calls>>

\* cuLibraryUnload: kernels and their functions die under the mutex, the
\* module and the library after it.
LibraryUnload(t, l) ==
  /\ <<"library", l>> \in held /\ l \in tables["library"]
  /\ LET m == fields[l].module
         kernels == {k \in tables["kernel"] : fields[k].library = l}
         functions == {fields[k].function : k \in kernels}
     IN  /\ Then(t, Freeing({m, l}))
         /\ tables' = [tables EXCEPT !["kernel"] = @ \ kernels, !["function"] = @ \ functions,
                                     !["module"] = @ \ {m}, !["library"] = @ \ {l}]
         /\ fields' = Less(fields, kernels \cup functions \cup {l})
         /\ space' = At(kernels \cup functions, "free")
         /\ held' = Forgotten(kernels \cup FunctionsOf(m) \cup {m, l})
  /\ UNCHANGED external

----------------------------------------------------------------------------
(* Streams, events and external semaphores.  Their work is done at once;   *)
(* what signals and waits do to a semaphore's file is GuestQueue's.        *)

StreamCreate(t, a) == New(t, "stream", a, EmptyTable)
StreamDestroy(t, a) == EraseThenFree(t, "stream", a)
EventCreate(t, a) == New(t, "event", a, EmptyTable)
EventDestroy(t, a) == EraseThenFree(t, "event", a)
ImportExternalSemaphore(t, a) == New(t, "semaphore", a, EmptyTable)
DestroyExternalSemaphore(t, a) == EraseThenFree(t, "semaphore", a)

----------------------------------------------------------------------------

Halves == \E t \in Threads : Insert(t) \/ Release(t)

Pointers ==
  \E t \in Threads, a \in Addresses :
    \/ MemAlloc(t, a) \/ MemFree(t, a) \/ MemHostAlloc(t, a) \/ MemFreeHost(t, a)
    \/ \E pages \in SUBSET Addresses : AddressReserve(t, a, pages)
    \/ AddressFree(t, a) \/ MemUnmap(t, a)
    \/ \E base \in Addresses : MemMap(t, base, a)

Externals ==
  \/ \E t \in Threads, m, a \in Addresses : ImportExternalMemory(t, m, a)
  \/ \E m \in Addresses :
       \/ GetMappedBuffer(m) \/ DestroyExternalMemory(m)
       \/ \E x \in Addresses :
            \/ \E levels \in SUBSET Addresses : GetMappedMipmappedArray(m, x, levels)
            \/ MipmappedArrayGetLevel(x, m)
       \/ MipmappedArrayDestroy(m)
  \/ \E t \in Threads, a \in Addresses : ArrayCreate(t, a) \/ ArrayDestroy(t, a)

Code ==
  \E a \in Addresses :
    \/ \E t \in Threads :
         \/ ModuleLoad(t, a) \/ ModuleUnload(t, a)
         \/ LibraryLoad(t, a) \/ LibraryAllocate(t, a) \/ LibraryFails(t) \/ LibraryUnload(t, a)
    \/ LibraryGetModule(a) \/ KernelGetFunction(a)
    \/ \E f \in Addresses :
         \/ ModuleGetFunction(a, f)
         \/ \E k \in Addresses : LibraryGetKernel(a, k, f)

Streams ==
  \E t \in Threads, a \in Addresses :
    \/ StreamCreate(t, a) \/ StreamDestroy(t, a)
    \/ EventCreate(t, a) \/ EventDestroy(t, a)
    \/ ImportExternalSemaphore(t, a) \/ DestroyExternalSemaphore(t, a)

CudaNext == Halves \/ Pointers \/ Externals \/ Code \/ Streams

----------------------------------------------------------------------------

CudaTypeOK ==
  /\ space \in [Addresses -> {"free", "heap", "reserved", "mapped", "file"}]
  /\ tables \in [Kinds -> SUBSET Addresses]
  /\ external \subseteq Addresses
  /\ DOMAIN fields \subseteq Addresses
  /\ DOMAIN calls = Threads
  /\ held \subseteq (Kinds \cup {"mapped", "inner"}) \X Addresses

\* What the process has at an address an entry of the driver names
Backing(k, a) ==
  IF k = "reservation" THEN {"reserved", "mapped"}
  ELSE IF k # "device" THEN {"heap"}
  ELSE IF a \in external THEN {"file"} ELSE {"heap", "mapped"}

\* Whatever threads allocate, free and map at the same time, no set of the
\* driver names memory that is gone or has become another object, and what a
\* call still has to free is a plain allocation nobody else knows.
EntriesAlive ==
  /\ \A k \in Kinds : \A a \in tables[k] : space[a] \in Backing(k, a)
  /\ \A j, k \in Kinds \ {"reservation"} : j # k => tables[j] \cap tables[k] = {}
  /\ external \subseteq tables["device"]
  /\ \A t \in Threads : calls[t].op = "free" => \A a \in calls[t].at :
       space[a] \in {"heap", "reserved"} /\ \A k \in Kinds : a \notin tables[k]

\* A handle the application holds is one the driver accepts.
KindOf(h) == CASE h[1] = "mapped" -> "device" [] h[1] = "inner" -> "module" [] OTHER -> h[1]
HandlesKnown == \A h \in held : h[2] \in tables[KindOf(h)]

\* The pointers the driver follows inside its objects lead to live ones: a
\* mipmapped array has its memory and exactly its levels, a kernel its
\* library and its function, a library its module.
ReferencesAlive ==
  /\ \A x \in tables["mipmap"] :
       /\ fields[x].memory \in tables["memory"]
       /\ fields[x].levels = {a \in tables["array"] : fields[a].mipmap = x}
  /\ \A k \in tables["kernel"] :
       fields[k].library \in tables["library"] /\ fields[k].function \in tables["function"]
  /\ \A l \in tables["library"] : fields[l].module \in tables["module"]

CudaSpec == CudaInit /\ [][CudaNext]_cudaVars

=============================================================================
