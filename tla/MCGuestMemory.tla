--------------------------- MODULE MCGuestMemory ---------------------------
(***************************************************************************)
(* An instance for TLC of the parts of the guest that keep tables of what  *)
(* they were given: memory, sparse bindings, the scene, the CUDA driver's  *)
(* objects, the clock shim's call sites.  What one does makes no           *)
(* difference to another: each behaviour is of one of them, "turn".        *)
(***************************************************************************)
EXTENDS GuestMemory, GuestSparse, GuestScene, CudaDriver, ClockShim

VARIABLE turn

\* Two buffers that do not overlap, and an image that does not either.
APlacement == [x \in {"a", "b", "i"} |-> CASE x = "a" -> 0 [] x = "b" -> 1 [] x = "i" -> 2]

\* Three scenes: a mesh that uses one texture twice, beside one that has only
\* bounds; a mesh that shares its texture; one mesh twice, without any.
AMesh(shape, authored, textures, descriptor) ==
  [shape |-> shape, authored |-> authored, textures |-> textures, descriptor |-> descriptor]
AManifests ==
  LET wood  == AMesh("crate", TRUE, <<"t", "t">>, TRUE)
      bare  == AMesh("arm", FALSE, <<>>, FALSE)
      paint == AMesh("wall", TRUE, <<"t">>, FALSE)
      plain == AMesh("floor", TRUE, <<>>, FALSE)
  IN  {[meshes |-> <<wood, bare>>, lights |-> <<"t">>],
       [meshes |-> <<paint>>, lights |-> <<"t">>],
       [meshes |-> <<plain, plain>>, lights |-> <<>>]}

\* Two of the three places begin their search at the same site.
AHash == [a \in {"x", "y", "z"} |-> IF a = "z" THEN 1 ELSE 0]

\* Once the application has built a top-level structure itself, the driver
\* builds none: that behaviour is followed with one such structure only.
NativeAlone == Native' = {} \/ Cardinality(Tops') = 1

\* CUDA's reservations have no page that external memory could have: each is
\* followed beside the driver's plain allocations.
Mapped == Externals \/ (\E t \in Threads, a \in Addresses : MemAlloc(t, a) \/ MemFree(t, a))

GuestInit ==
  /\ turn \in {"memory", "buffer binds", "image binds", "scene", "pointers", "externals", "code",
              "clock"}
  /\ MemoryInit /\ SparseInit /\ SceneInit /\ CudaInit /\ ShimInit

GuestNext ==
  /\ UNCHANGED turn
  /\ \/ /\ turn = "memory" /\ MemoryNext
        /\ UNCHANGED sparseVars /\ UNCHANGED sceneVars /\ UNCHANGED cudaVars /\ UNCHANGED shimVars
     \/ /\ \/ turn = "buffer binds" /\ BufferBinds
           \/ turn = "image binds" /\ ImageBinds
        /\ UNCHANGED memoryVars /\ UNCHANGED sceneVars /\ UNCHANGED cudaVars /\ UNCHANGED shimVars
     \/ /\ turn = "scene" /\ SceneNext /\ NativeAlone
        /\ UNCHANGED memoryVars /\ UNCHANGED sparseVars /\ UNCHANGED cudaVars /\ UNCHANGED shimVars
     \/ /\ turn \in {"pointers", "externals", "code"}
        /\ \/ Halves
           \/ turn = "pointers" /\ Pointers
           \/ turn = "externals" /\ Mapped
           \/ turn = "code" /\ (Code \/ Streams)
        /\ UNCHANGED memoryVars /\ UNCHANGED sparseVars /\ UNCHANGED sceneVars
        /\ UNCHANGED shimVars
     \/ /\ turn = "clock" /\ ShimNext
        /\ UNCHANGED memoryVars /\ UNCHANGED sparseVars /\ UNCHANGED sceneVars
        /\ UNCHANGED cudaVars

GuestMemorySpec ==
  GuestInit /\ [][GuestNext]_<<turn, memoryVars, sparseVars, sceneVars, cudaVars, shimVars>>

\* "traced" says what the last step did; only an action property reads it.
AllButTraced ==
  <<turn, memoryVars, sparseVars, cudaVars, shimVars, published, device, structures, cacheVars, submit>>

=============================================================================
