------------------------- MODULE MCKernelLifecycle -------------------------
(***************************************************************************)
(* Values and symmetry of KernelLifecycle's constants.                     *)
(***************************************************************************)
EXTENDS KernelLifecycle, TLC

(* The user waits for every call to end.                                    *)
NoOverlap == {}

(* Any two calls may overlap.                                               *)
AnyOverlap == Kinds \X Kinds

(* :e on a viewer fires BufUnload -> cleanup, then BufReadCmd -> open.      *)
Reopen == {<<"cleanup", "open">>}

(* The viewer is closed while its kernel starts.                            *)
CloseInStart == {<<"start", "cleanup">>}

Symmetry == Permutations(Clients) \cup Permutations(Calls)
            \cup Permutations(Buffers) \cup Permutations(Handles)
=============================================================================
