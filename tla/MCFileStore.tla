----------------------------- MODULE MCFileStore -----------------------------
(* Instances of FileStore for TLC. *)
EXTENDS FileStore, TLC

\* Requests, files and object names are only compared with one another.
FileStoreSymmetry == Permutations(Process) \cup Permutations(File) \cup Permutations(Object)
=============================================================================
