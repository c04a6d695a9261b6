---------------------------- MODULE MCFileSystem ----------------------------
(* Model checking of FileSystem. *)
EXTENDS FileSystem

\* Two names, one a prefix of the other, one that fills its entry.
McNames == << <<97>>, <<97, 98>> >>
=============================================================================
