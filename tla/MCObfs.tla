-------------------------------- MODULE MCObfs --------------------------------
(* The instance is given by Obfs_EmptyBody.cfg. *)
EXTENDS Obfs

\* Frames of one and two bytes, an empty one, and one longer than the buffer.
MCReplies == {<<1, 2>>, <<0, 1>>, <<3>>}
\* Headers of one line and of two, and one that is too long.
MCHeads == {<<1>>, <<1, 1>>, <<6>>}
===============================================================================
