------------------------------- MODULE MCPage -------------------------------
(***************************************************************************)
(* Page with the codec its frames go through.                              *)
(***************************************************************************)
EXTENDS Page, Framing

\* Whatever two frames are sent and wherever the connection is cut, the reader
\* (read_frame or the bridge's read_tcp_frame on what encode_frame wrote) gets
\* exactly the frames before the first bad or incomplete one, unchanged and in
\* order, and then the exception; and the node's reader, which cancels read_frame
\* after half a second (server.py:677), is not put out by a silence between frames.
\* By one inside a frame it is: it then loses the prefix it has read, and takes the
\* rest of that frame for frames.  That stream is left out.
\* Without a variable in it, it is stated of the steps.
ReadsWhatWasWritten == [][RoundTrip /\ SilenceHeard]_vars
=============================================================================
