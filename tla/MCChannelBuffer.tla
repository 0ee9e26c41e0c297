-------------------------- MODULE MCChannelBuffer --------------------------
(***************************************************************************)
(* The instance of ChannelBuffer for TLC, ChannelBuffer_bytes.cfg: a       *)
(* device that carries every transfer out.                                 *)
(*                                                                         *)
(* Two sectors of two bytes are the least with which PTR crosses a sector, *)
(* EXT ends in the middle of one, a block transfer moves one sector or all *)
(* of them, and the one buffer has to serve two sectors.  Two byte values  *)
(* tell a byte from the zero that fills a file and from a stale one.       *)
(***************************************************************************)
EXTENDS ChannelBuffer
=============================================================================
