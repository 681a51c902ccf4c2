------------------------------- MODULE MCQueue -------------------------------
(* Small instances of Queue for TLC: two short sources that share a track. *)
EXTENDS Queue

const_Playlists == {<<1, 2, 3>>, <<3, 4>>}
const_Stations == {<<4>>}
const_Suggested == {<<4, 2>>}
=============================================================================
