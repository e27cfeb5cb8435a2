-------------------------- MODULE MCHeaderDocument --------------------------
(* Headers of a few elements, two uids and two property identifiers, for TLC. *)
EXTENDS HeaderDocument, TLC

CONSTANTS u, v, p, q

Plain(kind) == [kind |-> kind, uid |-> None, name |-> None, size |-> 0, ref |-> None]
Named(kind, uid, name) == [Plain(kind) EXCEPT !.uid = uid, !.name = name]
Sized(kind, uid, size) == [Plain(kind) EXCEPT !.uid = uid, !.size = size]

Elements == {
  Plain("Metadata"), Plain("Image"), Plain("xisf"),
  Named("Property", u, p), Named("Property", None, p), Named("Property", None, q),
  Named("FITSKeyword", v, p),
  [Named("Table", None, p) EXCEPT !.size = 1], [Named("Table", v, q) EXCEPT !.size = 0],
  Sized("Structure", None, 1), Sized("Structure", u, 1), Sized("Structure", v, 2),
  Named("Thumbnail", u, None), Named("Ancillary", v, None),
  [Plain("Reference") EXCEPT !.ref = u], [Plain("Reference") EXCEPT !.ref = v] }
=============================================================================
