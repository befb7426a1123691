----------------------------- MODULE MCRegister -----------------------------
(* Instance of Register for TLC. *)
EXTENDS Register

CONSTANTS a, b, c, d, e, u, v

MCIds == {a, b, c, d, e}

\* Every ID may be added, with the URL all others have.
MCNew == {entry \in Entries : entry.url = u}

Entry(id, code) == [id |-> id, url |-> u, code |-> code]

\* Nothing, less than a page, a page, and a page and a half of the first query,
\* with repositories of the second one before, between and after the others, and
\* a register that shows one twice.
MCStarts ==
  { <<>>,
    <<Entry(a, FALSE)>>,
    <<Entry(a, TRUE), Entry(b, TRUE)>>,
    <<Entry(a, TRUE), Entry(b, TRUE), Entry(c, TRUE)>>,
    <<Entry(a, TRUE), Entry(b, FALSE), Entry(c, TRUE)>>,
    <<Entry(a, FALSE), Entry(b, FALSE), Entry(c, FALSE)>>,
    <<Entry(a, TRUE), Entry(a, TRUE), Entry(b, TRUE)>> }
=============================================================================
