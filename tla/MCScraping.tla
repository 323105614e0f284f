----------------------------- MODULE MCScraping -----------------------------
(***************************************************************************)
(* An instance of Scraping: a server, alone or in a cluster of two, Calls  *)
(* with one RTCD node.                                                     *)
(***************************************************************************)
EXTENDS Scraping

CONSTANTS s1, s2, rtcd1, h1, h2

\* Nothing saved yet, the exporter switched off, a number out of its range.
SomeSettings == {Nothing, [Nothing EXCEPT !.exporter = "off"],
                 [exporter |-> "nil", numbers |-> "bad"]}
=============================================================================
