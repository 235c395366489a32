--------------------------- MODULE MCBrowserPages ---------------------------
(* BrowserPages for TLC: two users who share a browser, two households.     *)
EXTENDS BrowserPages, TLC

CONSTANTS u1, u2, h1, h2, all, some
MCUsers == {u1, u2}
MCHouseholds == {h1, h2}
MCFilters == {all, some}
MCSymmetry == Permutations(MCUsers) \cup Permutations(MCHouseholds)
=============================================================================
