----------------------------- MODULE VenueMirror -----------------------------
(***************************************************************************)
(* What a locally maintained order book promises: while it is in sync it   *)
(* shows the venue's levels as of one update, that update never goes back, *)
(* and a diff loses no level that the book had right.  It may fall out of  *)
(* sync at any time; a snapshot brings it back.                            *)
(***************************************************************************)
EXTENDS VenueBook

VARIABLES venue,  \* the number of the venue's last update
          synced, \* the book claims to mirror the venue
          at,     \* the update it is at
          levels  \* its quantities

mirrorVars == <<venue, synced, at, levels>>

MirrorInit == venue = 0 /\ ~synced /\ at = 0 /\ levels = Empty

VenueUpdates == venue' = venue + 1 /\ UNCHANGED <<synced, at, levels>>

Seed ==
  /\ synced' /\ at' \in 0 .. venue
  /\ synced => at' >= at
  /\ levels' = levelMap(at')
  /\ UNCHANGED venue

Advance ==
  /\ synced /\ synced'
  /\ at' \in at + 1 .. venue
  /\ Faithful(levels', at')
  /\ \A p \in Levels : levels[p] = Quantity[at][p] => levels'[p] = Quantity[at'][p]
  /\ UNCHANGED venue

Lose == synced /\ ~synced' /\ at' = 0 /\ levels' = Empty /\ UNCHANGED venue

Mirror == MirrorInit /\ [][VenueUpdates \/ Seed \/ Advance \/ Lose]_mirrorVars
=============================================================================
