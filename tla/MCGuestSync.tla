---------------------------- MODULE MCGuestSync -----------------------------
(* GuestSync on small instances.                                           *)
EXTENDS GuestSync

\* Guests and user names.
CONSTANTS g1, g2, ann, bob

=============================================================================
