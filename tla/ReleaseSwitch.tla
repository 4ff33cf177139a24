---------------------------- MODULE ReleaseSwitch ----------------------------
(***************************************************************************)
(* What a deploy promises, with its steps, backups and the web site's      *)
(* writes hidden: the host switches to a release in one step - link,       *)
(* config, metadata, sidecars, schema, units as they were - or it keeps    *)
(* what it had, or someone is told that it is in neither state             *)
(* (deploy/kayak-deploy.sh, activate_release and rollback).                *)
(***************************************************************************)
EXTENDS Naturals

CONSTANTS
    Release,    \* release ids
    NoRelease,  \* nothing deployed yet
    Unit,       \* the units of the host
    Enabled,    \* those that start with it
    Level       \* Level[r]: how many migrations engine r knows

VARIABLES
    site,       \* what the host is
    told        \* someone has to act
vars == <<site, told>>

MaybeRelease == Release \cup {NoRelease}
Site == [current : MaybeRelease, config : MaybeRelease, meta : MaybeRelease,
         geom : MaybeRelease, level : Nat, partial : Nat, active : SUBSET Unit]

\* Everything of s comes from r, and its schema is complete.
IsOf(s, r) ==
    /\ s.current = r /\ s.config = r /\ s.meta = r /\ s.geom = r
    /\ s.partial = 0
    /\ r # NoRelease => s.level >= Level[r]

Init ==
    /\ site \in Site
    /\ \E r \in MaybeRelease : IsOf(site, r)
    /\ site.active = Enabled
    /\ told = FALSE

\* The switch, which also mends a host that someone was told about.
Activate ==
    /\ site' \in Site
    /\ \E r \in Release : IsOf(site', r)
    /\ site'.active = site.active
    /\ told' = FALSE

Reboot ==
    /\ site' = [site EXCEPT !.active = Enabled]
    /\ UNCHANGED told

\* Nothing is promised until the next switch.
Trouble ==
    /\ site' \in Site
    /\ told' = TRUE

Next == Activate \/ Reboot \/ Trouble

Spec == Init /\ [][Next]_vars
=============================================================================
