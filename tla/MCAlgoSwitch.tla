---------------------------- MODULE MCAlgoSwitch ----------------------------
EXTENDS AlgoSwitch, TLC

CONSTANTS t1, t2, t3, d1, d2, scrypt, x11, fine, coarse, A, B, C, D

\* Two threads on the first device, one on the second; or one on each.
Devices == t1 :> d1 @@ t2 :> d1 @@ t3 :> d2
OneEach == t1 :> d1 @@ t3 :> d2

Profile(algo, tune, clock, devices) ==
    [algorithm |-> algo, tune |-> tune, clock |-> clock, devices |-> devices]

\* From A to B the algorithm changes, from A to C the tuning and the clocks; D is A
\* on one device only.
Profiles == A :> Profile(scrypt, fine, 1, {d1, d2}) @@ B :> Profile(x11, fine, 1, {d1, d2})
            @@ C :> Profile(scrypt, coarse, 2, {d1, d2}) @@ D :> Profile(scrypt, fine, 1, {d1})

\* Every change can be made in place; a change from or to D is a hard reset.
SoftPools == {A, B, C}
HardPools == {D, B, C}

SceneOf(ps, mode, calm, sicken, switches_, commands_) ==
    [pools |-> ps, mode |-> mode, calm |-> calm, maySicken |-> sicken,
     maxSwitch |-> switches_, maxCommands |-> commands_]

\* Pools that change at any moment; devices that come, go and get sick.
Disturbed == {SceneOf(SoftPools, "pool", FALSE, FALSE, 2, 0), SceneOf(HardPools, "pool", FALSE, FALSE, 2, 0),
              SceneOf(SoftPools, "pool", TRUE, TRUE, 1, 3)}

\* Pools that change when everything is settled, in both modes.
Settled == {SceneOf(HardPools, "pool", TRUE, FALSE, 3, 0), SceneOf(SoftPools, "algo", TRUE, FALSE, 3, 0)}

\* Counterexamples.
DisableOne == {SceneOf(SoftPools, "pool", TRUE, FALSE, 1, 1)}
DisableInHard == {SceneOf(HardPools, "pool", FALSE, FALSE, 1, 1)}
SwitchOnce == {SceneOf(SoftPools, "pool", FALSE, FALSE, 1, 0)}
SwitchTwice == {SceneOf(SoftPools, "pool", FALSE, FALSE, 2, 0)}
RestartTwice == {SceneOf(HardPools, "pool", FALSE, FALSE, 2, 0)}
=============================================================================
