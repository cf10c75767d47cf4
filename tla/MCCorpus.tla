------------------------------ MODULE MCCorpus ------------------------------
(***************************************************************************)
(* The corpus on a server with two states besides the initial one.  A      *)
(* greeting without a command, a reply with two codes, silence, a reply    *)
(* without a code, and a region that parses to another state.              *)
(***************************************************************************)
EXTENDS SeedCorpus

Reply(codes) == [bytes |-> TRUE, codes |-> codes]
NoReply == [bytes |-> FALSE, codes |-> << >>]

Run(replies, slip, bits, factor, calibrates, interesting) ==
    [replies |-> replies, slip |-> slip, odd |-> 3, bits |-> bits, factor |-> factor,
     calibrates |-> calibrates, interesting |-> interesting]

\* 1 is reached alone, 2 through 1 in one reply or in two.
Login == <<Reply(<<1>>), Reply(<<2>>)>>
Both == <<Reply(<<2, 1, 2>>), Reply(<< >>)>>
Mute == <<NoReply, Reply(<<1>>)>>

MCBits == 3

Setup(schedule, state, seed, slips, room) ==
    [schedule |-> schedule, state |-> state, seed |-> seed, slips |-> slips, room |-> room]

MCSetups == {Setup("ipsm", "round_robin", "favor", FALSE, 3),
             Setup("ipsm", "favor", "round_robin", FALSE, 3),
             Setup("ipsm", "round_robin", "round_robin", TRUE, 3),
             Setup("ipsm", "random", "random", TRUE, 2),
             Setup("hybrid", "favor", "favor", FALSE, 2),
             Setup("queue", "random", "random", FALSE, 3)}

MCSeeds == {Run(Login, 0, {1, 2}, 2, TRUE, FALSE), Run(Both, 0, {1}, 1, TRUE, FALSE),
            Run(<<Reply(<< >>)>>, 0, {2}, 1, TRUE, FALSE),
            Run(<<NoReply>>, 0, {3}, 1, TRUE, FALSE), Run(Mute, 0, {3}, 1, FALSE, FALSE)}

MCMutants == {Run(<<Reply(<<1>>), NoReply>>, 0, {2, 3}, 1, TRUE, FALSE),
              Run(Both, 2, {1, 3}, 1, TRUE, FALSE),
              Run(<<Reply(<<1>>), Reply(<< >>), Reply(<<3>>)>>, 0, {2}, 3, TRUE, TRUE),
              Run(<<NoReply>>, 0, {3}, 2, FALSE, TRUE),
              Run(<<Reply(<< >>)>>, 0, {1}, 1, TRUE, TRUE)}
=============================================================================
