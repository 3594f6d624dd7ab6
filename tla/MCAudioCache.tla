----------------------------- MODULE MCAudioCache -----------------------------
(***************************************************************************)
(* Small instances of AudioCache: two threads under the policies that the  *)
(* script sets, and one thread under those that switch themselves.  Two    *)
(* threads in auto mode are left out: the switch inside GetAudio does not  *)
(* lock, and frees a buffer that the other thread may be using.            *)
(***************************************************************************)
EXTENDS AudioCache

CONSTANTS t1, t2

VARIABLE instance   \* the threads, policies and requests of this behaviour

MCThreads == {t1, t2}

MCRequests == {<<-1, 2>>, <<0, 2>>, <<1, 1>>, <<1, 3>>, <<2, 2>>, <<3, 1>>, <<4, 2>>, <<5, 1>>}

MCHints == {<<"AUDIO", 0>>, <<"AUDIO", 4>>, <<"NOTHING", 0>>, <<"AUTO_ON", 0>>, <<"AUTO_OFF", 0>>}

MCScoreFloor == -5

Instances ==
    {[threads |-> MCThreads, policies |-> {"AUDIO", "NOTHING"}, requests |-> {<<0, 2>>, <<1, 3>>, <<4, 1>>}],
     [threads |-> {t1}, policies |-> Policies, requests |-> MCRequests]}

MCInit ==
    /\ instance \in Instances
    /\ Init
    /\ cache.policy \in instance.policies

MCStep ==
    \/ \E t \in instance.threads, r \in instance.requests :
          GetAudioOutside(t, r) \/ GetAudio(t, r) \/ GetAudioFails(t, r)
    \/ \E t \in instance.threads : Step(t)
    \/ \E h \in Hints : h[1] \in instance.policies /\ ApplyHints(h)

MCSpec == MCInit /\ [][MCStep /\ UNCHANGED instance]_<<vars, instance>> /\ Fairness
===============================================================================
