---------------------------- MODULE AudioPlayer ----------------------------
(***************************************************************************)
(* audio_player.py: the subscriber callback that plays one sound file per  *)
(* message on /audio_trigger and reports on /audio_status.  rospy runs one *)
(* callback at a time; further triggers wait for it.  libvlc plays in a    *)
(* thread of its own and is outside src/.                                  *)
(*                                                                         *)
(* The two topics are parameters: triggers is the sequence of all names    *)
(* published so far, statusQ the size-1 queue of the node that listens.    *)
(***************************************************************************)
EXTENDS Naturals, Sequences

CONSTANTS
    AudioFiles,     \* the names for which <name>.mp3 exists
    PartialNames,   \* other names that are a substring of some file's path
    SlowStart,      \* may vlc need more than 0.5 s before it plays?
    ShortClips      \* may a clip last less than 0.5 s?

VARIABLES
    triggers, statusQ,
    apc,        \* idle, sleep (the 0.5 s) or poll (the while loop)
    heard,      \* how many triggers have been taken
    vlc         \* the state of the media player last created

apVars == <<apc, heard, vlc>>

VlcStates == {"NothingSpecial", "Opening", "Buffering", "Playing", "Ended", "Error"}
Clip == triggers[heard]
\* any(file_name in s for s in audio_files)
Matches(name) == name \in AudioFiles \cup PartialNames

APTypeOK ==
    /\ apc \in {"idle", "sleep", "poll"}
    /\ heard \in 0..Len(triggers)
    /\ vlc \in VlcStates

APInit == apc = "idle" /\ heard = 0 /\ vlc = "NothingSpecial"

\* The listener's queue holds one message: the newest.
Publish(s) == statusQ' = s

StartClip ==
    /\ apc = "idle" /\ heard < Len(triggers)
    /\ heard' = heard + 1
    /\ Matches(triggers[heard + 1])
    /\ vlc' = "Opening"
    /\ apc' = "sleep"
    /\ UNCHANGED <<triggers, statusQ>>

NoSuchClip ==
    /\ apc = "idle" /\ heard < Len(triggers)
    /\ heard' = heard + 1
    /\ ~Matches(triggers[heard + 1])
    /\ Publish("Error")
    /\ UNCHANGED <<triggers, apc, vlc>>

\* The state is published as it is half a second after play().
PublishFirst ==
    /\ apc = "sleep"
    /\ SlowStart \/ vlc \in {"Playing", "Ended", "Error"}
    /\ Publish(vlc)
    /\ apc' = "poll"
    /\ UNCHANGED <<triggers, heard, vlc>>

\* The loop ends on the first state that is not Playing, and publishes it.
PublishLast ==
    /\ apc = "poll" /\ vlc # "Playing"
    /\ Publish(vlc)
    /\ apc' = "idle"
    /\ UNCHANGED <<triggers, heard, vlc>>

\* libvlc: opens, buffers, plays to the end, or fails when there is no file.
VlcStep ==
    /\ \/ vlc = "Opening" /\ Clip \in AudioFiles /\ vlc' \in {"Buffering", "Playing"}
       \/ vlc = "Opening" /\ Clip \notin AudioFiles /\ vlc' = "Error"
       \/ vlc = "Buffering" /\ vlc' = "Playing"
       \/ /\ vlc = "Playing" /\ vlc' = "Ended"
          /\ ShortClips \/ apc # "sleep"
    /\ UNCHANGED <<triggers, statusQ, apc, heard>>

APNext == StartClip \/ NoSuchClip \/ PublishFirst \/ PublishLast \/ VlcStep
=============================================================================
