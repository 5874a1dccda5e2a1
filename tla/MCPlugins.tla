----------------------------- MODULE MCPlugins -----------------------------
(* Instances of the plugin distribution for TLC. *)
EXTENDS Plugins

\* Shared objects of different sizes.
MCFileSize == [s \in Sms |-> 200 + 10 * s]

\* Everything but losses among parallel calls; one file may be too long to send.
MCModes == {m \in [loss : BOOLEAN, sequential : BOOLEAN, max : {225, MaxDatagram}] :
              m.loss => m.sequential}
=============================================================================
