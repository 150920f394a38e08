--------------------------- MODULE MCPluginStartup ---------------------------
(* Both DDS plugins on a robot with two topics to publish.                    *)
EXTENDS PluginStartup

MCPublishers == <<"joint_states", "imu">>
=============================================================================
