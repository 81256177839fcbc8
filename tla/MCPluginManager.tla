--------------------------- MODULE MCPluginManager ---------------------------
(* Instances of PluginManager with two plugins and one spare list per resize. *)
EXTENDS PluginManager

=============================================================================
