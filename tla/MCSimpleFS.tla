----------------------------- MODULE MCSimpleFS -----------------------------
(* Names a and b, paths of up to three names, one of them relative and one *)
(* with a slash at its end; directories of three entries, six data blocks. *)
EXTENDS SimpleFS

CONSTANTS a, b

MCHome == <<a>>
MCUser == <<b>>

MCPaths ==
  {<<SLASH, a>>, <<SLASH, b>>, <<SLASH, a, b>>,
   <<SLASH, a, SLASH, a>>, <<SLASH, a, SLASH, b>>, <<SLASH, b, SLASH, a>>,
   <<SLASH, a, SLASH, b, SLASH, a>>, <<SLASH, a, SLASH>>,
   <<b, SLASH, b>>}

\* Absolute paths, no slash at the end.
MCPlainPaths ==
  {<<SLASH, a>>, <<SLASH, b>>, <<SLASH, a, SLASH, a>>, <<SLASH, a, SLASH, b>>}
=============================================================================
