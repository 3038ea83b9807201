------------------------ MODULE MCPerfumesPipeline ------------------------
(* Two perfumes, the second with or without a URL of its own. *)
EXTENDS PerfumesPipeline

CONSTANTS a, b

MCInputKeys == <<a, b>>
MCLinkChoices == {{}, {b}}
MCFaultChoices ==
  {{Find, "kill"}, {Build, "kill"}, {Find, "pause", "operator"}, {Fetch, "operator"},
   {Parse, "drift", "throw", "kill"}, {Find, Parse, "pause"}}

=============================================================================
