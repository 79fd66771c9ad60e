---------------------------- MODULE TracingSetup ----------------------------
(***************************************************************************)
(* job/tracing_setup.py: when a process registers a Cloud Trace exporter.  *)
(* The global tracer provider is a proxy until somebody sets a real one.   *)
(***************************************************************************)

Providers == {"proxy", "cloud", "other"}

TracingEnv == [backend : {"gcp", "local"},      \* SOVEREIGN_BACKEND
               trace_export : BOOLEAN,          \* SOVEREIGN_TRACE_EXPORT
               exporter : {"missing", "broken", "works"}]

gcp_mode_requested(e) == e.trace_export \/ e.backend = "gcp"

\* Fault: a provider that is already there is not looked for.
registers_again(e, provider) ==
    gcp_mode_requested(e) /\ e.exporter = "works"

\* configure_cloud_trace: with the dependency missing, or an exporter that
\* cannot be built, it returns False like in the cases that need none.
registers(e, provider) ==
    /\ gcp_mode_requested(e)
    /\ provider = "proxy"
    /\ e.exporter = "works"
=============================================================================
