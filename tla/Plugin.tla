------------------------------- MODULE Plugin -------------------------------
(***************************************************************************)
(* plugin/index.mjs, node-compat as a compiler plugin: which ambient names *)
(* the host owns and what C++ each is, which builtin modules a program may *)
(* look up at run time, and the rewriting of require() of a native addon.  *)
(* A C++ spelling is <<namespace, name>>.                                  *)
(***************************************************************************)
EXTENDS Project

----------------
(* intrinsics.mjs: the ambient names of the first protocol and the C++ that *)
(* each calls, by group; a declaration's types are left out.                *)

OwnName(prefix, names) == [x \in {prefix \o n : n \in names} |-> <<"", x>>]
InNode(names) == [x \in {"__gea_node_" \o n : n \in names} |-> <<"node", CHOOSE n \in names : x = "__gea_node_" \o n>>]

httpIntrinsics ==
    OwnName("__gea_", {"answer", "serve_hello"})
    @@ OwnName("__gea_http_", {"serve", "write", "write2", "head_begin", "head_field", "head_raw", "head_end", "body", "text_bytes", "final_chunk",
                               "write_bytes", "body_bytes", "done", "destroy", "peer", "connection_open", "date", "date_second", "stop"})
timerIntrinsics ==
    LET timeout == <<"", "__gea_node_set_timeout">>
        interval == <<"", "__gea_node_set_interval">>
        clear == <<"", "__gea_node_clear_timer">> IN
    ("setTimeout" :> timeout) @@ ("setInterval" :> interval) @@ [x \in {"clearTimeout", "clearInterval", "__gea_node_timer_clear"} |-> clear]
    @@ ("__gea_node_timer_start_timeout" :> timeout) @@ ("__gea_node_timer_start_interval" :> interval)
    @@ OwnName("__gea_node_", {"timer_unref", "immediate_start", "immediate_clear", "immediate_ref", "immediate_unref"})
processIntrinsics ==
    ("__gea_node_process_env" :> <<"", "gea_cpp_process_env">>)
    @@ OwnName("__gea_node_", {"version", "platform", "os_arch", "os_release", "cluster_worker_id", "cluster_fork", "cluster_spawn_error",
                               "cluster_next_exit", "cluster_exit_code", "cluster_exit_signal", "cluster_kill", "process_pid", "process_ppid",
                               "process_exit", "process_default_exit_status", "os_available_parallelism", "os_type", "stdio_write",
                               "fs_access", "fs_stat", "fs_stat_field"})
    @@ InNode({"cluster_set_notify", "cluster_watch_channel", "crypto_random_bytes"}) @@ ("__gea_node_fs_read_file" :> <<"node", "read_file">>)
netIntrinsics ==
    InNode({"net_create", "net_create_error", "net_create_errno", "net_error_errno", "net_error_syscall", "net_errno_name", "net_resolve",
            "net_resolve_count", "net_resolve_address", "net_resolve_family", "net_resolve_error_code", "net_resolve_errno", "net_resolve_release",
            "net_addrconfig_hint", "net_next_event", "net_read", "net_error", "net_write", "framed_socket_pool_open", "framed_socket_pool_exchange",
            "framed_socket_pool_close", "net_buffer_size", "net_end", "net_destroy", "net_reset_and_destroy", "net_set_paused", "net_set_referenced",
            "net_set_notify", "net_set_keep_alive", "net_set_no_delay", "net_remote_address", "net_remote_port", "net_remote_family",
            "net_local_address", "net_local_port", "net_local_family"})
addressIntrinsics ==
    InNode({"net_is_ip", "net_normalize_ip", "net_ip_compare", "net_ip_in_subnet"}
           \cup {"net_server_" \o n : n \in {"listen", "create_error", "error", "next_event", "take_connection", "close", "set_referenced",
                                             "set_max_connections", "connections", "address", "port", "family"}})
intrinsics == httpIntrinsics @@ timerIntrinsics @@ processIntrinsics @@ netIntrinsics @@ addressIntrinsics

----------------
(* The host functions that the second protocol adds, a few rows of them.   *)

nodeOnlyHostFunctions ==
    ("queueMicrotask" :> <<"node", "queue_microtask">>) @@ ("__gea_node_crypto_digest" :> <<"crypto", "digest">>)
    @@ ("__gea_node_zlib_inflate" :> <<"zlib", "inflate">>) @@ ("__gea_node_brotli_decompress" :> <<"brotli", "decompress">>)
v1OnlyIntrinsicNames == {"setTimeout", "setInterval", "clearTimeout", "clearInterval"}
\* a later row of a Map replaces an earlier one of its name
hostFunctions(table) == nodeOnlyHostFunctions @@ Restrict(table, DOMAIN table \ v1OnlyIntrinsicNames)
RangeOf(f) == {f[x] : x \in DOMAIN f}

----------------
(* The modules that process.getBuiltinModule() may answer: those with an   *)
(* implementation, under both spellings; never a generated facade.         *)

builtinModuleSources(w) ==
    LET M == resolveBuiltinModules(w) IN Restrict(M, {n \in DOMAIN M : M[n][1] # "facades"})
builtinModuleRegistry(w) == [s \in {"node", "bare"} \X DOMAIN builtinModuleSources(w) |-> s[2]]
getBuiltinModule(w, s) == IF s \in DOMAIN builtinModuleRegistry(w) THEN builtinModuleSources(w)[builtinModuleRegistry(w)[s]] ELSE <<>>

----------------
(* nativeAddonRequireTransform: require('<path>.node') with any spaces and *)
(* either quote.  Texts are sequences of tokens; "w" is a word character.  *)

Quotes == {"'", "quot"}
SkipSpace(t, i) == Min({j \in i..(Len(t) + 1) : At(t, j) \notin {" ", "newline"}})
StringEnd(t, i) == First_({j \in (i + 1)..Len(t) : t[j] \in Quotes \cup {"newline"}}, 0)
\* the last token of the match that begins at i, or 0
AddonMatch(t, i) ==
    LET open == SkipSpace(t, i + 1)
        close == StringEnd(t, open)
        end == SkipSpace(t, close + 1) IN
    IF /\ t[i] = "require(" /\ At(t, i - 1) # "w" /\ At(t, open) \in Quotes
       /\ close > open + 2 /\ At(t, close) = At(t, open) /\ t[close - 1] = ".node" /\ At(t, end) = ")"
    THEN end ELSE 0
Unavailable(t, i) == LET open == SkipSpace(t, i + 1) IN <<"unavailable(">> \o SubSeq(t, open, StringEnd(t, open)) \o <<")">>
RECURSIVE AddonReplaced(_, _)
AddonReplaced(t, i) ==
    IF i > Len(t) THEN <<>>
    ELSE IF AddonMatch(t, i) # 0 THEN Unavailable(t, i) \o AddonReplaced(t, AddonMatch(t, i) + 1)
    ELSE <<t[i]>> \o AddonReplaced(t, i + 1)
\* <<>> for null: the text stays as it is
nativeAddonRequireTransform(t) ==
    IF ".node" \notin ToSet(t) \/ AddonReplaced(t, 1) = t THEN <<>> ELSE <<AddonReplaced(t, 1)>>

----------------
(* A name is answered by the host or by the TypeScript runtime, never by   *)
(* both: the timers that global-timers.ts implements are not host          *)
(* functions, while every other intrinsic is one.  Withholding those names *)
(* loses nothing of the runtime: each C++ function of the table is still   *)
(* called under some name, and no later row takes one of its names.        *)
HostNamesExact ==
    Given("plugin") =>
        /\ DOMAIN hostFunctions(in.intrinsics) \cap v1OnlyIntrinsicNames = {}
        /\ DOMAIN in.intrinsics \ v1OnlyIntrinsicNames \subseteq DOMAIN hostFunctions(in.intrinsics)
        /\ in.intrinsics = intrinsics =>
              /\ RangeOf(intrinsics) \subseteq RangeOf(hostFunctions(intrinsics))
              /\ DOMAIN intrinsics \cap DOMAIN nodeOnlyHostFunctions = {}

(* What a look-up at run time answers is an implementation, the file that  *)
(* an import of the same name is compiled from, under both spellings; a    *)
(* facade, whose members throw, is reported as unavailable.                *)
LookupHonest ==
    Given("project") =>
        \A n \in DOMAIN resolveBuiltinModules(in.world) :
            LET answer == getBuiltinModule(in.world, <<"node", n>>) IN
            /\ answer = getBuiltinModule(in.world, <<"bare", n>>)
            /\ answer # <<>> => answer = Builtin(n) /\ answer \in in.world.files /\ answer = BothSpellings(in.world)[<<"node", n>>]
            /\ Builtin(n) \in in.world.files => answer # <<>>

(* Only a require() of a literal path that ends in .node is rewritten, all *)
(* of them are, and nothing else of the text changes.                      *)
AddonRewriteExact ==
    Given("addon") =>
        LET t == in.before \o <<"require(">> \o in.argument \o <<")">> \o in.after
            r == nativeAddonRequireTransform(t)
            solid == {j \in DOMAIN in.argument : in.argument[j] \notin {" ", "newline"}}
            trimmed == IF solid = {} THEN <<>> ELSE SubSeq(in.argument, Min(solid), Max(solid))
            static == /\ Len(trimmed) >= 4 /\ trimmed[1] \in Quotes /\ trimmed[Len(trimmed)] = trimmed[1]
                      /\ \A j \in 2..(Len(trimmed) - 1) : trimmed[j] \notin Quotes \cup {"newline"}
                      /\ trimmed[Len(trimmed) - 1] = ".node" IN
        IF static /\ (in.before = <<>> \/ in.before[Len(in.before)] # "w")
        THEN r = <<in.before \o <<"unavailable(">> \o trimmed \o <<")">> \o in.after>>
        ELSE r = <<>>

\* The plugin's names are disjoint from the TypeScript runtime's, and it is honest about what is not there.
PluginExact == HostNamesExact /\ LookupHonest /\ AddonRewriteExact
=============================================================================
