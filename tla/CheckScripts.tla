----------------------------- MODULE CheckScripts -----------------------------
(***************************************************************************)
(* The check scripts by their names, and the configurations and devices    *)
(* that each is run with.                                                  *)
(***************************************************************************)
EXTENDS MessageChecks, MemoryChecks, DescriptionChecks, ClockChecks, FrameChecks,
        TrainChecks, SearchChecks, StreamChecks, DeviceUnderCheck

AllProtocols == {"EVENT_EXCHANGE", "SNIP", "DATAGRAM", "MEMORY_CONFIGURATION",
                 "STREAM", "CDI", "FDI", "ADCDI", "TRAIN_CONTROL"}

Usual == [checkpip |-> TRUE, answersPip |-> TRUE, protocols |-> AllProtocols,
          interactive |-> FALSE, autoReboot |-> TRUE, forceWrites |-> TRUE,
          chatter |-> FALSE, clock |-> FALSE, frames |-> FALSE,
          target |-> TRUE, lists |-> None, streams |-> TRUE, kind |-> "plain"]

\* Configurations of the checker and kinds of device.  "o" of a script is one of them:
\* the options, and what the device lists in its PIP reply.
Gating ==
    <<Usual,
      [Usual EXCEPT !.checkpip = FALSE],
      [Usual EXCEPT !.answersPip = FALSE],
      [Usual EXCEPT !.protocols = {}]>>
\* For the scripts that ask the operator, restart the device or want a simple node's
\* MTI.
Operated == {"me10", "me20", "me30", "me50", "me60", "ev50", "ev60", "ev70", "mc50",
             "bt80", "bt100"}
Simple == [Usual EXCEPT !.protocols = @ \cup {"SIMPLE"}]
Operation ==
    <<Simple,
      [Usual EXCEPT !.interactive = TRUE, !.autoReboot = FALSE],
      [Usual EXCEPT !.autoReboot = FALSE]>>

ProgramOf(s, x) ==
    CASE s = "getTargetID" -> getTargetID(x)
      [] s = "gatherPIP" -> gatherPIP(x)
      [] s = "me10" -> check_me10_init(x)
      [] s = "me20" -> check_me20_verify(x)
      [] s = "me30" -> check_me30_pip(x)
      [] s = "me40" -> check_me40_oir(x)
      [] s = "me50" -> check_me50_dup(x)
      [] s = "me60" -> check_me60_pip_simple(x)
      [] s = "sn10" -> check_sn10_snip(x)
      [] s = "ev10" -> check_ev10_ida(x)
      [] s = "ev20" -> check_ev20_idg(x)
      [] s = "ev30" -> check_ev30_ip(x)
      [] s = "ev40" -> check_ev40_ic(x)
      [] s = "ev50" -> check_ev50_ini(x)
      [] s = "ev60" -> check_ev60_ewp(x)
      [] s = "ev70" -> check_ev70_lrn(x)
      [] s = "da30" -> check_da30_dr(x)
      [] s = "da40" -> check_da40_unknown_protocol(x)
      [] s = "mc10" -> check_mc10_co(x)
      [] s = "mc20" -> check_mc20_ckasi(x)
      [] s = "mc30" -> check_mc30_read(x)
      [] s = "mc40" -> check_mc40_lock(x)
      [] s = "mc50" -> check_mc50_restart(x)
      [] s = "mc60" -> check_mc60_out_of_range(x)
      [] s = "mc70" -> check_mc70_write_under_mask(x)
      [] s = "mc80" -> check_mc80_write(x)
      [] s = "cd10" -> check_cd10_valid(x)
      [] s = "cd20" -> check_cd20_read(x)
      [] s = "cd30" -> check_cd30_acdi(x)
      [] s = "cd40" -> check_cd40_acdi_writeback(x)
      [] s = "fd10" -> check_fd10_valid(x)
      [] s = "fd20" -> check_fd20_read(x)
      [] s = "fd30" -> check_fd30_readonly(x)
      [] s = "fr10" -> check_fr10_init(x)
      [] s = "fr20" -> check_fr20_ame(x)
      [] s = "fr30" -> check_fr30_collide(x)
      [] s = "fr40" -> check_fr40_highbit(x)
      [] s = "fr50" -> check_fr50_capacity(x)
      [] s = "fr60" -> check_fr60_standard(x)
      [] s = "tr010" -> check_tr010_events(x)
      [] s = "tr020" -> check_tr020_speed(x)
      [] s = "tr030" -> check_tr030_func(x)
      [] s = "tr040" -> check_tr040_estop(x)
      [] s = "tr050" -> check_tr050_gestop(x)
      [] s = "tr060" -> check_tr060_geoff(x)
      [] s = "tr070" -> check_tr070_memspaces(x)
      [] s = "tr080" -> check_tr080_listener(x)
      [] s = "tr090" -> check_tr090_controller(x)
      [] s = "tr100" -> check_tr100_reserve(x)
      [] s = "tr110" -> check_tr110_heartbeat(x)
      [] s = "ts10" -> check_ts10_create(x)
      [] s = "ts20" -> check_ts20_partial(x)
      [] s = "ts30" -> check_ts30_reserved2(x)
      [] s = "ts40" -> check_ts40_reserved4(x)
      [] s = "dd10" -> check_dd10_identify(x)
      [] s = "dd20" -> check_dd20_event_format(x)
      [] s = "dd30" -> check_dd30_identify_producer(x)
      [] s = "dd40" -> check_dd40_track_empty(x)
      [] s = "bt10" -> check_bt10_query(x)
      [] s = "bt20" -> check_bt20_set(x)
      [] s = "bt30" -> check_bt30_immediate(x)
      [] s = "bt40" -> check_bt40_multiset(x)
      [] s = "bt50" -> check_bt50_freq(x)
      [] s = "bt60" -> check_bt60_requested(x)
      [] s = "bt70" -> check_bt70_rollover(x)
      [] s = "bt80" -> check_bt80_startup(x)
      [] s = "bt100" -> check_bt100_consumer_startup(x)
      [] s = "bt110" -> check_bt110_consumer_sync(x)
      [] s = "bt120" -> check_bt120_consumer_startstop(x)
      [] s = "bt130" -> check_bt130_consumer_rate(x)
      [] s = "st10" -> check_st10_initiate(x)
      [] s = "st20" -> check_st20_reject_unsupported(x)
      [] s = "st30" -> check_st30_buffer_negotiation(x)
      [] s = "st35" -> check_st35_min_buffer(x)
      [] s = "st37" -> check_st37_max_buffer(x)
      [] s = "st40" -> check_st40_unknown_content_uid(x)
      [] s = "st50" -> check_st50_initiate_reply_format(x)
      [] s = "st60" -> check_st60_data_send(x)
      [] s = "st65" -> check_st65_data_proceed_flow(x)
      [] s = "st70" -> check_st70_complete(x)
      [] s = "st80" -> check_st80_terminate_error(x)
      [] s = "st85" -> check_st85_stability(x)
      [] s = "st90" -> check_st90_oir_fallback(x)
      [] s = "st100" -> check_st100_concurrent_same_node(x)
      [] s = "st110" -> check_st110_concurrent_multi_node(x)
      [] s = "st120" -> check_st120_sustained_transfer(x)
      [] s = "st130" -> check_st130_min_chunk_send(x)
      [] s = "st140" -> check_st140_concurrent_sustained(x)
      [] s = "st150" -> check_st150_asymmetric_buffers(x)
      [] s = "st155" -> check_st155_negotiation_enforcement(x)
      [] s = "st170" -> check_st170_zero_payload_flush(x)
      [] s = "st180" -> check_st180_interleaved_data_send(x)
      [] s = "st190" -> check_st190_suggested_did(x)
      [] s = "st200" -> check_st200_complete_with_byte_count(x)
      [] s = "st210" -> check_st210_reject_then_retry(x)

Streams == {"st10", "st20", "st30", "st35", "st37", "st40", "st50", "st60", "st65",
            "st70", "st80", "st85", "st90", "st100", "st110", "st120", "st130", "st140",
            "st150", "st155", "st170", "st180", "st190", "st200", "st210"}

\* Devices of different kinds, for the scripts that make a difference.
OfKind(kinds) == [k \in DOMAIN kinds |-> [Usual EXCEPT !.kind = kinds[k]]]
VariantsOf(s) ==
    CASE s \in {"ev60", "ev70"} -> <<[Usual EXCEPT !.chatter = TRUE]>>
      [] s \in {"mc20", "mc30", "mc60", "mc70", "mc80", "cd20", "cd40", "fd20"} ->
            <<[Usual EXCEPT !.streams = FALSE], [Usual EXCEPT !.forceWrites = FALSE],
              [Usual EXCEPT !.protocols = @ \ {"STREAM", "CDI"}]>> \o OfKind(Kinds)
      [] s = "da40" -> <<Simple>>
      [] s \in {"bt20", "bt30"} -> OfKind(<<"identifies settings">>)
      [] s \in {"bt110", "bt120", "bt130"} ->
            OfKind(<<"registers events", "inactive events">>)
      [] s \in {"tr070", "tr090", "tr100", "tr110"} -> OfKind(TrainKinds)
      [] s = "st110" -> OfKind(StreamKinds) \o <<[Usual EXCEPT !.target = FALSE]>>
      [] s \in Streams -> OfKind(StreamKinds)
      [] s = "fr10" ->
            <<[Usual EXCEPT !.interactive = TRUE],
              [Usual EXCEPT !.interactive = TRUE, !.target = FALSE]>>
      [] s \in {"fr20", "fr30", "fr40"} ->
            <<[Usual EXCEPT !.target = FALSE],
              [Usual EXCEPT !.kind = "gives up its alias"]>>
      [] OTHER -> << >>

\* These look at no option.
Plain == {"getTargetID", "gatherPIP", "me40", "bt10", "bt20", "bt30", "bt40", "bt50",
          "bt60", "bt70", "bt110", "bt120", "bt130", "fr10", "fr20", "fr30", "fr40",
          "fr50", "fr60", "ts10", "ts20", "ts30", "ts40"}
Detectors == {"dd10", "dd20", "dd30", "dd40"}
Framed == {"fr10", "fr20", "fr30", "fr40", "fr60"}
Clocks == {"bt80", "bt100"}

ProfilesOf(s) ==
    LET listed == (IF s \in Plain THEN <<Usual>> ELSE Gating)
                    \o (IF s \in Operated THEN Operation ELSE << >>) \o VariantsOf(s)
    IN [k \in DOMAIN listed |->
            [listed[k] EXCEPT
                !.clock = s \in Clocks, !.frames = s \in Framed,
                !.lists = CASE s = "tr010" -> "train" [] s \in Detectors -> "detector"
                            [] OTHER -> None]]

=============================================================================
