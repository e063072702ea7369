-------------------------- MODULE StrategicContext --------------------------
(***************************************************************************)
(* loadDefaultStrategicContext of StrategicAlignmentModule                 *)
(* (packages/scoring/src): the goals, initiatives and objectives an action *)
(* is weighed against as long as nobody registers others.                  *)
(***************************************************************************)

DefaultGoals ==
    {[priority |-> 9500, horizon |-> "LONG_TERM",
      domains |-> {"data", "security", "compliance"},
      alignmentIndicators |-> {"audit", "governance", "compliance", "access control",
                               "data protection", "encryption", "retention policy"},
      misalignmentIndicators |-> {"delete", "bypass", "override", "skip validation",
                                  "disable logging", "remove audit"}],
     [priority |-> 8500, horizon |-> "MEDIUM_TERM",
      domains |-> {"infrastructure", "platform", "engineering"},
      alignmentIndicators |-> {"migrate", "modernize", "cloud", "containerize",
                               "microservice", "deploy", "automate", "scale"},
      misalignmentIndicators |-> {"legacy", "monolith", "manual process", "revert",
                                  "rollback architecture"}],
     [priority |-> 9000, horizon |-> "LONG_TERM",
      domains |-> {"operations", "infrastructure", "reliability"},
      alignmentIndicators |-> {"resilience", "recovery", "redundancy", "failover",
                               "health check", "monitoring", "incident response"},
      misalignmentIndicators |-> {"single point of failure", "remove redundancy",
                                  "skip health check", "disable monitoring"}],
     [priority |-> 7000, horizon |-> "SHORT_TERM",
      domains |-> {"finance", "operations", "infrastructure"},
      alignmentIndicators |-> {"optimize", "cost reduction", "efficiency", "cleanup",
                               "archive", "right-size", "consolidate"},
      misalignmentIndicators |-> {"over-provision", "duplicate", "untracked spend",
                                  "expand without justification"}]}

DefaultInitiatives ==
    {[importanceWeight |-> 9000, status |-> "IN_PROGRESS",
      resourceDomains |-> {"network_egress_mb", "api_call", "cpu"},
      synergyIndicators |-> {"zero trust", "identity verification", "mTLS",
                             "access control", "authentication", "authorization"},
      conflictIndicators |-> {"disable auth", "bypass security", "open access",
                              "remove firewall", "skip verification"}],
     [importanceWeight |-> 8500, status |-> "SCALING",
      resourceDomains |-> {"cpu", "network_egress_mb", "storage_gb"},
      synergyIndicators |-> {"cloud", "containerize", "kubernetes", "deploy",
                             "migrate", "terraform", "infrastructure as code"},
      conflictIndicators |-> {"on-premise", "legacy", "physical server",
                              "revert migration", "abandon cloud"}],
     [importanceWeight |-> 8000, status |-> "IN_PROGRESS",
      resourceDomains |-> {"storage_gb", "api_call"},
      synergyIndicators |-> {"audit", "logging", "trail", "immutable record",
                             "event sourcing", "traceability"},
      conflictIndicators |-> {"delete log", "remove audit", "disable logging",
                              "truncate history"}]}

DefaultObjectives ==
    {[weight |-> 8500,
      positiveSignals |-> {"transparency", "partner", "trust", "collaboration",
                           "shared standard", "open protocol"},
      erosionSignals |-> {"unilateral", "opaque", "hidden", "bypass partner",
                          "break contract", "violate sla"}],
     [weight |-> 8000,
      positiveSignals |-> {"shared infrastructure", "common platform", "resilience",
                           "redundancy", "disaster recovery", "cross-system"},
      erosionSignals |-> {"degrade shared", "overload common", "exhaust shared",
                          "monopolize resource", "destabilize platform"}],
     [weight |-> 7500,
      positiveSignals |-> {"learning", "adaptation", "feedback loop", "cooperative",
                           "collective intelligence", "knowledge sharing"},
      erosionSignals |-> {"suppress learning", "isolate", "hoard knowledge",
                          "prevent adaptation", "block feedback"}]}
=============================================================================
