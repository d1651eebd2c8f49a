----------------------------- MODULE MCPlatform -----------------------------
(* A small instance of Platform for TLC. *)
EXTENDS Platform, MCAccountLinkService

\* One key with two payloads, and no key at all.
PlatformCalls == RaceCalls \cup {Post(Plain(NoKey), Plain(U), Plain(C))}
=============================================================================
