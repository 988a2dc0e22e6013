------------------------- MODULE MCLlmProviders -------------------------
(* Two providers in the order the deployment gives them, only the first   *)
(* probed at startup; two callers of LLMManager.analyze.                  *)
EXTENDS LlmProviders

CONSTANTS gemini, anthropic

MCPriority == <<gemini, anthropic>>
============================================================================
