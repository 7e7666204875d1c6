----------------------------- MODULE VulkanFormats -----------------------------
(***************************************************************************)
(* The formats include/vgf/vulkan_helpers.generated.hpp can size and       *)
(* classify, named without their "VK_FORMAT_": those of one component,     *)
(* which are all that tensors and constants use.                           *)
(***************************************************************************)
EXTENDS Naturals

OneByte ==
  {"R8_UNORM", "R8_SNORM", "R8_USCALED", "R8_SSCALED", "R8_UINT", "R8_SINT", "R8_SRGB",
   "S8_UINT", "A8_UNORM", "R8_BOOL_ARM",
   "R8_SFLOAT_FPENCODING_FLOAT8E4M3_ARM", "R8_SFLOAT_FPENCODING_FLOAT8E5M2_ARM"}

TwoBytes ==
  {"R16_UNORM", "R16_SNORM", "R16_USCALED", "R16_SSCALED", "R16_UINT", "R16_SINT", "R16_SFLOAT",
   "D16_UNORM", "R10X6_UNORM_PACK16", "R12X4_UNORM_PACK16", "R16_SFLOAT_FPENCODING_BFLOAT16_ARM",
   "R10X6_UINT_PACK16_ARM", "R12X4_UINT_PACK16_ARM", "R14X2_UINT_PACK16_ARM",
   "R14X2_UNORM_PACK16_ARM"}

FourBytes == {"R32_UINT", "R32_SINT", "R32_SFLOAT", "X8_D24_UNORM_PACK32", "D32_SFLOAT"}

EightBytes ==
  {"R64_UINT", "R64_SINT", "R64_SFLOAT",
   "BC4_UNORM_BLOCK", "BC4_SNORM_BLOCK", "EAC_R11_UNORM_BLOCK", "EAC_R11_SNORM_BLOCK"}

blockSize(format) ==
  CASE format \in OneByte -> 1
    [] format \in TwoBytes -> 2
    [] format \in FourBytes -> 4
    [] format \in EightBytes -> 8
    [] format = "SBS80_ARM" -> 10
    [] OTHER -> 0

componentNumericFormat(format) ==
  CASE format \in {"R8_UNORM", "R16_UNORM", "D16_UNORM", "X8_D24_UNORM_PACK32", "BC4_UNORM_BLOCK",
                   "EAC_R11_UNORM_BLOCK", "R10X6_UNORM_PACK16", "R12X4_UNORM_PACK16", "A8_UNORM",
                   "R14X2_UNORM_PACK16_ARM"} -> "UNORM"
    [] format \in {"R8_SNORM", "R16_SNORM", "BC4_SNORM_BLOCK", "EAC_R11_SNORM_BLOCK"} -> "SNORM"
    [] format \in {"R8_USCALED", "R16_USCALED"} -> "USCALED"
    [] format \in {"R8_SSCALED", "R16_SSCALED"} -> "SSCALED"
    [] format \in {"R8_UINT", "R16_UINT", "R32_UINT", "R64_UINT", "S8_UINT", "R10X6_UINT_PACK16_ARM",
                   "R12X4_UINT_PACK16_ARM", "R14X2_UINT_PACK16_ARM", "SBS80_ARM"} -> "UINT"
    [] format \in {"R8_SINT", "R16_SINT", "R32_SINT", "R64_SINT"} -> "SINT"
    [] format \in {"R16_SFLOAT", "R32_SFLOAT", "R64_SFLOAT", "D32_SFLOAT",
                   "R16_SFLOAT_FPENCODING_BFLOAT16_ARM", "R8_SFLOAT_FPENCODING_FLOAT8E4M3_ARM",
                   "R8_SFLOAT_FPENCODING_FLOAT8E5M2_ARM"} -> "SFLOAT"
    [] format = "R8_BOOL_ARM" -> "BOOL"
    [] format = "R8_SRGB" -> "SRGB"
    [] OTHER -> ""

SizedFormats == OneByte \cup TwoBytes \cup FourBytes \cup EightBytes \cup {"SBS80_ARM"}
================================================================================
